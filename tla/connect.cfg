CONSTANTS
    Versions <- MCVersions
    Requests = {r1}
SPECIFICATION FairSpec
INVARIANTS
    TypeOK
    NewerNeverWorse
PROPERTIES
    ActsAsClient
    ConnectSettles
\* A client that returned does nothing more; ConnectSettles says when it may stop.
CHECK_DEADLOCK FALSE
