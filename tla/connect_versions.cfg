CONSTANTS
    Versions <- MCVersions
    Requests = {r1}
SPECIFICATION Spec
INVARIANT
    VersionEnforced
CHECK_DEADLOCK FALSE
