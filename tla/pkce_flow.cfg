CONSTANTS
    b1 = b1
    b2 = b2
    b3 = b3
    k1 = k1
    Callbacks <- MCCallbacks
    Codes <- MCCodes
SPECIFICATION FairSpec
INVARIANTS
    TypeOK
    NothingOverlooked
    ResultDeserved
    LoneCodeExchanged
PROPERTIES
    FlowReturns
    CallbackAnswered
\* A flow that returned does nothing more; FlowReturns says that it does return.
CHECK_DEADLOCK FALSE
