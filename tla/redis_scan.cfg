CONSTANTS
    k1 = k1
    k2 = k2
    k3 = k3
    k4 = k4
    Keys <- MCKeys
    Matching <- MCMatching
    Bucket <- MCBucket
    Buckets = 3
    MaxChanges = 3
SPECIFICATION FairSpec
INVARIANTS
    TypeOK
    ScanComplete
    ScanSound
PROPERTY
    ScanReturns
\* A call that returned does nothing more; ScanReturns says that it does return.
CHECK_DEADLOCK FALSE
