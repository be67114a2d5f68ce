CONSTANTS
    Environ <- MCEnviron
    Names <- MCNames
    RawConfigs <- MCRawConfigs
SPECIFICATION Spec
CHECK_DEADLOCK FALSE
INVARIANTS
    TypeOK
    NothingLeftOpen
    TunnelLast
    ServesWhatIsConfigured
PROPERTIES
    KeepsLifecycle
