CONSTANTS
    Intervals <- MCIntervals
    Lifetimes <- MCLifetimes
    Granule = 5
    MaxDelay = 5
    Horizon = 100
SPECIFICATION FairSpec
INVARIANTS
    TypeOK
    LastPollBounded
    ResultDeserved
    ApprovalNotMissed
PROPERTIES
    PollsSpaced
    FlowReturns
