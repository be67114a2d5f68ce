CONSTANTS
    Requests = {r1, r2}
    NoClaims = NoClaims
    Subjects <- MCSubjects
    GroupsOf <- MCGroupsOf
    Rules <- MCRules
    Configs <- MCConfigs
    HttpRequests <- MCToolRequests
    Authn = {"ready"}
    Metering = {"open"}
    Tunnels = {"open"}
    StoreFaults = FALSE
    Hanging = {}
SPECIFICATION Spec
SYMMETRY Symmetric
INVARIANTS
    TypeOK
    SentOnlyWhenGranted
    RefusedOnlyForCause
    RowsFaithful
    Accounted
    DrainLosesNoRow
    ListingComplete
    ClosesSpareCalls
