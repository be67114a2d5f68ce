CONSTANTS
    Requests = {r1}
    NoClaims = NoClaims
    Subjects <- MCSubjects
    GroupsOf <- MCGroupsOf
    Rules <- MCRules
    Configs <- MCConfigs
    HttpRequests <- MCHttpRequests
    Authn = {"ready"}
    Metering = {"open"}
    Tunnels = {"open"}
    StoreFaults = FALSE
    Hanging = {}
SPECIFICATION Spec
INVARIANT QueriesRecorded
