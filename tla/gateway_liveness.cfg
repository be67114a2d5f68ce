CONSTANTS
    Requests = {r1}
    NoClaims = NoClaims
    Subjects <- MCSubjects
    GroupsOf <- MCGroupsOf
    Rules <- MCRules
    Configs <- MCConfigsHanging
    HttpRequests <- MCRequestsHanging
    Authn = {"ready", "nil"}
    Metering = {"open", "off"}
    Tunnels = {"open", "off"}
    StoreFaults = TRUE
    Hanging = {"cache", "slow"}
SPECIFICATION FairSpec
PROPERTIES
    RequestAnswered
    SignalExits
    KeepsContract
