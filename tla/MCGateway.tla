------------------------------ MODULE MCGateway ------------------------------
(***************************************************************************)
(* A small deployment for TLC: a development team that may read the cache, *)
(* an administrator group with the wildcard, and a group whose only rule   *)
(* grants "write".  The configuration lists operations in mixed case.      *)
(***************************************************************************)
EXTENDS Gateway, TLC

MCSubjects == {"dana", "ada", "wim"}
MCGroupsOf ==
    [dana |-> {"dev-team"}, ada |-> {"admin"}, wim |-> {"dev-team", "writers"}]
MCRules ==
    {[group |-> "dev-team", resources |-> {"cache"}, permissions |-> {"read"}],
     [group |-> "writers", resources |-> {"mongo"}, permissions |-> {"write"}],
     [group |-> "admin", resources |-> {"*"}, permissions |-> {"read", "write"}]}
MCConfigs ==
    [cache |-> [type |-> "redis", allowedOps |-> {"GET", "set"}, readOnly |-> TRUE],
     mongo |-> [type |-> "mongodb", allowedOps |-> {}, readOnly |-> TRUE]]

Message(route, header, subject, valid) ==
    [route |-> route, header |-> header, subject |-> subject, valid |-> valid,
     tool |-> "list_resources", resource |-> "", operation |-> "", args |-> {}]
List(subject) == Message("/mcp", "bearer", subject, TRUE)
Query(subject, resource, operation, args) ==
    [List(subject) EXCEPT !.tool = "query", !.resource = resource,
                          !.operation = operation, !.args = args]

\* Requests to the tools, one for each thing that can become of them.
MCToolRequests ==
    {[Query("ada", "mongo", "find", {"collection"}) EXCEPT !.valid = FALSE],
     List("ada"), List("dana"),
     Query("dana", "cache", "get", {"key"}),
     Query("dana", "cache", "get", {}),
     Query("dana", "cache", "del", {"key"}),
     Query("wim", "mongo", "find", {"collection"}),
     Query("ada", "ghost", "get", {"key"}),
     Query("ada", "mongo", "listCollections", {})}

\* Those, an operation that changes data, and requests that no tool sees.
MCHttpRequests ==
    MCToolRequests \cup
    {Query("ada", "cache", "SET", {"key", "value"}),
     Message("/health", "absent", "dana", FALSE),
     Message("/api/bootstrap", "bearer", "dana", TRUE),
     Message("/mcp", "malformed", "dana", FALSE)}

\* With one more MongoDB, which may hang.
MCConfigsHanging ==
    MCConfigs @@
    [slow |-> [type |-> "mongodb", allowedOps |-> {}, readOnly |-> FALSE]]
MCRequestsHanging ==
    MCHttpRequests \cup {Query("ada", "slow", "find", {"collection"})}

Symmetric == Permutations(Requests)

==============================================================================
