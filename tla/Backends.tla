------------------------------ MODULE Backends ------------------------------
(***************************************************************************)
(* What Execute of each backend type checks before it sends anything: the  *)
(* operation is on the resource's list, the type supports it, and the      *)
(* arguments it needs are there (internal/resources).                      *)
(*                                                                         *)
(* The arguments of a call are a set of facts, one for each argument that  *)
(* passes the check the code makes of it: its type and, but for "value",   *)
(* "pipeline" and "body", that it is not empty.  That a query starts with  *)
(* SELECT is a fact too.  Optional arguments only shape the command that   *)
(* is sent and are left out.                                               *)
(***************************************************************************)

\* strings.ToLower on the spellings of operations that need it: those of the
\* tool schemas and of the configurations, and an upper-case one.
Spelled ==
    [GET |-> "get", SET |-> "set", DEL |-> "del", FIND |-> "find",
     SELECT |-> "select", listCollections |-> "listcollections"]

Lower(op) == IF op \in DOMAIN Spelled THEN Spelled[op] ELSE op

\* A plausible bug in isOpAllowed: only the submitted name is lower-cased.
IsOpAllowedAsWritten(allowed, op) == allowed = {} \/ Lower(op) \in allowed

\* isOpAllowed: an empty list allows every operation; case does not matter.
IsOpAllowed(allowed, op) ==
    \/ allowed = {}
    \/ \E a \in allowed : Lower(a) = Lower(op)

\* The switch of RedisResource.Execute, and what its branches require.
RedisRequires ==
    [get |-> {"key"}, set |-> {"key", "value"}, keys |-> {"pattern"},
     del |-> {"key"}, ttl |-> {"key"}, info |-> {}, scan |-> {"pattern"}]

\* The switch of MongoResource.Execute, and what its branches require.
MongoRequires ==
    [find |-> {"collection"}, aggregate |-> {"collection", "pipeline"},
     count |-> {"collection"}, listcollections |-> {},
     distinct |-> {"collection", "field"}]

\* The switch of MySQLResource.Execute, and what its branches require.
MySQLRequires ==
    [select |-> {"query", "starts with SELECT"}, show |-> {"query"},
     describe |-> {"table"}, explain |-> {"query"}]

\* The switch of ESResource.Execute, and what its branches require.
ESRequires ==
    [search |-> {"index", "body"}, cat |-> {"endpoint"},
     indices |-> {}, count |-> {}]

Requires ==
    [redis |-> RedisRequires, mongodb |-> MongoRequires,
     mysql |-> MySQLRequires, elasticsearch |-> ESRequires]

\* The operations of a type that change data by what they are, those a read-only
\* resource would have to refuse.  (Where an argument decides it, as in the
\* stages of a MongoDB pipeline, the operation is left out.)
Mutating(type) == IF type = "redis" THEN {"set", "del"} ELSE {}

\* Execute gets past its checks and sends the operation to the backend.
Admitted(resource, op, args) ==
    /\ IsOpAllowed(resource.allowedOps, op)
    /\ Lower(op) \in DOMAIN Requires[resource.type]
    /\ Requires[resource.type][Lower(op)] \subseteq args

=============================================================================
