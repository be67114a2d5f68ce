----------------------------- MODULE RedisScan -----------------------------
(***************************************************************************)
(* execScan of internal/resources: the iteration over the keys of a Redis  *)
(* server that other clients change meanwhile.                             *)
(*                                                                         *)
(* Redis is external.  Its SCAN visits the buckets of its table in turn:   *)
(* the cursor names the next one, 0 the first and, in a reply, the end.    *)
(* While the table is resized a reply can repeat keys of other buckets.    *)
(***************************************************************************)
EXTENDS Integers, FiniteSets

CONSTANTS
    Keys,       \* the keys that are there or may be
    Matching,   \* those the pattern matches
    Bucket,     \* the bucket of each
    Buckets,    \* how many buckets the table has
    MaxChanges  \* bound: changes of the keys by other clients

ASSUME ScanAssumption ==
    /\ Matching \subseteq Keys
    /\ Buckets \in Nat \ {0} /\ MaxChanges \in Nat
    /\ Bucket \in [Keys -> 0..(Buckets - 1)]

VARIABLES
    pc,         \* where the call is
    cursor,     \* its cursor
    allKeys,    \* what it has collected, without order and repetitions
    result,     \* what it returns: keys, or an error
    reply,      \* the reply of Redis, on its way
    present,    \* the keys Redis has
    always,     \* those it had ever since the call began (history)
    ever,       \* those it had at any time since then (history)
    changes     \* how often the keys were changed

call    == <<pc, cursor, allKeys, result>>
history == <<always, ever, changes>>
vars    == <<call, reply, present, history>>

NoReply == [keys |-> {}, cursor |-> -1]

Init ==
    /\ pc = "scan" /\ cursor = 0 /\ allKeys = {}
    /\ result = [kind |-> "none", keys |-> {}]
    /\ reply = NoReply
    /\ present \in SUBSET Keys
    /\ always = present /\ ever = present
    /\ changes = 0

-----------------------------------------------------------------------------
(* Redis and its other clients                                             *)

\* A key is set, deleted, or expires.
Change(keys) ==
    /\ changes < MaxChanges /\ pc # "done"
    /\ present' = keys
    /\ always' = always \cap keys /\ ever' = ever \cup keys
    /\ changes' = changes + 1
    /\ UNCHANGED <<call, reply>>
SetKey(k) == k \notin present /\ Change(present \cup {k})
DelKey(k) == k \in present /\ Change(present \ {k})

\* A plausible bug in execScan: the pattern is checked but not passed on.
PatternDropped == Keys
Pattern == Matching

\* SCAN cursor MATCH pattern COUNT count: as many buckets as the count is worth,
\* one at least.
Answer(last) ==
    /\ pc = "waiting" /\ reply = NoReply
    /\ last \in cursor..(Buckets - 1)
    /\ \E repeated \in SUBSET (present \cap Pattern) :
          reply' = [keys   |-> {k \in present \cap Pattern : Bucket[k] \in cursor..last}
                                   \cup repeated,
                    cursor |-> IF last = Buckets - 1 THEN 0 ELSE last + 1]
    /\ UNCHANGED <<call, present, history>>

-----------------------------------------------------------------------------
(* execScan                                                                *)

Scan ==
    /\ pc = "scan"
    /\ pc' = "waiting"
    /\ UNCHANGED <<cursor, allKeys, result, reply, present, history>>

Return(kind, keys) == pc' = "done" /\ result' = [kind |-> kind, keys |-> keys]

\* Plausible bugs in the condition that ends the loop, and in the assignment of the
\* cursor.
FinishedByEmptyReply == reply.cursor = 0 \/ reply.keys = {}
NextCursorKept == IF reply.cursor = 0 THEN 0 ELSE cursor

Finished == reply.cursor = 0
NextCursor == reply.cursor

Collect ==
    /\ pc = "waiting" /\ reply # NoReply
    /\ allKeys' = allKeys \cup reply.keys
    /\ cursor' = NextCursor
    /\ IF Finished THEN Return("keys", allKeys') ELSE pc' = "scan" /\ UNCHANGED result
    /\ reply' = NoReply
    /\ UNCHANGED <<present, history>>

\* The connection fails, Redis answers with an error or not in time, or the
\* context of the call is cancelled: what was collected is given up.
Fail ==
    /\ pc = "waiting"
    /\ Return("error", {})
    /\ reply' = NoReply
    /\ UNCHANGED <<cursor, allKeys, present, history>>

Next ==
    \/ Scan \/ Collect \/ Fail
    \/ \E last \in 0..(Buckets - 1) : Answer(last)
    \/ \E k \in Keys : SetKey(k) \/ DelKey(k)

Spec == Init /\ [][Next]_vars

\* The call goes on when it can.  The client library waits for a reply for a few
\* seconds: if there is none the call fails.
FairSpec == Spec /\ WF_vars(Scan \/ Collect \/ Fail)

-----------------------------------------------------------------------------

\* The state is well formed; keys are returned when the cursor has come round to 0.
TypeOK ==
    /\ pc \in {"scan", "waiting", "done"}
    /\ cursor \in 0..(Buckets - 1)
    /\ result \in [kind : {"none", "keys", "error"}, keys : SUBSET Keys]
    /\ result.kind = "keys" => cursor = 0
    /\ reply \in [keys : SUBSET Keys, cursor : -1..(Buckets - 1)]
    /\ {allKeys, present, always, ever} \subseteq SUBSET Keys
    /\ changes \in 0..MaxChanges

\* Every key that matches and was there all the time is returned, whatever other
\* clients did to the rest, and whatever Redis put into each reply.
ScanComplete == result.kind = "keys" => always \cap Matching \subseteq result.keys

\* Only keys that match and were there at some time are returned, and none with an
\* error.
ScanSound ==
    /\ result.keys \subseteq ever \cap Matching
    /\ result.kind # "keys" => result.keys = {}

\* The call comes back.
ScanReturns == <>(pc = "done")

=============================================================================
