-------------------------- MODULE RedisScanProofs --------------------------
(***************************************************************************)
(* That a Redis scan that returns keys returns the right ones, for any     *)
(* keys, any table and any number of changes by other clients.             *)
(***************************************************************************)
EXTENDS RedisScan, TLAPS

\* The buckets the call is done with: those below the cursor, or below the one in
\* the reply it waits to collect.
Done == IF reply = NoReply THEN 0..(cursor - 1)
        ELSE IF reply.cursor = 0 THEN 0..(Buckets - 1)
        ELSE 0..(reply.cursor - 1)

\* What is known of the keys at every step: those that stayed are collected, or in
\* the reply, once their bucket is done; and nothing else ever is.
Progress ==
    /\ always \subseteq present /\ present \subseteq ever
    /\ allKeys \cup reply.keys \subseteq ever \cap Matching
    /\ pc # "done" =>
          \A k \in always \cap Matching : Bucket[k] \in Done => k \in allKeys \cup reply.keys
    /\ pc # "waiting" => reply = NoReply
    /\ reply # NoReply => reply.cursor # -1
    /\ pc # "done" <=> result.kind = "none"

IInv == TypeOK /\ Progress /\ ScanComplete /\ ScanSound

USE ScanAssumption

-----------------------------------------------------------------------------

LEMMA InitIInv == Init => IInv
  BY DEF Init, IInv, TypeOK, Progress, Done, NoReply, ScanComplete, ScanSound

\* Other clients take keys from those that stayed, and add to those that ever were.
LEMMA ChangeIInv ==
    ASSUME NEW keys \in SUBSET Keys, IInv, Change(keys) PROVE IInv'
  <1>1. TypeOK'
    BY DEF IInv, TypeOK, Change, call
  <1>2. Progress'
    BY DEF IInv, TypeOK, Progress, Change, call, Done
  <1>3. ScanComplete' /\ ScanSound'
    BY DEF IInv, Progress, ScanComplete, ScanSound, Change, call
  <1> QED BY <1>1, <1>2, <1>3 DEF IInv

\* A reply has all keys of the buckets it is about.
LEMMA AnswerIInv ==
    ASSUME NEW last \in 0..(Buckets - 1), IInv, Answer(last) PROVE IInv'
  <1> DEFINE keys == {k \in present \cap Pattern : Bucket[k] \in cursor..last}
             next == IF last = Buckets - 1 THEN 0 ELSE last + 1
  <1>1. PICK repeated \in SUBSET (present \cap Pattern) :
            reply' = [keys |-> keys \cup repeated, cursor |-> next]
    BY DEF Answer
  <1>2. next \in 0..(Buckets - 1) /\ reply' # NoReply
    BY <1>1 DEF NoReply
  <1>3. keys \cup repeated \subseteq present \cap Matching
    BY DEF Pattern
  <1>4. TypeOK'
    BY <1>1, <1>2, <1>3 DEF IInv, TypeOK, Answer, call, history
  <1>5. ASSUME NEW k \in always \cap Matching, Bucket[k] \in Done'
        PROVE  k \in allKeys \cup reply'.keys
    <2>1. Bucket[k] \in 0..last
      BY <1>1, <1>2, <1>5 DEF Done, IInv, TypeOK
    <2>2. CASE Bucket[k] \in 0..(cursor - 1)
      BY <2>2, <1>5 DEF Done, IInv, Progress, Answer, NoReply
    <2>3. CASE Bucket[k] \in cursor..last
      BY <2>3, <1>1, <1>5 DEF IInv, Progress, Pattern
    <2> QED BY <2>1, <2>2, <2>3 DEF IInv, TypeOK
  <1>6. Progress'
    BY <1>1, <1>3, <1>5 DEF IInv, Progress, Answer, call, history
  <1>7. ScanComplete' /\ ScanSound'
    BY DEF IInv, ScanComplete, ScanSound, Answer, call, history
  <1> QED BY <1>4, <1>6, <1>7 DEF IInv

\* The loop ends at the cursor 0, when all buckets are done.
LEMMA CollectIInv == ASSUME IInv, Collect PROVE IInv'
  <1>1. reply.cursor \in 0..(Buckets - 1)
    BY DEF IInv, TypeOK, Collect, Progress, NoReply
  <1>2. TypeOK'
    <2>1. /\ allKeys' \in SUBSET Keys
          /\ reply' \in [keys : SUBSET Keys, cursor : -1..(Buckets - 1)]
          /\ cursor' \in 0..(Buckets - 1)
      BY <1>1 DEF IInv, TypeOK, Collect, NextCursor, NoReply
    <2>2. result' \in [kind : {"none", "keys", "error"}, keys : SUBSET Keys]
      BY <2>1 DEF IInv, TypeOK, Collect, Return
    <2>3. result'.kind = "keys" => cursor' = 0
      BY DEF IInv, Progress, Collect, Finished, NextCursor, Return
    <2> QED BY <2>1, <2>2, <2>3 DEF IInv, TypeOK, Collect, Return, history
  <1>3. CASE Finished
    <2>1. \A k \in always \cap Matching : k \in allKeys \cup reply.keys
      BY <1>3 DEF IInv, TypeOK, Progress, Collect, Done, Finished
    <2>2. result' = [kind |-> "keys", keys |-> allKeys \cup reply.keys] /\ pc' = "done"
      BY <1>3 DEF Collect, Return
    <2>3. Progress'
      BY <2>2 DEF IInv, Progress, Collect, NoReply, history
    <2>4. ScanComplete' /\ ScanSound'
      BY <2>1, <2>2 DEF IInv, Progress, Collect, ScanComplete, ScanSound, history
    <2> QED BY <1>2, <2>3, <2>4 DEF IInv
  <1>4. CASE ~Finished
    <2>1. Progress'
      BY <1>1, <1>4 DEF IInv, TypeOK, Progress, Collect, Done, Finished, NextCursor, NoReply, history
    <2>2. ScanComplete' /\ ScanSound'
      BY <1>4 DEF IInv, Progress, Collect, ScanComplete, ScanSound, history
    <2> QED BY <1>2, <2>1, <2>2 DEF IInv
  <1> QED BY <1>3, <1>4

LEMMA StepIInv == IInv /\ [Next]_vars => IInv'
  <1> SUFFICES ASSUME IInv, [Next]_vars PROVE IInv'
    OBVIOUS
  <1>1. CASE Scan
    BY <1>1 DEF Scan, history, IInv, TypeOK, Progress, Done, ScanComplete, ScanSound
  <1>2. CASE Collect
    BY <1>2, CollectIInv
  <1>3. CASE Fail
    BY <1>3 DEF Fail, Return, history, NoReply, IInv, TypeOK, Progress, Done,
                ScanComplete, ScanSound
  <1>4. CASE \E last \in 0..(Buckets - 1) : Answer(last)
    BY <1>4, AnswerIInv
  <1>5. CASE \E k \in Keys : SetKey(k) \/ DelKey(k)
    <2>1. PICK k \in Keys : SetKey(k) \/ DelKey(k)
      BY <1>5
    <2>2. present \cup {k} \in SUBSET Keys /\ present \ {k} \in SUBSET Keys
      BY DEF IInv, TypeOK
    <2> QED BY <2>1, <2>2, ChangeIInv DEF SetKey, DelKey
  <1>6. CASE UNCHANGED vars
    BY <1>6 DEF vars, call, history, IInv, TypeOK, Progress, Done, ScanComplete, ScanSound
  <1> QED BY <1>1, <1>2, <1>3, <1>4, <1>5, <1>6 DEF Next

LEMMA Invariant == Spec => []IInv
  <1> QED BY InitIInv, StepIInv, PTL DEF Spec

-----------------------------------------------------------------------------

\* The state is well formed.
THEOREM TypeCorrect == Spec => []TypeOK
  <1>1. IInv => TypeOK
    BY DEF IInv
  <1> QED BY Invariant, <1>1, PTL

\* execScan misses no key that matches and was there all the time.
THEOREM ScansAreComplete == Spec => []ScanComplete
  <1>1. IInv => ScanComplete
    BY DEF IInv
  <1> QED BY Invariant, <1>1, PTL

\* execScan returns only keys that match and were there at some time.
THEOREM ScansAreSound == Spec => []ScanSound
  <1>1. IInv => ScanSound
    BY DEF IInv
  <1> QED BY Invariant, <1>1, PTL

\* A reply that is not the last names a bucket behind those it is about.
Ahead == reply # NoReply => reply.cursor = 0 \/ cursor < reply.cursor

LEMMA StepAhead == IInv /\ Ahead /\ [Next]_vars => Ahead'
  <1> SUFFICES ASSUME IInv, Ahead, [Next]_vars PROVE Ahead'
    OBVIOUS
  <1>1. ASSUME NEW last \in 0..(Buckets - 1), Answer(last) PROVE Ahead'
    <2>1. /\ reply'.cursor = IF last = Buckets - 1 THEN 0 ELSE last + 1
          /\ cursor' = cursor /\ cursor <= last
      BY <1>1 DEF Answer, call
    <2> QED BY <2>1 DEF Ahead, IInv, TypeOK
  <1>2. CASE Scan \/ Collect \/ Fail
    BY <1>2 DEF Scan, Collect, Fail, Ahead
  <1>3. ASSUME NEW k \in Keys, SetKey(k) \/ DelKey(k) PROVE Ahead'
    BY <1>3 DEF SetKey, DelKey, Change, call, Ahead
  <1>4. CASE UNCHANGED vars
    BY <1>4 DEF vars, call, Ahead
  <1> QED BY <1>1, <1>2, <1>3, <1>4 DEF Next

\* A round of the loop that is not the last moves the cursor on, keeps what the
\* rounds before it collected, and what the call returned is final.
ScanAdvances ==
    /\ pc = "waiting" /\ pc' = "scan" => cursor < cursor'
    /\ cursor' # cursor => pc' = "scan" \/ cursor' = 0
    /\ allKeys \subseteq allKeys'
    /\ pc = "done" => UNCHANGED call

\* However other clients change the keys, execScan comes round: it sends no more
\* SCANs than the table has buckets.  (That every one of them is answered or given
\* up is ScanReturns, which is model-checked.)
THEOREM ScansAdvance == Spec => [][ScanAdvances]_vars
  <1>1. Init => Ahead
    BY DEF Init, Ahead
  <1>2. IInv /\ Ahead /\ [Next]_vars => [ScanAdvances]_vars
    <2> SUFFICES ASSUME IInv, Ahead, Next PROVE ScanAdvances
      OBVIOUS
    <2>1. CASE Scan
      BY <2>1 DEF Scan, ScanAdvances
    <2>2. CASE Collect
      BY <2>2 DEF Collect, Return, Finished, NextCursor, Ahead, ScanAdvances
    <2>3. CASE Fail
      BY <2>3 DEF Fail, Return, ScanAdvances
    <2>4. ASSUME NEW last \in 0..(Buckets - 1), Answer(last) PROVE ScanAdvances
      BY <2>4 DEF Answer, call, ScanAdvances
    <2>5. ASSUME NEW k \in Keys, SetKey(k) \/ DelKey(k) PROVE ScanAdvances
      BY <2>5 DEF SetKey, DelKey, Change, call, ScanAdvances
    <2> QED BY <2>1, <2>2, <2>3, <2>4, <2>5 DEF Next
  <1> QED BY Invariant, <1>1, <1>2, StepAhead, PTL DEF Spec

=============================================================================
