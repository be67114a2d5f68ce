-------------------------- MODULE DeviceFlowProofs --------------------------
(***************************************************************************)
(* The safety of the device code flow, for any intervals, lifetimes and    *)
(* delays, and any step of the clock.                                      *)
(***************************************************************************)
EXTENDS DeviceFlow, TLAPS

USE DeviceAssumption DEF Never, MinInterval

\* What the times have to do with one another.
Times ==
    /\ sent <= now /\ approvedAt <= now /\ lostAt <= now
    /\ pc \in {"request", "polling"} => now <= sent + MaxDelay
    /\ pc = "sleeping" => /\ sent + interval <= wake /\ wake <= now + interval
                          /\ now <= wake /\ wake < deadline + interval
    /\ pc = "request" => slowdowns = 0 /\ sent = 0
    /\ pc = "request" => expiry <= now + device.expires_in
    /\ pc \notin {"request", "done"} =>
           /\ expiry <= deadline
           /\ interval >= MinInterval + MinInterval * slowdowns
           /\ interval >= device.interval + MinInterval * slowdowns

\* What the provider's state says of its answers.
Grants ==
    /\ approvedAt # Never <=> grant \in {"approved", "used"}
    /\ pc \in {"loop", "sleeping", "polling"} => grant # "none"
    /\ pc = "request" => grant \in {"none", "pending"}
    /\ pc # "polling" => reply = "none"
    /\ pc # "done" <=> result = "none"
    /\ reply = "token" \/ result = "token" => grant = "used"
    /\ grant = "used" => \/ reply = "token" \/ result = "token"
                         \/ lostAt >= approvedAt
    /\ reply = "error" \/ result = "refused" =>
           \/ grant = "denied" \/ now >= expiry
           \/ grant = "used" /\ lostAt >= approvedAt

\* How long after the approval the client may still be without the token.
Overdue ==
    approvedAt # Never /\ lostAt < approvedAt =>
        /\ pc = "loop" => now <= approvedAt + MaxDelay
        /\ pc = "sleeping" => wake <= approvedAt + MaxDelay + interval
        /\ pc = "polling" => sent <= approvedAt + MaxDelay + interval
        /\ reply \in {"authorization_pending", "slow_down"} => sent <= approvedAt

IInv == TypeOK /\ Times /\ Grants /\ Overdue /\ LastPollBounded /\ ApprovalNotMissed

-----------------------------------------------------------------------------

LEMMA InitIInv == Init => IInv
  BY DEF Init, IInv, TypeOK, Times, Grants, Overdue, LastPollBounded, ApprovalNotMissed

LEMMA TickIInv == ASSUME IInv, Tick PROVE IInv'
  <1> USE DEF IInv, Tick, Latest, client, provider, history
  <1>1. now' \in Nat /\ now < now' /\ now' <= Latest
    BY DEF TypeOK
  <1>2. TypeOK'
    BY <1>1 DEF TypeOK
  <1>3. Times'
    <2>1. sent' <= now' /\ approvedAt' <= now' /\ lostAt' <= now'
      BY <1>1 DEF Times, TypeOK
    <2>2. /\ pc \in {"request", "polling"} => now' <= sent + MaxDelay
          /\ pc = "sleeping" => now' <= wake /\ wake <= now' + interval
          /\ pc = "request" => expiry <= now' + device.expires_in
      BY <1>1 DEF Times, TypeOK
    <2> QED BY <2>1, <2>2 DEF Times
  <1>4. Grants'
    BY <1>1 DEF Grants, TypeOK
  <1>5. Overdue' /\ LastPollBounded' /\ ApprovalNotMissed'
    BY DEF Overdue, LastPollBounded, ApprovalNotMissed
  <1> QED BY <1>2, <1>3, <1>4, <1>5

LEMMA IssueIInv == ASSUME IInv, IssueCode PROVE IInv'
  <1> USE DEF IInv, IssueCode, client, history
  <1>1. device' \in [expires_in : Nat, interval : Int]
    OBVIOUS
  <1>2. TypeOK'
    BY <1>1 DEF TypeOK
  <1>3. Times' /\ Grants'
    BY <1>1 DEF Times, Grants, TypeOK
  <1>4. Overdue' /\ LastPollBounded' /\ ApprovalNotMissed'
    BY DEF Overdue, LastPollBounded, ApprovalNotMissed
  <1> QED BY <1>2, <1>3, <1>4

LEMMA UserIInv ==
    ASSUME IInv, NEW d \in {"approved", "denied"}, UserDecides(d) PROVE IInv'
  <1> USE DEF IInv, UserDecides, client
  <1>1. TypeOK' /\ Times'
    BY DEF TypeOK, Times
  <1>2. Grants'
    BY DEF TypeOK, Times, Grants
  <1>3. Overdue'
    BY DEF TypeOK, Times, Grants, Overdue
  <1>4. LastPollBounded' /\ ApprovalNotMissed'
    BY DEF LastPollBounded, ApprovalNotMissed
  <1> QED BY <1>1, <1>2, <1>3, <1>4

\* An answer of the provider: the token only for an approval, pending only before.
LEMMA AnswerIInv ==
    ASSUME IInv, AnswerToken \/ AnswerPending \/ AnswerError \/ AnswerEmpty PROVE IInv'
  <1> USE DEF IInv, AnswerToken, AnswerPending, AnswerError, AnswerEmpty, Answers, client,
              history
  <1>1. TypeOK' /\ Times'
    BY DEF TypeOK, Times
  <1>2. Grants'
    <2>1. CASE AnswerToken
      BY <2>1 DEF TypeOK, Grants
    <2>2. CASE AnswerPending
      BY <2>2 DEF TypeOK, Grants
    <2>3. CASE AnswerError
      BY <2>3 DEF TypeOK, Grants
    <2>4. CASE AnswerEmpty
      BY <2>4 DEF TypeOK, Grants
    <2> QED BY <2>1, <2>2, <2>3, <2>4
  <1>3. Overdue'
    BY DEF TypeOK, Times, Grants, Overdue
  <1>4. LastPollBounded' /\ ApprovalNotMissed'
    BY DEF LastPollBounded, ApprovalNotMissed
  <1> QED BY <1>1, <1>2, <1>3, <1>4

\* The steps of the client before it has an answer.
LEMMA PollIInv ==
    ASSUME IInv, RequestFails \/ ReceiveCode \/ KeepPolling \/ Expire \/ Poll \/ AnswerLost
    PROVE  IInv'
  <1> USE DEF IInv, RequestFails, ReceiveCode, KeepPolling, Expire, Poll, AnswerLost, Return,
              CodeAlive, AtLeast, provider, history
  <1>1. TypeOK'
    BY DEF TypeOK
  <1>2. Times'
    <2>1. CASE RequestFails
      BY <2>1 DEF TypeOK, Times
    <2>2. CASE ReceiveCode
      BY <2>2 DEF TypeOK, Times
    <2>3. CASE KeepPolling
      BY <2>3 DEF TypeOK, Times
    <2>4. CASE Expire
      BY <2>4 DEF TypeOK, Times
    <2>5. CASE Poll
      BY <2>5 DEF TypeOK, Times
    <2>6. CASE AnswerLost
      BY <2>6 DEF TypeOK, Times
    <2> QED BY <2>1, <2>2, <2>3, <2>4, <2>5, <2>6
  <1>3. Grants'
    <2>1. CASE RequestFails
      BY <2>1 DEF TypeOK, Times, Grants
    <2>2. CASE ReceiveCode
      BY <2>2 DEF TypeOK, Times, Grants
    <2>3. CASE KeepPolling
      BY <2>3 DEF TypeOK, Times, Grants
    <2>4. CASE Expire
      BY <2>4 DEF TypeOK, Times, Grants
    <2>5. CASE Poll
      BY <2>5 DEF TypeOK, Times, Grants
    <2>6. CASE AnswerLost
      BY <2>6 DEF TypeOK, Times, Grants
    <2> QED BY <2>1, <2>2, <2>3, <2>4, <2>5, <2>6
  <1>4. Overdue'
    <2>1. CASE RequestFails
      BY <2>1 DEF TypeOK, Times, Grants, Overdue
    <2>2. CASE ReceiveCode
      BY <2>2 DEF TypeOK, Times, Grants, Overdue
    <2>3. CASE KeepPolling
      BY <2>3 DEF TypeOK, Times, Grants, Overdue
    <2>4. CASE Expire
      BY <2>4 DEF TypeOK, Times, Grants, Overdue
    <2>5. CASE Poll
      BY <2>5 DEF TypeOK, Times, Grants, Overdue
    <2>6. CASE AnswerLost
      BY <2>6 DEF TypeOK, Times, Grants, Overdue
    <2> QED BY <2>1, <2>2, <2>3, <2>4, <2>5, <2>6
  <1>5. LastPollBounded'
    BY DEF TypeOK, Times, LastPollBounded
  <1>6. ApprovalNotMissed'
    BY DEF TypeOK, Times, Grants, Overdue, ApprovalNotMissed
  <1> QED BY <1>1, <1>2, <1>3, <1>4, <1>5, <1>6

\* And those when it has one.
LEMMA ReceiveIInv ==
    ASSUME IInv, \/ ReceivePending \/ ReceiveSlowDown \/ ReceiveEmpty
                 \/ ReceiveToken \/ ReceiveError
    PROVE  IInv'
  <1> USE DEF IInv, ReceivePending, ReceiveSlowDown, ReceiveEmpty, ReceiveToken, ReceiveError,
              Receive, Return
  <1>1. TypeOK'
    BY DEF TypeOK
  <1>2. Times'
    BY DEF TypeOK, Times
  <1>3. Grants'
    BY DEF TypeOK, Times, Grants
  <1>4. Overdue'
    BY DEF TypeOK, Times, Grants, Overdue
  <1>5. LastPollBounded'
    BY DEF LastPollBounded
  <1>6. ApprovalNotMissed'
    BY DEF TypeOK, Times, Grants, Overdue, ApprovalNotMissed
  <1> QED BY <1>1, <1>2, <1>3, <1>4, <1>5, <1>6

LEMMA StepIInv == IInv /\ [Next]_vars => IInv'
  <1> SUFFICES ASSUME IInv, [Next]_vars PROVE IInv'
    OBVIOUS
  <1>1. CASE Tick
    BY <1>1, TickIInv
  <1>2. CASE Client \/ RequestFails \/ AnswerLost
    BY <1>2, PollIInv, ReceiveIInv DEF Client
  <1>3. CASE Provider
    BY <1>3, IssueIInv, AnswerIInv DEF Provider
  <1>4. CASE UserDecides("approved") \/ UserDecides("denied")
    BY <1>4, UserIInv
  <1>5. CASE UNCHANGED vars
    BY <1>5 DEF vars, client, provider, history, IInv, TypeOK, Times, Grants, Overdue,
           LastPollBounded, ApprovalNotMissed
  <1> QED BY <1>1, <1>2, <1>3, <1>4, <1>5 DEF Next, Returned

LEMMA Invariant == Spec => []IInv
  <1> QED BY InitIInv, StepIInv, PTL DEF Spec

-----------------------------------------------------------------------------

\* The state is well formed.
THEOREM TypeCorrect == Spec => []TypeOK
  <1>1. IInv => TypeOK
    BY DEF IInv
  <1> QED BY Invariant, <1>1, PTL

\* No poll is sent a pause after the deadline.
THEOREM LastPollIsBounded == Spec => []LastPollBounded
  <1>1. IInv => LastPollBounded
    BY DEF IInv
  <1> QED BY Invariant, <1>1, PTL

\* StartDeviceCodeFlow returns a token, or is refused, for a reason.
THEOREM ResultsAreDeserved == Spec => []ResultDeserved
  <1>1. IInv => ResultDeserved
    BY DEF IInv, Grants, ResultDeserved
  <1> QED BY Invariant, <1>1, PTL

\* An approval that is given in time is missed only for a lost answer.
THEOREM ApprovalsAreNotMissed == Spec => []ApprovalNotMissed
  <1>1. IInv => ApprovalNotMissed
    BY DEF IInv
  <1> QED BY Invariant, <1>1, PTL

\* Polls keep the distance RFC 8628 asks for.
THEOREM PollsAreSpaced == Spec => PollsSpaced
  <1> DEFINE Spaced == sent' # sent /\ pc = "sleeping" =>
                /\ sent' - sent >= MinInterval + MinInterval * slowdowns
                /\ sent' - sent >= device.interval + MinInterval * slowdowns
  <1>1. IInv /\ [Next]_vars => [Spaced]_vars
    <2> SUFFICES ASSUME IInv, Next, sent' # sent, pc = "sleeping" PROVE Spaced
      OBVIOUS
    <2>1. sent' = now /\ now >= wake
      BY DEF Next, Tick, Client, Provider, RequestFails, AnswerLost, Returned, UserDecides,
             ReceiveCode, KeepPolling, Expire, Poll, ReceivePending, ReceiveSlowDown,
             ReceiveEmpty, ReceiveToken, ReceiveError, Receive, IssueCode, AnswerToken,
             AnswerPending, AnswerError, AnswerEmpty, Answers, vars, client
    <2>2. wake - sent >= interval
      BY DEF IInv, Times, TypeOK
    <2>3. /\ interval >= MinInterval + MinInterval * slowdowns
          /\ interval >= device.interval + MinInterval * slowdowns
      BY DEF IInv, Times
    <2> QED BY <2>1, <2>2, <2>3 DEF IInv, TypeOK
  <1> QED BY Invariant, <1>1, PTL DEF Spec, PollsSpaced

\* However often the flow is told to slow down, and whatever gets lost: when its last
\* pause and one request after the deadline are over, so is the flow, as long as a
\* request takes no more than MaxDelay.
FlowTimely == now <= deadline + interval + MaxDelay

\* StartDeviceCodeFlow keeps polling no longer than the code lives, by a pause and
\* one request.  (That it does return is FlowReturns, which is model-checked.)
THEOREM FlowsAreTimely == Spec => []FlowTimely
  <1>1. Init => FlowTimely
    BY DEF Init, FlowTimely
  <1>2. IInv /\ FlowTimely /\ [Next]_vars => FlowTimely'
    <2> SUFFICES ASSUME IInv, FlowTimely, [Next]_vars PROVE FlowTimely'
      OBVIOUS
    <2>1. CASE Tick
      <3>1. UNCHANGED <<deadline, interval>>
        BY <2>1 DEF Tick, client
      <3>2. now' <= IF pc = "sleeping" THEN wake ELSE sent + MaxDelay
        BY <2>1 DEF Tick, Latest, IInv, TypeOK
      <3>3. pc \in {"request", "sleeping", "polling"} /\ now' \in Nat
        BY <2>1 DEF Tick, Latest, IInv, TypeOK
      <3> QED BY <3>1, <3>2, <3>3 DEF FlowTimely, IInv, TypeOK, Times, LastPollBounded
    <2>2. CASE ReceiveCode
      BY <2>2 DEF ReceiveCode, AtLeast, IInv, TypeOK, FlowTimely
    <2>3. CASE ReceiveSlowDown
      BY <2>3 DEF ReceiveSlowDown, Receive, IInv, TypeOK, FlowTimely
    <2>4. CASE ~(Tick \/ ReceiveCode \/ ReceiveSlowDown)
      <3>1. UNCHANGED <<now, deadline, interval>>
        BY <2>4 DEF Next, Client, Provider, RequestFails, AnswerLost, Returned, UserDecides,
           KeepPolling, Expire, Poll, ReceivePending, ReceiveEmpty, ReceiveToken,
           ReceiveError, Receive, Return, IssueCode, AnswerToken, AnswerPending,
           AnswerError, AnswerEmpty, Answers, vars, client
      <3> QED BY <3>1 DEF FlowTimely
    <2> QED BY <2>1, <2>2, <2>3, <2>4
  <1> QED BY Invariant, <1>1, <1>2, PTL DEF Spec

=============================================================================
