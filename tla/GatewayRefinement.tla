-------------------------- MODULE GatewayRefinement --------------------------
(***************************************************************************)
(* The gateway implements QueryContract: every step of a request is a step *)
(* of the contract or leaves its variables alone, and so does every step   *)
(* of the process.  It implements Lifecycle, from where Startup leaves     *)
(* off.  What the two promise is carried over to it.                       *)
(***************************************************************************)
EXTENDS GatewayProofs

-----------------------------------------------------------------------------
(* There is no response before the handler has one                         *)

Unanswered == \A r \in Requests : ~Answered(r) => answer[r].status = "none"

LEMMA InitUnanswered == Init => Unanswered
<1> SUFFICES ASSUME Init, NEW r \in Requests PROVE answer[r].status = "none"
  BY DEF Unanswered
<1>1. answer[r] = NoAnswer
  BY DEF Init
<1>2. NoAnswer.status = "none"
  BY DEF NoAnswer
<1> QED
  BY <1>1, <1>2

LEMMA StepUnanswered == IInv /\ Unanswered /\ [Next]_vars => Unanswered'
<1> SUFFICES ASSUME IInv, Unanswered, [Next]_vars, NEW q \in Requests
             PROVE  (~Answered(q) => answer[q].status = "none")'
  BY DEF Unanswered
<1>1. CASE ProcessStep \/ UNCHANGED vars
  <2>1. UNCHANGED handlers
    BY <1>1, ProcessStepFrame DEF vars
  <2> QED
    BY <2>1 DEF handlers, Unanswered, Answered
<1>2. ASSUME NEW r \in Requests, q # r,
             pc'[q] = pc[q], answer'[q] = answer[q]
      PROVE  (~Answered(q) => answer[q].status = "none")'
  BY <1>2 DEF Unanswered, Answered
<1>3. ASSUME \/ Arrive(q) \/ ServePage(q) \/ RejectHeader(q) \/ VerifyOK(q)
             \/ VerifyFails(q) \/ VerifyPanics(q) \/ Recover(q) \/ Bootstrap(q)
             \/ Reply(q) \/ ClientGone(q) \/ ListResources(q) \/ RefuseQuery(q)
             \/ RejectOperation(q) \/ SendQuery(q) \/ BackendRuns(q) \/ BackendReply(q)
             \/ RecordOK(q) \/ RecordFails(q) \/ RecordSkipped(q)
      PROVE  (~Answered(q) => answer[q].status = "none")'
  <2>1. pc \in [Requests -> Points] /\ (Answered(q) \/ answer[q].status = "none")
    BY DEF IInv, TypeOK, Unanswered
  <2>2. UNCHANGED answer \/ pc'[q] = "reply"
    BY <1>3, <2>1 DEF Arrive, ServePage, RejectHeader, VerifyOK, VerifyFails, VerifyPanics,
       Recover, Bootstrap, Reply, ClientGone, ListResources, RefuseQuery,
       RejectOperation, SendQuery, BackendRuns, BackendReply, BackendAnswers,
       BackendFails, RecordOK, RecordFails, RecordSkipped, RespondToQuery, Respond,
       Executed
  <2>3. Answered(q) => Answered(q)'
    BY <1>3, <2>1 DEF Answered, Arrive, ServePage, RejectHeader, VerifyOK, VerifyFails,
       VerifyPanics, Recover, Bootstrap, Reply, ClientGone, ListResources, RefuseQuery,
       RejectOperation, SendQuery, BackendRuns, BackendReply, BackendAnswers,
       BackendFails, RecordOK, RecordFails, RecordSkipped, At, Calls
  <2> QED
    BY <2>1, <2>2, <2>3 DEF Answered
<1> QED
  BY <1>1, <1>2, <1>3, Steps, OthersUntouched

\* A request that is not answered has no response yet.
THEOREM UnansweredInvariant == Spec => []Unanswered
BY PipelineInvariant, InitUnanswered, StepUnanswered, PTL DEF Spec

-----------------------------------------------------------------------------
(* The mapping                                                             *)

\* A query past the checks of its handler has the clearance of its token.
LEMMA ClearedToRead ==
    ASSUME IInv, NEW r \in Requests, Identified(r), Granted(r)
    PROVE  /\ Clearance(r) # "none"
           /\ Admits(r) => Clearance(r) = "operation"
<1>1. req[r].subject # NoClaims
  <2>1. req[r] \in HttpRequest
    BY RequestAssumption DEF IInv, TypeOK
  <2> QED
    BY <2>1, ConfigAssumption DEF HttpRequest
<1>2. MayRead(req[r])
  BY <1>1 DEF Identified, Granted, Groups, Check, RulesFor, ResourceMatches, Wildcard,
     MayRead
<1>3. Admits(r) => MayPerform(req[r])
  BY DEF Admits, Admitted, IsOpAllowed, MayPerform
<1> QED
  BY <1>2, <1>3 DEF Identified, Granted, Clearance

\* What one request does changes the image of that request only.
LEMMA Image ==
    ASSUME NEW r \in Requests,
           \A q \in Requests \ {r} :
               /\ Stage(q)' = Stage(q) /\ Clearance(q)' = Clearance(q)
               /\ ReplyTo(q)' = ReplyTo(q) /\ RowsOf(q)' = RowsOf(q)
    PROVE  /\ stages' = [stages EXCEPT ![r] = Stage(r)']
           /\ clearances' = [clearances EXCEPT ![r] = Clearance(r)']
           /\ replies' = [replies EXCEPT ![r] = ReplyTo(r)']
           /\ rows' = [rows EXCEPT ![r] = RowsOf(r)']
BY DEF stages, clearances, replies, rows

\* A request without a step of its own, and without a row of its own, keeps its
\* image.
LEMMA ImageFrame ==
    ASSUME NEW q, pc'[q] = pc[q], req'[q] = req[q], outcome'[q] = outcome[q],
           answer'[q] = answer[q], authn' = authn, RowsOf(q)' = RowsOf(q)
    PROVE  /\ Stage(q)' = Stage(q) /\ Clearance(q)' = Clearance(q)
           /\ ReplyTo(q)' = ReplyTo(q)
BY DEF Stage, Answered, Clearance, Verified, MayRead, MayPerform, ReplyTo

\* Rows are added for the request at its metering step only.
LEMMA RowsAdded ==
    ASSUME IInv, NEW r \in Requests, UNCHANGED usage_log \/ (pc[r] = "record" /\ Insert(r))
    PROVE  /\ \A q \in Requests \ {r} : RowsOf(q)' = RowsOf(q)
           /\ UNCHANGED usage_log => RowsOf(r)' = RowsOf(r)
           /\ Insert(r) /\ pc[r] = "record" =>
                  RowsOf(r)' = RowsOf(r) \cup {outcome[r] = "ok"}
<1>1. CASE UNCHANGED usage_log /\ ~Insert(r)
  BY <1>1 DEF RowsOf
<1>2. CASE pc[r] = "record" /\ Insert(r)
  <2>1. UsageRow(r) \in Rows /\ usage_log \in Seq(Rows)
    BY <1>2, UsageRowType DEF IInv, TypeOK
  <2>2. /\ DOMAIN usage_log' = DOMAIN usage_log \cup {Len(usage_log) + 1}
        /\ Len(usage_log) + 1 \notin DOMAIN usage_log
        /\ \A i \in DOMAIN usage_log : usage_log'[i] = usage_log[i]
        /\ usage_log'[Len(usage_log) + 1] = UsageRow(r)
    BY <1>2, <2>1, InsertedRow
  <2>3. UsageRow(r).call = r /\ UsageRow(r).success = (outcome[r] = "ok")
    BY DEF UsageRow
  <2>4. ~UNCHANGED usage_log
    BY <2>2
  <2>5. RowsOf(r)' = RowsOf(r) \cup {outcome[r] = "ok"}
    BY <2>2, <2>3 DEF RowsOf
  <2>6. ASSUME NEW q \in Requests \ {r} PROVE RowsOf(q)' = RowsOf(q)
    BY <2>2, <2>3 DEF RowsOf
  <2> QED
    BY <2>4, <2>5, <2>6
<1>3. CASE UNCHANGED usage_log /\ Insert(r) /\ pc[r] # "record"
  BY <1>3 DEF RowsOf
<1> QED
  BY <1>1, <1>2, <1>3

-----------------------------------------------------------------------------
(* The steps                                                               *)

\* The steps of one request: what the contract calls them.
Declines(r) ==
    ServePage(r) \/ RejectHeader(r) \/ VerifyFails(r) \/ Recover(r) \/ Bootstrap(r)
    \/ ListResources(r) \/ RefuseQuery(r)
Unnoticed(r) ==
    VerifyOK(r) \/ VerifyPanics(r) \/ Reply(r) \/ ClientGone(r) \/ RejectOperation(r)
    \/ BackendReply(r)
Settles(r) == RecordOK(r) \/ RecordFails(r) \/ RecordSkipped(r)
OwnStep(r) ==
    Arrive(r) \/ Declines(r) \/ Unnoticed(r) \/ SendQuery(r) \/ BackendRuns(r) \/ Settles(r)

LEMMA OwnStepImage ==
    ASSUME IInv, NEW r \in Requests, OwnStep(r)
    PROVE  /\ stages' = [stages EXCEPT ![r] = Stage(r)']
           /\ clearances' = [clearances EXCEPT ![r] = Clearance(r)']
           /\ replies' = [replies EXCEPT ![r] = ReplyTo(r)']
           /\ rows' = [rows EXCEPT ![r] = RowsOf(r)']
<1>1. UNCHANGED usage_log \/ (pc[r] = "record" /\ Insert(r))
  BY DEF OwnStep, Declines, Unnoticed, Settles, Arrive, ServePage, RejectHeader, VerifyOK,
     VerifyFails, VerifyPanics, Recover, Bootstrap, Reply, ClientGone, ListResources,
     RefuseQuery, RejectOperation, SendQuery, BackendRuns, BackendReply, BackendAnswers,
     BackendFails, RecordOK, RecordFails, RecordSkipped, At, records
<1>2. ASSUME NEW q \in Requests \ {r}
      PROVE  /\ Stage(q)' = Stage(q) /\ Clearance(q)' = Clearance(q)
             /\ ReplyTo(q)' = ReplyTo(q) /\ RowsOf(q)' = RowsOf(q)
  <2>1. RowsOf(q)' = RowsOf(q)
    BY <1>1, RowsAdded
  <2>2. /\ pc'[q] = pc[q] /\ req'[q] = req[q] /\ outcome'[q] = outcome[q]
        /\ answer'[q] = answer[q] /\ authn' = authn
    BY OthersUntouched DEF OwnStep, Declines, Unnoticed, Settles
  <2> QED
    BY <2>1, <2>2, ImageFrame
<1> QED
  BY <1>2, Image

LEMMA ArriveSubmits ==
    ASSUME IInv, NEW r \in Requests, Arrive(r)
    PROVE  Contract!Submit(r)
<1>1. /\ pc \in [Requests -> Points] /\ pc[r] = "idle" /\ pc'[r] = "routed"
      /\ UNCHANGED <<outcome, answer, backend, usage_log>>
  BY DEF IInv, TypeOK, Arrive, At, records
<1>2. stages[r] = "new" /\ Stage(r)' = "submitted"
  BY <1>1 DEF stages, Stage, Answered
<1>3. ReplyTo(r)' = ReplyTo(r) /\ RowsOf(r)' = RowsOf(r) /\ Clearance(r)' \in Contract!Clearances
  BY <1>1 DEF ReplyTo, RowsOf, Clearance, Contract!Clearances
<1>4. UNCHANGED <<backend, replies, rows>>
  BY <1>1, <1>3, OwnStepImage DEF OwnStep, replies, rows
<1> QED
  BY <1>2, <1>3, <1>4, OwnStepImage DEF OwnStep, Contract!Submit

\* A response without an operation.
LEMMA DeclinesDecline ==
    ASSUME IInv, NEW r \in Requests, Declines(r)
    PROVE  Contract!Decline(r)
<1>1. /\ pc \in [Requests -> Points] /\ answer \in [Requests -> Answers]
      /\ PipelineOf(r)
  BY DEF IInv, TypeOK, Pipeline
<1>2. /\ pc[r] \in {"routed", "panic", "handler"} /\ pc'[r] = "reply"
      /\ UNCHANGED <<req, outcome, backend, authn, usage_log>>
  BY <1>1 DEF Declines, ServePage, RejectHeader, VerifyFails, Recover, Bootstrap,
     ListResources, RefuseQuery, At, Calls, Respond, server, records
<1>3. answer'[r].status # "none"
  <2>1. \/ answer'[r] = [status |-> "ok", names |-> ListingOf(Groups(r))]
        \/ answer'[r] \in {Status("ok"), Status("401"), Status("500"), Status("tool error")}
    BY <1>1 DEF Declines, ServePage, RejectHeader, VerifyFails, Recover, Bootstrap,
       ListResources, RefuseQuery, Respond, ListingOf
  <2>2. /\ Status("ok").status = "ok" /\ Status("401").status = "401"
        /\ Status("500").status = "500" /\ Status("tool error").status = "tool error"
    BY DEF Status
  <2>3. CASE answer'[r] = [status |-> "ok", names |-> ListingOf(Groups(r))]
    BY <2>3
  <2>4. CASE answer'[r] = Status("ok") \/ answer'[r] = Status("401")
    BY <2>2, <2>4
  <2>5. CASE answer'[r] = Status("500") \/ answer'[r] = Status("tool error")
    BY <2>2, <2>5
  <2> QED
    BY <2>1, <2>3, <2>4, <2>5
<1>4. backend[r] = "not sent" /\ outcome[r] = "none"
  BY <1>1, <1>2 DEF PipelineOf, Begun
<1>5. stages[r] = "submitted" /\ Stage(r)' = "settled"
  BY <1>2 DEF stages, Stage, Answered
<1>6. /\ Clearance(r)' = Clearance(r) /\ RowsOf(r)' = RowsOf(r)
      /\ ReplyTo(r)' = "declined"
  <2>1. Clearance(r)' = Clearance(r)
    BY <1>2 DEF Clearance, Verified, MayRead, MayPerform
  <2>2. RowsOf(r)' = RowsOf(r)
    BY <1>2 DEF RowsOf
  <2>3. ReplyTo(r)' = "declined"
    BY <1>2, <1>3, <1>4 DEF ReplyTo
  <2> QED
    BY <2>1, <2>2, <2>3
<1>7. UNCHANGED <<clearances, backend, rows>>
  BY <1>2, <1>6, OwnStepImage DEF OwnStep, clearances, rows
<1> QED
  BY <1>4, <1>5, <1>6, <1>7, OwnStepImage DEF OwnStep, Contract!Decline

LEMMA UnnoticedStutters ==
    ASSUME IInv, Unanswered, NEW r \in Requests, Unnoticed(r)
    PROVE  UNCHANGED Contract!vars
<1>1. /\ pc \in [Requests -> Points] /\ PipelineOf(r)
      /\ Answered(r) \/ answer[r].status = "none"
  BY DEF IInv, TypeOK, Pipeline, Unanswered
<1>2. UNCHANGED <<req, answer, backend, authn, usage_log>>
  BY DEF Unnoticed, VerifyOK, VerifyPanics, Reply, ClientGone, RejectOperation, BackendReply,
     BackendAnswers, BackendFails, Executed, server, records
<1>3. Stage(r)' = Stage(r)
  BY <1>1 DEF Unnoticed, VerifyOK, VerifyPanics, Reply, ClientGone, RejectOperation,
     BackendReply, BackendAnswers, BackendFails, Executed, At, Calls, Stage, Answered
<1>4. outcome'[r] = outcome[r] \/ answer[r].status = "none"
  BY <1>1 DEF Unnoticed, VerifyOK, VerifyPanics, Reply, ClientGone, RejectOperation,
     BackendReply, BackendAnswers, BackendFails, Executed, At, Calls, Answered
<1>5. /\ Clearance(r)' = Clearance(r) /\ RowsOf(r)' = RowsOf(r)
      /\ ReplyTo(r)' = ReplyTo(r)
  BY <1>2, <1>4 DEF Clearance, Verified, MayRead, MayPerform, RowsOf, ReplyTo
<1> QED
  BY <1>2, <1>3, <1>5, OwnStepImage
     DEF OwnStep, Contract!vars, stages, clearances, replies, rows

\* An operation that leaves is one the contract lets leave.
LEMMA SendQuerySends ==
    ASSUME IInv, NEW r \in Requests, SendQuery(r)
    PROVE  Contract!Send(r)
<1>1. /\ pc \in [Requests -> Points] /\ PipelineOf(r)
      /\ pc[r] = "handler" /\ pc'[r] = "execute" /\ Granted(r) /\ Admits(r)
      /\ UNCHANGED <<req, outcome, answer, authn, usage_log>>
  BY DEF IInv, TypeOK, Pipeline, SendQuery, Calls, At, server, records
<1>2. Identified(r) /\ backend[r] = "not sent"
  BY <1>1 DEF PipelineOf, Begun
<1>3. clearances[r] = "operation"
  BY <1>1, <1>2, ClearedToRead DEF clearances
<1>4. stages[r] = "submitted" /\ Stage(r)' = Stage(r)
  BY <1>1 DEF stages, Stage, Answered
<1>5. Clearance(r)' = Clearance(r)
  BY <1>1 DEF Clearance, Verified, MayRead, MayPerform
<1>6. RowsOf(r)' = RowsOf(r) /\ ReplyTo(r)' = ReplyTo(r)
  BY <1>1 DEF RowsOf, ReplyTo
<1>7. UNCHANGED <<stages, clearances, replies, rows>>
  BY <1>4, <1>5, <1>6, OwnStepImage DEF OwnStep, stages, clearances, replies, rows
<1>8. backend' = [backend EXCEPT ![r] = "sent"]
  BY DEF SendQuery
<1> QED
  BY <1>2, <1>3, <1>4, <1>7, <1>8 DEF Contract!Send

LEMMA BackendRunsTakesEffect ==
    ASSUME IInv, NEW r \in Requests, BackendRuns(r)
    PROVE  Contract!TakeEffect(r)
<1>1. /\ UNCHANGED <<pc, req, outcome, answer, authn, usage_log>>
      /\ backend[r] = "sent" /\ backend' = [backend EXCEPT ![r] = "ran"]
  BY DEF BackendRuns, server, records
<1>2. Stage(r)' = Stage(r) /\ Clearance(r)' = Clearance(r)
  BY <1>1 DEF Stage, Answered, Clearance, Verified, MayRead, MayPerform
<1>3. RowsOf(r)' = RowsOf(r) /\ ReplyTo(r)' = ReplyTo(r)
  BY <1>1 DEF RowsOf, ReplyTo
<1>4. UNCHANGED <<stages, clearances, replies, rows>>
  BY <1>2, <1>3, OwnStepImage DEF OwnStep, stages, clearances, replies, rows
<1> QED
  BY <1>1, <1>4 DEF Contract!TakeEffect

\* The metering step and the answer after it are one step of the contract: the row,
\* if any, and the reply tell the same of the effect.
LEMMA SettlesSettle ==
    ASSUME IInv, Audit, NEW r \in Requests, Settles(r)
    PROVE  Contract!Settle(r)
<1>1. /\ pc \in [Requests -> Points] /\ answer \in [Requests -> Answers] /\ PipelineOf(r)
      /\ pc[r] = "record" /\ pc'[r] = "reply"
      /\ UNCHANGED <<req, outcome, backend, authn>>
  BY DEF IInv, TypeOK, Pipeline, Settles, RecordOK, RecordFails, RecordSkipped,
     RespondToQuery, Respond, At, server
<1>2. /\ Identified(r) /\ Granted(r) /\ outcome[r] # "none"
      /\ outcome[r] = "ok" => backend[r] = "ran"
  BY <1>1 DEF PipelineOf, Begun
<1>3. Clearance(r) # "none" /\ Clearance(r)' = Clearance(r)
  <2>1. Clearance(r) # "none"
    BY <1>2, ClearedToRead
  <2>2. Clearance(r)' = Clearance(r)
    BY <1>1 DEF Clearance, Verified, MayRead, MayPerform
  <2> QED
    BY <2>1, <2>2
<1>4. stages[r] = "submitted" /\ Stage(r)' = "settled"
  BY <1>1 DEF stages, Stage, Answered
<1>5. RowsOf(r) = {}
  <2>1. r \notin Recorded
    BY <1>1 DEF Audit, Accounted, Answered
  <2> QED
    BY <2>1 DEF Recorded, RowsOf
<1>6. RowsOf(r)' \in {{}, {outcome[r] = "ok"}}
  <2>1. UNCHANGED usage_log \/ Insert(r)
    BY DEF Settles, RecordOK, RecordFails, RecordSkipped, records
  <2> QED
    BY <1>1, <1>5, <2>1, RowsAdded
<1>7. ReplyTo(r)' \in {"error", "result"} /\ (ReplyTo(r)' = "result" => outcome[r] = "ok")
  <2>1. PICK response \in QueryAnswers(r) : answer' = [answer EXCEPT ![r] = response]
    BY DEF Settles, RecordOK, RecordFails, RecordSkipped, RespondToQuery, Respond
  <2>2. /\ response.status \in {"result", "tool error"}
        /\ response.status = "result" => outcome[r] = "ok"
    <3>1. Status("result").status = "result" /\ Status("tool error").status = "tool error"
      BY DEF Status
    <3> QED
      BY <2>1, <3>1 DEF QueryAnswers
  <2> QED
    BY <1>1, <1>2, <2>1, <2>2 DEF ReplyTo
<1>8. UNCHANGED <<clearances, backend>>
  BY <1>1, <1>3, OwnStepImage DEF OwnStep, clearances
<1>9. /\ stages' = [stages EXCEPT ![r] = "settled"]
      /\ replies' = [replies EXCEPT ![r] = ReplyTo(r)']
      /\ rows' = [rows EXCEPT ![r] = RowsOf(r)']
  BY <1>4, OwnStepImage DEF OwnStep
<1>10. /\ RowsOf(r)' \in {{}, {TRUE}, {FALSE}}
       /\ ReplyTo(r)' = "result" => backend[r] = "ran" /\ RowsOf(r)' # {FALSE}
       /\ RowsOf(r)' = {TRUE} => backend[r] = "ran"
  BY <1>2, <1>6, <1>7
<1> QED
  BY <1>3, <1>4, <1>7, <1>8, <1>9, <1>10 DEF Contract!Settle, clearances

-----------------------------------------------------------------------------

LEMMA InitContract == Init => Contract!Init
<1> SUFFICES ASSUME Init PROVE Contract!Init
  OBVIOUS
<1>1. ASSUME NEW r \in Requests
      PROVE  /\ Stage(r) = "new" /\ ReplyTo(r) = "none" /\ RowsOf(r) = {}
             /\ Clearance(r) \in Contract!Clearances
  <2>1. pc[r] = "idle" /\ answer[r] = NoAnswer /\ usage_log = << >>
    BY DEF Init
  <2>2. Stage(r) = "new"
    BY <2>1 DEF Stage, Answered
  <2>3. Clearance(r) \in Contract!Clearances
    BY DEF Clearance, Contract!Clearances
  <2>4. ReplyTo(r) = "none"
    <3>1. NoAnswer.status = "none"
      BY DEF NoAnswer
    <3> QED
      BY <2>1, <3>1 DEF ReplyTo
  <2>5. RowsOf(r) = {}
    <3>1. DOMAIN usage_log = {}
      BY <2>1
    <3> QED
      BY <3>1 DEF RowsOf
  <2> QED
    BY <2>2, <2>3, <2>4, <2>5
<1>2. backend = [r \in Requests |-> "not sent"]
  BY DEF Init
<1> QED
  BY <1>1, <1>2 DEF Contract!Init, stages, clearances, replies, rows

LEMMA StepContract ==
    IInv /\ Audit /\ Unanswered /\ [Next]_vars => [Contract!Next]_(Contract!vars)
<1> SUFFICES ASSUME IInv, Audit, Unanswered, [Next]_vars
             PROVE  Contract!Next \/ UNCHANGED Contract!vars
  OBVIOUS
<1>1. CASE ProcessStep \/ UNCHANGED vars
  <2>1. UNCHANGED <<handlers, records, authn>>
    BY <1>1, ProcessStepFrame DEF vars, server
  <2>2. UNCHANGED <<pc, req, outcome, answer, backend, authn, usage_log>>
    BY <2>1 DEF handlers, records
  <2>3. ASSUME NEW r \in Requests
        PROVE  /\ Stage(r)' = Stage(r) /\ Clearance(r)' = Clearance(r)
               /\ ReplyTo(r)' = ReplyTo(r) /\ RowsOf(r)' = RowsOf(r)
    <3>1. RowsOf(r)' = RowsOf(r)
      BY <2>2 DEF RowsOf
    <3> QED
      BY <2>2, <3>1, ImageFrame
  <2> QED
    BY <2>2, <2>3 DEF Contract!vars, stages, clearances, replies, rows
<1>2. ASSUME NEW r \in Requests, OwnStep(r)
      PROVE  Contract!Next \/ UNCHANGED Contract!vars
  BY <1>2, ArriveSubmits, DeclinesDecline, UnnoticedStutters, SendQuerySends,
     BackendRunsTakesEffect, SettlesSettle DEF OwnStep, Contract!Next
<1> QED
  BY <1>1, <1>2, Steps DEF OwnStep, Declines, Unnoticed, Settles

\* Every behaviour of the gateway is one of the contract: a query is handed over at
\* most once, settled once, and never recorded or answered as what it was not, for
\* any configuration, with any number of requests in flight.
THEOREM GatewayKeepsContract == Spec => KeepsContract
BY PipelineInvariant, AuditInvariant, UnansweredInvariant, InitContract, StepContract,
   PTL DEF Spec, KeepsContract, Contract!Spec
-----------------------------------------------------------------------------
(* What the contract promises                                              *)

LEMMA ContractInit == Contract!Init => Contract!TypeOK /\ Contract!Honest
BY DEF Contract!Init, Contract!TypeOK, Contract!Honest, Contract!Stages,
   Contract!Clearances, Contract!Effects, Contract!Replies

LEMMA ContractTypes ==
    ASSUME Contract!TypeOK, [Contract!Next]_(Contract!vars)
    PROVE  Contract!TypeOK'
<1> USE DEF Contract!TypeOK, Contract!Stages, Contract!Clearances, Contract!Effects,
            Contract!Replies
<1>1. CASE UNCHANGED Contract!vars
  BY <1>1 DEF Contract!vars
<1>2. ASSUME NEW r \in Requests, Contract!Submit(r)
      PROVE  Contract!TypeOK'
  BY <1>2 DEF Contract!Submit
<1>3. ASSUME NEW r \in Requests, Contract!Decline(r) \/ Contract!Send(r) \/ Contract!TakeEffect(r)
      PROVE  Contract!TypeOK'
  BY <1>3 DEF Contract!Decline, Contract!Send, Contract!TakeEffect
<1>4. ASSUME NEW r \in Requests, Contract!Settle(r)
      PROVE  Contract!TypeOK'
  BY <1>4 DEF Contract!Settle
<1> QED
  BY <1>1, <1>2, <1>3, <1>4 DEF Contract!Next

LEMMA ContractHonest ==
    ASSUME Contract!TypeOK, Contract!Honest, [Contract!Next]_(Contract!vars)
    PROVE  Contract!Honest'
<1> USE DEF Contract!TypeOK, Contract!Honest, Contract!Stages, Contract!Clearances,
            Contract!Effects, Contract!Replies
<1>1. CASE UNCHANGED Contract!vars
  BY <1>1 DEF Contract!vars
<1>2. ASSUME NEW r \in Requests, Contract!Submit(r)
      PROVE  Contract!Honest'
  BY <1>2 DEF Contract!Submit
<1>3. ASSUME NEW r \in Requests, Contract!Decline(r)
      PROVE  Contract!Honest'
  BY <1>3 DEF Contract!Decline
<1>4. ASSUME NEW r \in Requests, Contract!Send(r)
      PROVE  Contract!Honest'
  BY <1>4 DEF Contract!Send
<1>5. ASSUME NEW r \in Requests, Contract!TakeEffect(r)
      PROVE  Contract!Honest'
  BY <1>5 DEF Contract!TakeEffect
<1>6. ASSUME NEW r \in Requests, Contract!Settle(r)
      PROVE  Contract!Honest'
  <2>1. PICK how \in {"error", "result"}, row \in {{}, {TRUE}, {FALSE}} :
          /\ how = "result" => backend[r] = "ran" /\ row # {FALSE}
          /\ row = {TRUE} => backend[r] = "ran"
          /\ replies' = [replies EXCEPT ![r] = how]
          /\ rows' = [rows EXCEPT ![r] = row]
    BY <1>6 DEF Contract!Settle
  <2>2. /\ stages' = [stages EXCEPT ![r] = "settled"] /\ clearances[r] # "none"
        /\ clearances' = clearances /\ backend' = backend
    BY <1>6 DEF Contract!Settle
  <2>3. /\ stages'[r] = "settled" /\ replies'[r] = how /\ rows'[r] = row
        /\ \A q \in Requests : q # r =>
              stages'[q] = stages[q] /\ replies'[q] = replies[q] /\ rows'[q] = rows[q]
    BY <2>1, <2>2
  <2> QED
    BY <2>1, <2>2, <2>3
<1> QED
  BY <1>1, <1>2, <1>3, <1>4, <1>5, <1>6 DEF Contract!Next

LEMMA ContractFinal ==
    Contract!TypeOK /\ [Contract!Next]_(Contract!vars)
        => [Contract!SettlesForGood]_(Contract!vars)
<1> SUFFICES ASSUME Contract!TypeOK, Contract!Next
             PROVE  Contract!SettlesForGood
  OBVIOUS
<1> USE DEF Contract!TypeOK, Contract!SettlesForGood
<1>1. ASSUME NEW r \in Requests, Contract!Submit(r) \/ Contract!Decline(r)
      PROVE  Contract!SettlesForGood
  BY <1>1 DEF Contract!Submit, Contract!Decline
<1>2. ASSUME NEW r \in Requests, Contract!Send(r) \/ Contract!TakeEffect(r)
      PROVE  Contract!SettlesForGood
  BY <1>2 DEF Contract!Send, Contract!TakeEffect
<1>3. ASSUME NEW r \in Requests, Contract!Settle(r)
      PROVE  Contract!SettlesForGood
  BY <1>3 DEF Contract!Settle
<1> QED
  BY <1>1, <1>2, <1>3 DEF Contract!Next

LEMMA HonestStep ==
    Contract!TypeOK /\ Contract!Honest /\ [Contract!Next]_(Contract!vars)
        => Contract!TypeOK' /\ Contract!Honest'
BY ContractTypes, ContractHonest

\* Through the contract: a client can take a result, a refusal and a usage row for
\* what they say, for any configuration and with any number of requests in flight.
THEOREM GatewayIsHonest == Spec => []Contract!Honest
BY GatewayKeepsContract, ContractInit, HonestStep, PTL DEF KeepsContract, Contract!Spec

\* And for good: nothing that goroutines, late backends, clients that leave or the
\* shutdown do after a query is settled takes back its reply or its row, or carries
\* out what was declined.
THEOREM GatewaySettlesForGood == Spec => Contract!Final
BY GatewayKeepsContract, ContractInit, HonestStep, ContractFinal, PTL
   DEF KeepsContract, Contract!Spec, Contract!Final

-----------------------------------------------------------------------------
(* The lifecycle                                                           *)

\* Handlers do not touch the lifetime of the process.
LEMMA HandlersLeaveLife ==
    ASSUME NEW r \in Requests, OwnStep(r)
    PROVE  UNCHANGED Life!vars
<1>1. UNCHANGED <<start, meter, closed, tunnel, exited>>
  BY DEF OwnStep, Declines, Unnoticed, Settles, Arrive, ServePage, RejectHeader, VerifyOK,
     VerifyFails, VerifyPanics, Recover, Bootstrap, Reply, ClientGone, ListResources,
     RefuseQuery, RejectOperation, SendQuery, BackendRuns, BackendReply, BackendAnswers,
     BackendFails, RecordOK, RecordFails, RecordSkipped, server
<1> QED
  BY <1>1 DEF Life!vars, Phase, StartReturned

\* Until Start returns, its steps and the first signal close nothing.
LEMMA StartLife ==
    ASSUME IInv, Signal \/ ListenerFails \/ StartFails \/ StartDrains \/ Drained \/ DrainTimesOut
    PROVE  UNCHANGED Life!vars \/ Life!Stop \/ Life!End
<1>1. UNCHANGED <<meter, closed, tunnel>>
  BY DEF Signal, ListenerFails, StartFails, StartDrains, Drained, DrainTimesOut, Start
<1>2. CASE Signal
  <2>1. \/ Phase' = Phase
        \/ Phase = "stopping" /\ Phase' = "over"
    BY <1>2 DEF Signal, Phase, StartReturned, IInv, TypeOK
  <2> QED
    BY <1>1, <2>1 DEF Life!vars, Life!End
<1>3. CASE ListenerFails \/ StartDrains
  <2>1. Phase' = Phase
    BY <1>3 DEF ListenerFails, StartDrains, Start, Phase, StartReturned
  <2> QED
    BY <1>1, <2>1 DEF Life!vars
<1>4. CASE StartFails \/ Drained \/ DrainTimesOut
  <2>1. Phase = "serving" /\ Phase' = "stopping"
    BY <1>4 DEF StartFails, Drained, DrainTimesOut, Start, Phase, StartReturned
  <2> QED
    BY <1>1, <2>1 DEF Life!Stop
<1> QED
  BY <1>2, <1>3, <1>4

\* The deferred closes are the lifecycle's.
LEMMA ClosingLife ==
    ASSUME IInv, Closing
    PROVE  Life!CloseMeter \/ Life!CloseClients \/ Life!CloseTunnel \/ Life!End
<1>1. Phase = "stopping"
  BY DEF Closing, CloseMeter, CloseTunnel, Exit, CloseResource, Phase
<1>2. CASE CloseMeter
  <2>1. Phase' = Phase
    BY <1>2 DEF CloseMeter, Phase, StartReturned
  <2> QED
    BY <1>1, <1>2, <2>1 DEF CloseMeter, Life!CloseMeter
<1>3. ASSUME NEW name \in Names, CloseResource(name)
      PROVE  Life!CloseClients
  <2>1. Phase' = Phase
    BY <1>3 DEF CloseResource, Phase, StartReturned
  <2> QED
    BY <1>1, <1>3, <2>1 DEF CloseResource, Life!CloseClients
<1>4. CASE CloseTunnel
  <2>1. Phase' = Phase
    BY <1>4 DEF CloseTunnel, Phase, StartReturned
  <2> QED
    BY <1>1, <1>4, <2>1 DEF CloseTunnel, Life!CloseTunnel
<1>5. CASE Exit
  <2>1. Phase' = "over"
    BY <1>5 DEF Exit, Phase
  <2> QED
    BY <1>1, <1>5, <2>1 DEF Exit, Life!End
<1> QED
  BY <1>2, <1>3, <1>4, <1>5 DEF Closing

LEMMA InitServing == Init => Life!Serving
BY StartupAssumption DEF Init, Life!Serving, Phase, StartReturned

LEMMA StepLife == IInv /\ [Next]_vars => [Life!Next]_(Life!vars)
<1> SUFFICES ASSUME IInv, [Next]_vars
             PROVE  Life!Next \/ UNCHANGED Life!vars
  OBVIOUS
<1>1. CASE UNCHANGED vars
  BY <1>1 DEF vars, server, Life!vars, Phase, StartReturned
<1>2. CASE ProcessStep
  BY <1>2, StartLife, ClosingLife DEF ProcessStep, Life!Next
<1>3. ASSUME NEW r \in Requests, OwnStep(r)
      PROVE  UNCHANGED Life!vars
  BY <1>3, HandlersLeaveLife
<1> QED
  BY <1>1, <1>2, <1>3, Steps DEF OwnStep, Declines, Unnoticed, Settles

\* From where Startup leaves off to the exit of the process, and with any number of
\* requests in flight, meter, clients and tunnel close as the lifecycle says.
THEOREM GatewayKeepsLifecycle == Spec => KeepsLifecycle
BY PipelineInvariant, InitServing, StepLife, PTL DEF Spec, KeepsLifecycle

LEMMA LayeredStep ==
    Life!Layered /\ [Life!Next]_(Life!vars)
        => Life!Layered' /\ [Life!KeepsLayers]_(Life!vars)
<1> SUFFICES ASSUME Life!Layered, [Life!Next]_(Life!vars)
             PROVE  Life!Layered' /\ [Life!KeepsLayers]_(Life!vars)
  OBVIOUS
<1> USE DEF Life!Layered, Life!KeepsLayers, Life!vars
<1>1. CASE Life!OpenTunnel \/ Life!OpenMeter \/ Life!CloseMeter \/ Life!CloseTunnel
  BY <1>1 DEF Life!OpenTunnel, Life!OpenMeter, Life!CloseMeter, Life!CloseTunnel
<1>2. CASE \E c \in Names : Life!OpenClient(c)
  BY <1>2 DEF Life!OpenClient
<1>3. CASE Life!Abandon \/ Life!Serve \/ Life!Stop \/ Life!End
  BY <1>3 DEF Life!Abandon, Life!Serve, Life!Stop, Life!End
<1>4. CASE Life!CloseClients
  BY <1>4 DEF Life!CloseClients
<1> QED
  BY <1>1, <1>2, <1>3, <1>4 DEF Life!Next

\* While the server runs or drains nothing closes under a handler; after that every
\* client outlives the meter and the tunnel every client, and nothing opens again.
THEOREM GatewayClosesInLayers == Spec => []Life!Layered /\ Life!InLayers
<1>1. Life!Serving => Life!Layered
  BY DEF Life!Serving, Life!Layered
<1> QED
  BY <1>1, LayeredStep, GatewayKeepsLifecycle, PTL DEF KeepsLifecycle, Life!InLayers

=============================================================================
