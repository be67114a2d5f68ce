---------------------------- MODULE GatewayProofs ----------------------------
(***************************************************************************)
(* Safety of the gateway, for any set of requests, configuration, policy   *)
(* and startup.  Five invariants, each inductive relative to those it is   *)
(* proved from: Pipeline follows one request through its handler, Audit    *)
(* relates the requests to the usage log, Lifetime relates both to the     *)
(* shutdown, Responses says what the answers of a request tell of it, and  *)
(* Bounced what becomes of a request without a verified token.             *)
(***************************************************************************)
EXTENDS Gateway, SequenceTheorems, TLAPS

-----------------------------------------------------------------------------
(* Lemmas about the operators of the model                                 *)

\* The filter of list_resources only ever shows configured resources.
LEMMA ListedIsConfigured ==
    ASSUME NEW allowed, NEW configured
    PROVE  Listed(allowed, configured) \subseteq configured
BY DEF Listed

\* What Check lets a caller do with a configured resource, list_resources
\* shows to that caller: Check and AllowedResources read the same rules, and
\* the second asks for less.
THEOREM CheckedIsListed ==
    ASSUME NEW rules, NEW groups, NEW resource, NEW permission, NEW configured,
           Check(rules, groups, resource, permission), resource \in configured
    PROVE  resource \in Listed(AllowedResources(rules, groups), configured)
<1>1. PICK rule \in RulesFor(rules, groups) :
        ResourceMatches(rule.resources, resource)
  BY DEF Check
<1>2. rule.resources \subseteq AllowedResources(rules, groups)
  BY DEF AllowedResources
<1>3. ResourceMatches(AllowedResources(rules, groups), resource)
  BY <1>1, <1>2 DEF ResourceMatches
<1> QED
  BY <1>3 DEF Listed

-----------------------------------------------------------------------------
(* One request on its way through the handler                              *)

\* The query handler did something for r that outlives the handler.
Begun(r) == backend[r] # "not sent" \/ outcome[r] # "none"

Identified(r) == Verified(req[r]) /\ claims[r] = req[r].subject

PipelineOf(r) ==
    /\ pc[r] \in {"handler", "execute", "record"} => Identified(r)
    /\ Begun(r) => /\ Identified(r) /\ Granted(r)
                   /\ pc[r] \in {"execute", "record", "reply", "done"}
    /\ backend[r] # "not sent" => Admits(r)
    /\ pc[r] = "execute" => backend[r] # "not sent" /\ outcome[r] = "none"
    /\ pc[r] = "record" => outcome[r] # "none"
    /\ Begun(r) /\ pc[r] # "execute" => outcome[r] # "none"
    /\ outcome[r] = "ok" => backend[r] = "ran"

Pipeline == \A r \in Requests : PipelineOf(r)

IInv == TypeOK /\ Pipeline

LEMMA InitIInv == Init => IInv
<1> SUFFICES ASSUME Init PROVE IInv
  OBVIOUS
<1>1. TypeOK
  <2>1. (CHOOSE h \in HttpRequests : TRUE) \in HttpRequests
    BY RequestAssumption
  <2>2. req \in [Requests -> HttpRequests]
    BY <2>1 DEF Init
  <2>3. usage_log \in Seq(Rows)
    <3>1. usage_log = << >>
      BY DEF Init
    <3> QED
      BY <3>1, EmptySeq
  <2>4. answer \in [Requests -> Answers]
    BY DEF Init, Answers, NoAnswer
  <2>5. /\ authn \in {"ready", "nil"}
        /\ {meter, tunnel} \subseteq {"off", "open", "closed"}
    BY StartupAssumption DEF Init
  <2>6. /\ pc \in [Requests -> Points]
        /\ claims \in [Requests -> Subjects \cup {NoClaims}]
        /\ outcome \in [Requests -> {"none", "ok", "error"}]
        /\ backend \in [Requests -> {"not sent", "sent", "ran"}]
    BY DEF Init, Points
  <2>7. /\ {errCh, ctxDone, exited} \subseteq BOOLEAN
        /\ start \in {"serving", "draining", "drained", "timedout", "failed"}
        /\ closed \subseteq Names /\ gone \subseteq Requests
        /\ meterErrors \subseteq Requests
    BY DEF Init
  <2> QED
    BY <2>2, <2>3, <2>4, <2>5, <2>6, <2>7 DEF TypeOK
<1>2. Pipeline
  BY DEF Init, Pipeline, PipelineOf, Begun
<1> QED
  BY <1>1, <1>2 DEF IInv

\* What a step leaves alone of a request, its part of Pipeline keeps.
LEMMA PipelineFrame ==
    ASSUME NEW r \in Requests, PipelineOf(r), authn' = authn,
           pc'[r] = pc[r], req'[r] = req[r], claims'[r] = claims[r],
           outcome'[r] = outcome[r], backend'[r] = backend[r]
    PROVE  PipelineOf(r)'
BY DEF PipelineOf, Begun, Identified, Verified, Granted, Groups, Admits

\* The steps that touch no request but move its response along.
LEMMA HTTPStepIInv ==
    ASSUME IInv, NEW r \in Requests,
           \/ Arrive(r) \/ ServePage(r) \/ RejectHeader(r) \/ VerifyOK(r)
           \/ VerifyFails(r) \/ VerifyPanics(r) \/ Recover(r) \/ Bootstrap(r)
           \/ Reply(r) \/ ClientGone(r)
    PROVE  IInv'
<1> USE DEF IInv
<1>1. /\ \A h \in HttpRequests : h.subject \in Subjects
      /\ Status("ok") \in Answers /\ Status("401") \in Answers
      /\ Status("500") \in Answers
  BY RequestAssumption DEF HttpRequest, Answers, Status
<1>2. TypeOK' /\ PipelineOf(r)'
  <2> USE <1>1 DEF TypeOK, Points, Pipeline, PipelineOf, Begun, Identified, Verified,
          Respond, At, server, records
  <2>1. CASE Arrive(r)
    <3>1. PICK h \in HttpRequests : req' = [req EXCEPT ![r] = h]
      BY <2>1 DEF Arrive
    <3>2. ~Begun(r)
      BY <2>1 DEF Arrive
    <3> QED
      BY <2>1, <3>1, <3>2 DEF Arrive
  <2>2. CASE ServePage(r)
    BY <2>2 DEF ServePage, Granted, Groups, Admits
  <2>3. CASE RejectHeader(r)
    BY <2>3 DEF RejectHeader, Granted, Groups, Admits
  <2>4. CASE VerifyOK(r)
    BY <2>4 DEF VerifyOK, Granted, Groups, Admits
  <2>5. CASE VerifyFails(r)
    BY <2>5 DEF VerifyFails, Granted, Groups, Admits
  <2>6. CASE VerifyPanics(r)
    BY <2>6 DEF VerifyPanics, Granted, Groups, Admits
  <2>7. CASE Recover(r)
    BY <2>7 DEF Recover, Granted, Groups, Admits
  <2>8. CASE Bootstrap(r)
    BY <2>8 DEF Bootstrap, Granted, Groups, Admits
  <2>9. CASE Reply(r)
    BY <2>9 DEF Reply, Granted, Groups, Admits
  <2>10. CASE ClientGone(r)
    BY <2>10 DEF ClientGone, Granted, Groups, Admits
  <2> QED
    BY <2>1, <2>2, <2>3, <2>4, <2>5, <2>6, <2>7, <2>8, <2>9, <2>10
<1>3. ASSUME NEW q \in Requests, q # r PROVE PipelineOf(q)'
  <2>1. /\ PipelineOf(q) /\ authn' = authn
        /\ pc'[q] = pc[q] /\ req'[q] = req[q] /\ claims'[q] = claims[q]
        /\ outcome'[q] = outcome[q] /\ backend'[q] = backend[q]
    BY <1>3 DEF TypeOK, Pipeline, Arrive, ServePage, RejectHeader, VerifyOK,
       VerifyFails, VerifyPanics, Recover, Bootstrap, Reply, ClientGone, Respond,
       server
  <2> QED
    BY <2>1, PipelineFrame
<1> QED
  BY <1>2, <1>3 DEF Pipeline

\* The steps of the tool handlers, up to the metering step.
LEMMA ToolStepIInv ==
    ASSUME IInv, NEW r \in Requests,
           \/ ListResources(r) \/ RefuseQuery(r) \/ RejectOperation(r)
           \/ SendQuery(r) \/ BackendRuns(r) \/ BackendReply(r)
    PROVE  IInv'
<1> USE DEF IInv, BackendReply
<1>1. /\ \A allowed : [status |-> "ok", names |-> Listed(allowed, Names)] \in Answers
      /\ Status("tool error") \in Answers
  BY ListedIsConfigured DEF Answers, Status
<1>2. TypeOK' /\ PipelineOf(r)'
  <2> USE <1>1 DEF TypeOK, Points, Pipeline, PipelineOf, Begun, Identified, Verified,
          Respond, Executed, At, Calls, Granted, Groups, Admits, server, records
  <2>1. CASE ListResources(r)
    BY <2>1 DEF ListResources
  <2>2. CASE RefuseQuery(r)
    BY <2>2 DEF RefuseQuery
  <2>3. CASE RejectOperation(r)
    BY <2>3 DEF RejectOperation
  <2>4. CASE SendQuery(r)
    BY <2>4 DEF SendQuery
  <2>5. CASE BackendRuns(r)
    BY <2>5 DEF BackendRuns
  <2>6. CASE BackendAnswers(r)
    BY <2>6 DEF BackendAnswers
  <2>7. CASE BackendFails(r)
    BY <2>7 DEF BackendFails
  <2> QED
    BY <2>1, <2>2, <2>3, <2>4, <2>5, <2>6, <2>7
<1>3. ASSUME NEW q \in Requests, q # r PROVE PipelineOf(q)'
  <2>1. /\ PipelineOf(q) /\ authn' = authn
        /\ pc'[q] = pc[q] /\ req'[q] = req[q] /\ claims'[q] = claims[q]
        /\ outcome'[q] = outcome[q] /\ backend'[q] = backend[q]
    BY <1>3 DEF TypeOK, Pipeline, ListResources, RefuseQuery, RejectOperation,
       SendQuery, BackendRuns, BackendAnswers, BackendFails, Executed, Respond, server
  <2> QED
    BY <2>1, PipelineFrame
<1> QED
  BY <1>2, <1>3 DEF Pipeline

\* A row inserted for a request at the metering step is well formed.
LEMMA UsageRowType ==
    ASSUME IInv, NEW r \in Requests, pc[r] = "record"
    PROVE  UsageRow(r) \in Rows
<1>1. Identified(r) /\ Granted(r)
  BY DEF IInv, Pipeline, PipelineOf, Begun
<1>2. req[r] \in HttpRequest
  <2>1. req[r] \in HttpRequests
    BY DEF IInv, TypeOK
  <2> QED
    BY <2>1, RequestAssumption
<1>3. req[r].subject \in Subjects /\ req[r].operation \in STRING
  BY <1>2 DEF HttpRequest
<1> QED
  BY <1>1, <1>3 DEF UsageRow, Rows, Identified, Granted

\* The metering step.
LEMMA RecordStepIInv ==
    ASSUME IInv, NEW r \in Requests,
           RecordOK(r) \/ RecordFails(r) \/ RecordSkipped(r)
    PROVE  IInv'
<1> USE DEF IInv
<1>1. pc[r] = "record" /\ UsageRow(r) \in Rows
  BY UsageRowType DEF RecordOK, RecordFails, RecordSkipped, At
<1>2. PICK response \in QueryAnswers(r) : Respond(r, response)
  BY DEF RecordOK, RecordFails, RecordSkipped, RespondToQuery
<1>3. response \in Answers
  <2>1. response \in {Status("result"), Status("tool error")}
    BY <1>2 DEF QueryAnswers
  <2> QED
    <3>1. Status("result") \in Answers /\ Status("tool error") \in Answers
      BY DEF Answers, Status
    <3> QED
      BY <2>1, <3>1
<1>4. usage_log' \in Seq(Rows) /\ meterErrors' \subseteq Requests
  <2>1. usage_log' \in {usage_log, Append(usage_log, UsageRow(r))}
    BY DEF RecordOK, RecordFails, RecordSkipped, Insert, records
  <2>2. usage_log \in Seq(Rows) /\ Append(usage_log, UsageRow(r)) \in Seq(Rows)
    BY <1>1, AppendProperties DEF TypeOK
  <2>3. meterErrors' \in {meterErrors, meterErrors \cup {r}}
    BY DEF RecordOK, RecordFails, RecordSkipped, records
  <2> QED
    BY <2>1, <2>2, <2>3 DEF TypeOK
<1>5. /\ UNCHANGED <<req, claims, outcome, gone, backend>> /\ UNCHANGED server
  BY DEF RecordOK, RecordFails, RecordSkipped
<1>6. TypeOK' /\ PipelineOf(r)'
  BY <1>1, <1>2, <1>3, <1>4, <1>5
     DEF TypeOK, Points, Pipeline, PipelineOf, Begun, Identified, Verified, Respond,
         Granted, Groups, Admits, server
<1>7. ASSUME NEW q \in Requests, q # r PROVE PipelineOf(q)'
  <2>1. /\ PipelineOf(q) /\ authn' = authn
        /\ pc'[q] = pc[q] /\ req'[q] = req[q] /\ claims'[q] = claims[q]
        /\ outcome'[q] = outcome[q] /\ backend'[q] = backend[q]
    BY <1>2, <1>5, <1>7 DEF TypeOK, Pipeline, Respond, server
  <2> QED
    BY <2>1, PipelineFrame
<1> QED
  BY <1>6, <1>7 DEF Pipeline

\* The steps of the process leave the requests and the log alone.
ProcessStep ==
    Signal \/ ListenerFails \/ StartFails \/ StartDrains
    \/ Drained \/ DrainTimesOut \/ Closing

LEMMA ProcessStepFrame ==
    ASSUME ProcessStep
    PROVE  UNCHANGED <<handlers, records, authn>>
BY DEF ProcessStep, Signal, ListenerFails, StartFails, StartDrains, Drained,
   DrainTimesOut, Closing, CloseMeter, CloseTunnel, Exit, CloseResource, Start

LEMMA ProcessStepIInv ==
    ASSUME IInv, ProcessStep
    PROVE  IInv'
<1>1. /\ UNCHANGED <<pc, req, claims, outcome, answer, gone, backend>>
      /\ UNCHANGED <<usage_log, meterErrors, authn>>
  BY ProcessStepFrame DEF handlers, records
<1>2. /\ {errCh', ctxDone', exited'} \subseteq BOOLEAN
      /\ start' \in {"serving", "draining", "drained", "timedout", "failed"}
      /\ {meter', tunnel'} \subseteq {"off", "open", "closed"}
      /\ closed' \subseteq Names
  BY DEF IInv, TypeOK, ProcessStep, Signal, ListenerFails, StartFails, StartDrains,
     Drained, DrainTimesOut, Closing, CloseMeter, CloseTunnel, Exit, CloseResource, Start
<1>3. TypeOK'
  BY <1>1, <1>2 DEF IInv, TypeOK
<1>4. Pipeline'
  BY <1>1, PipelineFrame DEF IInv, Pipeline
<1> QED
  BY <1>3, <1>4 DEF IInv

\* The ways one step of the system can go.
LEMMA Steps ==
    ASSUME [Next]_vars
    PROVE  \/ \E r \in Requests :
                \/ \/ Arrive(r) \/ ServePage(r) \/ RejectHeader(r) \/ VerifyOK(r)
                   \/ VerifyFails(r) \/ VerifyPanics(r) \/ Recover(r)
                   \/ Bootstrap(r) \/ Reply(r) \/ ClientGone(r)
                \/ \/ ListResources(r) \/ RefuseQuery(r) \/ RejectOperation(r)
                   \/ SendQuery(r) \/ BackendRuns(r) \/ BackendReply(r)
                \/ RecordOK(r) \/ RecordFails(r) \/ RecordSkipped(r)
           \/ ProcessStep
           \/ UNCHANGED vars
BY DEF Next, HandlerStep, ProcessStep, Ended

LEMMA StepIInv == IInv /\ [Next]_vars => IInv'
<1> SUFFICES ASSUME IInv, [Next]_vars PROVE IInv'
  OBVIOUS
<1>1. CASE UNCHANGED vars
  BY <1>1 DEF IInv, TypeOK, Pipeline, PipelineOf, Begun, Identified, Verified, Granted,
     Groups, Admits, vars, server, handlers, records
<1> QED
  BY <1>1, Steps, HTTPStepIInv, ToolStepIInv, RecordStepIInv, ProcessStepIInv

\* At each point of the middleware and of the handlers, what the checks before it
\* have found out holds, for any number of requests and whatever the shutdown does.
THEOREM PipelineInvariant == Spec => []IInv
BY InitIInv, StepIInv, PTL DEF Spec

\* The state of the gateway stays well formed: TypeOK, for every configuration.
THEOREM TypeCorrect == Spec => []TypeOK
<1>1. IInv => TypeOK
  BY DEF IInv
<1> QED
  BY <1>1, PipelineInvariant, PTL

-----------------------------------------------------------------------------
(* Who may have an operation sent                                          *)

\* Whatever the rules, no operation leaves the gateway without a verified
\* token, one rule that grants "read" on the resource, and a listed operation.
THEOREM OnlyGrantedIsSent == Spec => []SentOnlyWhenGranted
<1>1. IInv => SentOnlyWhenGranted
  <2> SUFFICES ASSUME IInv, NEW r \in Requests, backend[r] # "not sent"
               PROVE  /\ Verified(req[r])
                      /\ MayRead(req[r])
                      /\ req[r].resource \in Names /\ MayPerform(req[r])
    BY DEF SentOnlyWhenGranted
  <2>1. Identified(r) /\ Granted(r) /\ Admits(r)
    BY DEF IInv, Pipeline, PipelineOf, Begun
  <2>2. req[r].subject # NoClaims
    <3>1. req[r] \in HttpRequest
      BY RequestAssumption DEF IInv, TypeOK
    <3> QED
      BY <3>1, ConfigAssumption DEF HttpRequest
  <2>3. MayRead(req[r])
    BY <2>1, <2>2 DEF Identified, Granted, Groups, Check, RulesFor, ResourceMatches,
       Wildcard, MayRead
  <2>4. MayPerform(req[r])
    BY <2>1 DEF Admits, Admitted, IsOpAllowed, MayPerform
  <2> QED
    BY <2>1, <2>3, <2>4 DEF Identified, Granted
<1> QED
  BY <1>1, PipelineInvariant, PTL

-----------------------------------------------------------------------------
(* The usage log                                                           *)

\* RowsFaithful and Accounted need each other: that a new row is the only one of
\* its call follows from the call not being answered yet.
Audit == RowsFaithful /\ Accounted

\* What an insert does to the log.
LEMMA InsertedRow ==
    ASSUME NEW r \in Requests, usage_log \in Seq(Rows), UsageRow(r) \in Rows, Insert(r)
    PROVE  /\ DOMAIN usage_log' = DOMAIN usage_log \cup {Len(usage_log) + 1}
           /\ Len(usage_log) + 1 \notin DOMAIN usage_log
           /\ \A i \in DOMAIN usage_log : usage_log'[i] = usage_log[i]
           /\ usage_log'[Len(usage_log) + 1] = UsageRow(r)
           /\ Recorded' = Recorded \cup {r}
<1>1. /\ Len(usage_log) \in Nat /\ DOMAIN usage_log = 1..Len(usage_log)
      /\ usage_log' \in Seq(Rows) /\ Len(usage_log') = Len(usage_log) + 1
      /\ \A i \in 1..Len(usage_log) : usage_log'[i] = usage_log[i]
      /\ usage_log'[Len(usage_log) + 1] = UsageRow(r)
  BY AppendProperties, LenProperties DEF Insert
<1>2. DOMAIN usage_log' = 1..(Len(usage_log) + 1)
  BY <1>1, LenProperties
<1>3. DOMAIN usage_log' = DOMAIN usage_log \cup {Len(usage_log) + 1}
  BY <1>1, <1>2
<1>4. Len(usage_log) + 1 \notin DOMAIN usage_log
  BY <1>1
<1>5. Recorded' = Recorded \cup {r}
  BY <1>1, <1>3, <1>4 DEF Recorded, UsageRow
<1> QED
  BY <1>1, <1>3, <1>4, <1>5

\* A step that adds nothing to the log, answers no query that is past
\* authorization and changes no request that has a row keeps the invariant.
LEMMA AuditFrame ==
    ASSUME Audit, UNCHANGED records, gone \subseteq gone',
           meter' # "off" => meter # "off",
           \A q \in Requests :
               /\ Answered(q)' /\ outcome'[q] # "none"
                    => Answered(q) /\ outcome[q] # "none"
               /\ Answered(q) => /\ Answered(q)'
                                 /\ req'[q] = req[q] /\ outcome'[q] = outcome[q]
               /\ backend[q] = "ran" => backend'[q] = "ran",
           usage_log \in Seq(Rows), meterErrors \subseteq Requests
    PROVE  Audit'
<1>1. Recorded' = Recorded
  BY DEF records, Recorded
<1>2. Accounted'
  BY <1>1 DEF Audit, Accounted, records
<1>3. RowsFaithful'
  <2> SUFFICES ASSUME NEW i \in DOMAIN usage_log
               PROVE  LET row == usage_log[i]
                          r   == row.call IN
                      /\ row.user_id = req'[r].subject /\ req'[r].valid
                      /\ row.resource = req'[r].resource
                      /\ row.operation = req'[r].operation
                      /\ row.success <=> outcome'[r] = "ok"
                      /\ row.success => backend'[r] = "ran"
                      /\ \A j \in DOMAIN usage_log : usage_log[j].call = r => i = j
    BY DEF RowsFaithful, records
  <2>1. usage_log[i].call \in Recorded /\ usage_log[i].call \in Requests
    <3>1. usage_log[i].call \in Recorded
      BY DEF Recorded
    <3>2. usage_log[i] \in Rows
      BY LenProperties
    <3> QED
      BY <3>1, <3>2 DEF Rows
  <2>2. Answered(usage_log[i].call)
    BY <2>1 DEF Audit, Accounted
  <2> QED
    BY <2>1, <2>2 DEF Audit, RowsFaithful
<1> QED
  BY <1>2, <1>3 DEF Audit

LEMMA InitAudit == Init => Audit
<1> SUFFICES ASSUME Init PROVE Audit
  OBVIOUS
<1>1. DOMAIN usage_log = {}
  <2>1. usage_log = << >>
    BY DEF Init
  <2> QED
    BY <2>1
<1>2. Recorded = {}
  BY <1>1 DEF Recorded
<1>3. RowsFaithful
  BY <1>1 DEF RowsFaithful
<1>4. Accounted
  BY <1>2 DEF Init, Accounted, Answered
<1> QED
  BY <1>3, <1>4 DEF Audit

\* The steps that leave the log alone.
LEMMA QuietStepAudit ==
    ASSUME IInv, Audit, NEW r \in Requests,
           \/ Arrive(r) \/ ServePage(r) \/ RejectHeader(r) \/ VerifyOK(r)
           \/ VerifyFails(r) \/ VerifyPanics(r) \/ Recover(r)
           \/ Bootstrap(r) \/ Reply(r) \/ ClientGone(r)
           \/ ListResources(r) \/ RefuseQuery(r) \/ RejectOperation(r)
           \/ SendQuery(r) \/ BackendRuns(r) \/ BackendReply(r)
    PROVE  Audit'
<1> USE DEF BackendReply
<1>1. /\ UNCHANGED records /\ UNCHANGED server /\ gone \subseteq gone'
      /\ usage_log \in Seq(Rows) /\ meterErrors \subseteq Requests
  BY DEF IInv, TypeOK, Arrive, ServePage, RejectHeader, VerifyOK, VerifyFails,
     VerifyPanics, Recover, Bootstrap, Reply, ClientGone, ListResources, RefuseQuery,
     RejectOperation, SendQuery, BackendRuns, BackendAnswers, BackendFails
<1>2. ASSUME NEW q \in Requests
      PROVE  /\ Answered(q)' /\ outcome'[q] # "none"
                  => Answered(q) /\ outcome[q] # "none"
             /\ Answered(q) => /\ Answered(q)'
                               /\ req'[q] = req[q] /\ outcome'[q] = outcome[q]
             /\ backend[q] = "ran" => backend'[q] = "ran"
  <2>1. /\ pc \in [Requests -> Points] /\ req \in [Requests -> HttpRequests]
        /\ outcome \in [Requests -> {"none", "ok", "error"}]
        /\ backend \in [Requests -> {"not sent", "sent", "ran"}]
        /\ PipelineOf(q)
    BY DEF IInv, TypeOK, Pipeline
  <2> USE <2>1 DEF Answered, PipelineOf, Begun, At, Calls, Respond, Executed
  <2>2. CASE Arrive(r) \/ ServePage(r) \/ RejectHeader(r) \/ VerifyOK(r)
    BY <2>2 DEF Arrive, ServePage, RejectHeader, VerifyOK
  <2>3. CASE VerifyFails(r) \/ VerifyPanics(r) \/ Recover(r) \/ Bootstrap(r)
    BY <2>3 DEF VerifyFails, VerifyPanics, Recover, Bootstrap
  <2>4. CASE Reply(r) \/ ClientGone(r) \/ ListResources(r) \/ RefuseQuery(r)
    BY <2>4 DEF Reply, ClientGone, ListResources, RefuseQuery
  <2>5. CASE RejectOperation(r) \/ SendQuery(r) \/ BackendRuns(r) \/ BackendReply(r)
    BY <2>5 DEF RejectOperation, SendQuery, BackendRuns, BackendAnswers, BackendFails
  <2> QED
    BY <2>2, <2>3, <2>4, <2>5
<1> QED
  BY <1>1, <1>2, AuditFrame DEF server

\* The metering step: the row it adds is the only one of its request, and the
\* request is accounted for as it is answered.
LEMMA RecordStepAudit ==
    ASSUME IInv, Audit, NEW r \in Requests,
           RecordOK(r) \/ RecordFails(r) \/ RecordSkipped(r)
    PROVE  Audit'
<1>1. /\ pc[r] = "record" /\ UsageRow(r) \in Rows /\ outcome[r] # "none"
      /\ Identified(r)
      /\ outcome[r] = "ok" => backend[r] = "ran"
  BY UsageRowType
     DEF IInv, Pipeline, PipelineOf, Begun, RecordOK, RecordFails, RecordSkipped, At
<1>2. /\ usage_log \in Seq(Rows) /\ meterErrors \subseteq Requests
      /\ pc \in [Requests -> Points]
  BY DEF IInv, TypeOK
<1>3. r \notin Recorded /\ r \notin meterErrors
  BY <1>1 DEF Audit, Accounted, Answered
<1>4. /\ UNCHANGED <<req, outcome, gone, backend, meter>>
      /\ pc' = [pc EXCEPT ![r] = "reply"]
  BY DEF RecordOK, RecordFails, RecordSkipped, RespondToQuery, Respond, server
<1>5. \A q \in Requests : Answered(q)' <=> Answered(q) \/ q = r
  BY <1>1, <1>2, <1>4 DEF Answered
<1>6. CASE ~Insert(r)
  <2>1. UNCHANGED usage_log /\ Recorded' = Recorded
    BY <1>6 DEF RecordOK, RecordFails, RecordSkipped, records, Recorded
  <2>2. \/ meter # "off" /\ meterErrors' = meterErrors \cup {r}
        \/ meter = "off" /\ meterErrors' = meterErrors
    BY <1>6 DEF RecordOK, RecordFails, RecordSkipped, records
  <2>3. Accounted'
    BY <1>1, <1>3, <1>4, <1>5, <2>1, <2>2 DEF Audit, Accounted
  <2>4. RowsFaithful'
    BY <1>4, <2>1 DEF Audit, RowsFaithful
  <2> QED
    BY <2>3, <2>4 DEF Audit
<1>7. CASE Insert(r)
  <2>1. /\ DOMAIN usage_log' = DOMAIN usage_log \cup {Len(usage_log) + 1}
        /\ Len(usage_log) + 1 \notin DOMAIN usage_log
        /\ \A i \in DOMAIN usage_log : usage_log'[i] = usage_log[i]
        /\ usage_log'[Len(usage_log) + 1] = UsageRow(r)
        /\ Recorded' = Recorded \cup {r}
    BY <1>1, <1>2, <1>7, InsertedRow
  <2>2. \/ meterErrors' = meterErrors
        \/ meterErrors' = meterErrors \cup {r} /\ r \in gone
    BY <1>3, <2>1 DEF RecordOK, RecordFails, RecordSkipped, records, Recorded
  <2>3. Accounted'
    BY <1>1, <1>3, <1>4, <1>5, <2>1, <2>2 DEF Audit, Accounted
  <2>4. \A i \in DOMAIN usage_log : usage_log[i].call # r
    BY <1>3 DEF Recorded
  <2>5. RowsFaithful'
    <3> DEFINE n == Len(usage_log) + 1
               True(row, c) ==
                  /\ row.user_id = req[c].subject /\ req[c].valid
                  /\ row.resource = req[c].resource
                  /\ row.operation = req[c].operation
                  /\ row.success <=> outcome[c] = "ok"
                  /\ row.success => backend[c] = "ran"
    <3>1. True(UsageRow(r), r) /\ UsageRow(r).call = r
      BY <1>1 DEF UsageRow, Identified, Verified
    <3>2. \A i \in DOMAIN usage_log :
            /\ True(usage_log[i], usage_log[i].call)
            /\ \A j \in DOMAIN usage_log : usage_log[j].call = usage_log[i].call => i = j
      BY DEF Audit, RowsFaithful
    <3>3. \A i \in DOMAIN usage_log' :
            /\ True(usage_log'[i], usage_log'[i].call)
            /\ \A j \in DOMAIN usage_log' :
                  usage_log'[j].call = usage_log'[i].call => i = j
      <4> HIDE DEF True
      <4> QED
        BY <2>1, <2>4, <3>1, <3>2
    <3> QED
      BY <1>4, <3>3 DEF RowsFaithful
  <2> QED
    BY <2>3, <2>5 DEF Audit
<1> QED
  BY <1>6, <1>7

LEMMA StepAudit == IInv /\ Audit /\ [Next]_vars => Audit'
<1> SUFFICES ASSUME IInv, Audit, [Next]_vars PROVE Audit'
  OBVIOUS
<1>1. CASE ProcessStep \/ UNCHANGED vars
  <2>1. UNCHANGED <<handlers, records>>
    BY <1>1, ProcessStepFrame DEF vars
  <2>2. meter' # "off" => meter # "off"
    BY <1>1 DEF vars, server, ProcessStep, Signal, ListenerFails, StartFails,
       StartDrains, Drained, DrainTimesOut, Closing, CloseMeter, CloseTunnel, Exit,
       CloseResource, Start
  <2>3. usage_log \in Seq(Rows) /\ meterErrors \subseteq Requests
    BY DEF IInv, TypeOK
  <2> QED
    BY <2>1, <2>2, <2>3, AuditFrame DEF handlers, Answered
<1> QED
  BY <1>1, Steps, QuietStepAudit, RecordStepAudit

\* Of a call that makeQueryHandler is through with, the row and the log line agree
\* with what became of it at the backend.
THEOREM AuditInvariant == Spec => []Audit
BY PipelineInvariant, InitAudit, StepAudit, PTL DEF Spec

\* Every row is true of its call, and no call has two.
THEOREM RowsAreFaithful == Spec => []RowsFaithful
<1>1. Audit => RowsFaithful
  BY DEF Audit
<1> QED
  BY <1>1, AuditInvariant, PTL

\* No query past authorization is answered unaccounted for.
THEOREM QueriesAreAccounted == Spec => []Accounted
<1>1. Audit => Accounted
  BY DEF Audit
<1> QED
  BY <1>1, AuditInvariant, PTL

-----------------------------------------------------------------------------
(* The shutdown                                                            *)

\* What is closed and what still runs at each stage of the shutdown.  The last
\* conjunct gives the only reasons there are for a call without a row.
Lifetime ==
    /\ meter = "closed" \/ closed # {} \/ tunnel = "closed" => StartReturned
    /\ start = "drained" => InFlight = {}
    /\ closed # {} => meter # "open"
    /\ tunnel = "closed" => closed = Names
    /\ \A r \in meterErrors \ Recorded :
          r \in gone \/ StoreFaults \/ start \in {"timedout", "failed"}

LEMMA InitLifetime == Init => Lifetime
BY StartupAssumption DEF Init, Lifetime, InFlight

\* A request that leaves the log alone.
LEMMA QuietStepLifetime ==
    ASSUME IInv, Lifetime, NEW r \in Requests,
           \/ Arrive(r) \/ ServePage(r) \/ RejectHeader(r) \/ VerifyOK(r)
           \/ VerifyFails(r) \/ VerifyPanics(r) \/ Recover(r)
           \/ Bootstrap(r) \/ Reply(r) \/ ClientGone(r)
           \/ ListResources(r) \/ RefuseQuery(r) \/ RejectOperation(r)
           \/ SendQuery(r) \/ BackendRuns(r) \/ BackendReply(r)
    PROVE  Lifetime'
<1> USE DEF BackendReply
<1>1. /\ UNCHANGED server /\ UNCHANGED records /\ gone \subseteq gone'
      /\ pc \in [Requests -> Points] /\ req \in [Requests -> HttpRequests]
  BY DEF IInv, TypeOK, Arrive, ServePage, RejectHeader, VerifyOK, VerifyFails,
     VerifyPanics, Recover, Bootstrap, Reply, ClientGone, ListResources, RefuseQuery,
     RejectOperation, SendQuery, BackendRuns, BackendAnswers, BackendFails
<1>2. ASSUME NEW q \in Requests
      PROVE  pc'[q] = pc[q] \/ start # "drained" \/ pc[q] \notin {"idle", "done"}
  <2> USE <1>1 DEF At, Calls, Respond, Executed
  <2>1. CASE Arrive(r) \/ ServePage(r) \/ RejectHeader(r) \/ VerifyOK(r)
    BY <2>1 DEF Arrive, ServePage, RejectHeader, VerifyOK
  <2>2. CASE VerifyFails(r) \/ VerifyPanics(r) \/ Recover(r) \/ Bootstrap(r)
    BY <2>2 DEF VerifyFails, VerifyPanics, Recover, Bootstrap
  <2>3. CASE Reply(r) \/ ClientGone(r) \/ ListResources(r) \/ RefuseQuery(r)
    BY <2>3 DEF Reply, ClientGone, ListResources, RefuseQuery
  <2>4. CASE RejectOperation(r) \/ SendQuery(r) \/ BackendRuns(r) \/ BackendReply(r)
    BY <2>4 DEF RejectOperation, SendQuery, BackendRuns, BackendAnswers, BackendFails
  <2> QED
    BY <2>1, <2>2, <2>3, <2>4
<1>3. start = "drained" => InFlight' = {}
  BY <1>2 DEF Lifetime, InFlight
<1>4. \A q \in meterErrors' \ Recorded' :
        q \in gone' \/ StoreFaults \/ start \in {"timedout", "failed"}
  BY <1>1 DEF Lifetime, Recorded, records
<1> QED
  BY <1>1, <1>3, <1>4 DEF Lifetime, StartReturned, server

\* The metering step finds the database closed only when the drain did not end
\* in order: at "record" the request is in flight.
LEMMA RecordStepLifetime ==
    ASSUME IInv, Lifetime, NEW r \in Requests,
           RecordOK(r) \/ RecordFails(r) \/ RecordSkipped(r)
    PROVE  Lifetime'
<1>1. /\ UNCHANGED server /\ UNCHANGED gone /\ UNCHANGED req
      /\ pc[r] = "record" /\ pc' = [pc EXCEPT ![r] = "reply"]
      /\ pc \in [Requests -> Points]
  BY DEF IInv, TypeOK, RecordOK, RecordFails, RecordSkipped, RespondToQuery, Respond, At
<1>2. start # "drained"
  BY <1>1 DEF Lifetime, InFlight
<1>3. Recorded \subseteq Recorded'
  <2>1. CASE Insert(r)
    <3>1. usage_log \in Seq(Rows) /\ UsageRow(r) \in Rows
      BY <1>1, UsageRowType DEF IInv, TypeOK
    <3> QED
      BY <2>1, <3>1, InsertedRow
  <2>2. CASE ~Insert(r)
    BY <2>2 DEF RecordOK, RecordFails, RecordSkipped, records, Recorded
  <2> QED
    BY <2>1, <2>2
<1>4. \A q \in meterErrors' \ Recorded' :
        q \in gone' \/ StoreFaults \/ start \in {"timedout", "failed"}
  <2>1. CASE meterErrors' = meterErrors
    BY <1>1, <1>3, <2>1 DEF Lifetime
  <2>2. CASE RecordFails(r)
    BY <1>1, <1>2, <1>3, <2>2 DEF RecordFails, Lifetime, StartReturned
  <2> QED
    BY <2>1, <2>2 DEF RecordOK, RecordSkipped, records
<1> QED
  BY <1>1, <1>2, <1>4 DEF Lifetime, StartReturned, server

LEMMA ProcessStepLifetime ==
    ASSUME IInv, Lifetime, ProcessStep
    PROVE  Lifetime'
<1>1. /\ UNCHANGED <<pc, req, gone, meterErrors>> /\ Recorded' = Recorded
      /\ InFlight' = InFlight
  BY ProcessStepFrame DEF handlers, records, Recorded, InFlight
<1> USE <1>1 DEF Lifetime, StartReturned, Start
<1>2. CASE Signal \/ ListenerFails \/ StartFails \/ StartDrains
  BY <1>2 DEF Signal, ListenerFails, StartFails, StartDrains
<1>3. CASE Drained \/ DrainTimesOut
  BY <1>3 DEF Drained, DrainTimesOut
<1>4. CASE CloseMeter \/ CloseTunnel \/ Exit
  BY <1>4 DEF CloseMeter, CloseTunnel, Exit
<1>5. ASSUME NEW name \in Names, CloseResource(name) PROVE Lifetime'
  BY <1>5 DEF CloseResource
<1> QED
  BY <1>2, <1>3, <1>4, <1>5 DEF ProcessStep, Closing

LEMMA StepLifetime == IInv /\ Lifetime /\ [Next]_vars => Lifetime'
<1> SUFFICES ASSUME IInv, Lifetime, [Next]_vars PROVE Lifetime'
  OBVIOUS
<1>1. CASE UNCHANGED vars
  BY <1>1 DEF Lifetime, StartReturned, InFlight, Recorded, vars, server, handlers, records
<1> QED
  BY <1>1, Steps, QuietStepLifetime, RecordStepLifetime, ProcessStepLifetime

\* What Start has waited for, and what the deferred calls of serveCmd have closed,
\* fits the requests that are still in flight.
THEOREM LifetimeInvariant == Spec => []Lifetime
BY PipelineInvariant, InitLifetime, StepLifetime, PTL DEF Spec

\* When Start returned because the drain ended, every operation that was sent
\* has its row, but for what clients and the database did themselves.
THEOREM CleanDrainLosesNoRow == Spec => []DrainLosesNoRow
<1>1. IInv /\ Audit /\ Lifetime => DrainLosesNoRow
  <2> SUFFICES ASSUME IInv, Audit, Lifetime, start = "drained", meter # "off",
                      ~StoreFaults, NEW r \in Requests, backend[r] # "not sent"
               PROVE  r \in Recorded \cup gone
    BY DEF DrainLosesNoRow
  <2>1. pc[r] = "done" /\ outcome[r] # "none"
    BY DEF IInv, Pipeline, PipelineOf, Begun, Lifetime, InFlight
  <2>2. r \in Recorded \cup meterErrors
    BY <2>1 DEF Audit, Accounted, Answered
  <2> QED
    BY <2>2 DEF Lifetime
<1> QED
  BY <1>1, PipelineInvariant, AuditInvariant, LifetimeInvariant, PTL

\* A call in progress loses its client only to a shutdown that gave up on it, with
\* the meter closed before and the tunnel after, for any number of calls.
THEOREM CallsAreSpared == Spec => []ClosesSpareCalls
<1>1. IInv /\ Lifetime => ClosesSpareCalls
  <2> SUFFICES ASSUME IInv, Lifetime, NEW r \in Requests, pc[r] = "execute"
               PROVE  /\ req[r].resource \in closed =>
                             start \in {"timedout", "failed"} /\ meter # "open"
                      /\ tunnel = "closed" => req[r].resource \in closed
    BY DEF ClosesSpareCalls
  <2>1. start # "drained"
    BY DEF Lifetime, InFlight
  <2>2. req[r].resource \in Names
    BY DEF IInv, Pipeline, PipelineOf, Begun, Granted
  <2> QED
    BY <2>1, <2>2 DEF Lifetime, StartReturned
<1> QED
  BY <1>1, PipelineInvariant, LifetimeInvariant, PTL

-----------------------------------------------------------------------------
(* What the answers say                                                    *)

ListCall(r) == req[r].route = "/mcp" /\ req[r].tool = "list_resources"
ListingOf(groups) == Listed(AllowedResources(Rules, groups), Names)
ClosedInHaste(name) == name \in closed /\ start \in {"timedout", "failed"}

\* An error before sending, a tool error without one, and a listing each say why
\* they are there.
ResponseOf(r) ==
    /\ outcome[r] = "error" /\ backend[r] = "not sent"
         => ~Admits(r) \/ ClosedInHaste(req[r].resource)
    /\ Answered(r) /\ answer[r].status = "tool error" /\ outcome[r] = "none"
         => Identified(r) /\ ~Granted(r)
    /\ Answered(r) /\ ListCall(r) /\ answer[r].status = "ok"
         => Identified(r) /\ answer[r].names = ListingOf(Groups(r))

Responses == \A r \in Requests : ResponseOf(r)

\* What is closed stays closed, and how Start returned does not change.
LEMMA HasteLasts ==
    ASSUME [Next]_vars, Lifetime, NEW name, ClosedInHaste(name)
    PROVE  ClosedInHaste(name)'
<1> USE DEF ClosedInHaste, StartReturned, Start
<1>1. CASE ProcessStep
  BY <1>1 DEF ProcessStep, Signal, ListenerFails, StartFails, StartDrains, Drained,
     DrainTimesOut, Closing, CloseMeter, CloseTunnel, Exit, CloseResource
<1>2. CASE UNCHANGED server
  BY <1>2 DEF server
<1> QED
  BY <1>1, <1>2, Steps DEF vars, Arrive, ServePage, RejectHeader, VerifyOK, VerifyFails,
     VerifyPanics, Recover, Bootstrap, Reply, ClientGone, ListResources, RefuseQuery,
     RejectOperation, SendQuery, BackendRuns, BackendReply, BackendAnswers,
     BackendFails, RecordOK, RecordFails, RecordSkipped

\* What a step leaves alone of a request, its part of Responses keeps.
LEMMA ResponseFrame ==
    ASSUME [Next]_vars, Lifetime, NEW r \in Requests, ResponseOf(r), authn' = authn,
           pc'[r] = pc[r], req'[r] = req[r], claims'[r] = claims[r],
           outcome'[r] = outcome[r], answer'[r] = answer[r],
           backend'[r] = backend[r] \/ backend'[r] = "ran"
    PROVE  ResponseOf(r)'
<1>1. Granted(r)' = Granted(r) /\ Groups(r)' = Groups(r) /\ Identified(r)' = Identified(r)
  BY DEF Granted, Groups, Identified, Verified
<1>2. Admits(r)' = Admits(r) /\ Answered(r)' = Answered(r) /\ ListCall(r)' = ListCall(r)
  BY DEF Admits, Answered, ListCall
<1>3. ClosedInHaste(req[r].resource) => ClosedInHaste(req[r].resource)'
  BY HasteLasts
<1> QED
  BY <1>1, <1>2, <1>3 DEF ResponseOf, ClosedInHaste

LEMMA InitResponses == Init => Responses
BY DEF Init, Responses, ResponseOf, Answered

\* The answer to a query is never taken for a listing.
LEMMA QueryAnswerStatus ==
    ASSUME NEW r \in Requests, NEW response \in QueryAnswers(r)
    PROVE  response.status # "ok"
<1>1. response \in {Status("result"), Status("tool error")}
  BY DEF QueryAnswers
<1>2. Status("result").status # "ok" /\ Status("tool error").status # "ok"
  BY DEF Status
<1>3. CASE response = Status("result")
  BY <1>2, <1>3
<1>4. CASE response = Status("tool error")
  BY <1>2, <1>4
<1> QED
  BY <1>1, <1>3, <1>4

\* A request that takes a step itself.
LEMMA OwnStepResponse ==
    ASSUME IInv, Lifetime, Responses, NEW r \in Requests,
           \/ Arrive(r) \/ ServePage(r) \/ RejectHeader(r) \/ VerifyOK(r)
           \/ VerifyFails(r) \/ VerifyPanics(r) \/ Recover(r) \/ Bootstrap(r)
           \/ Reply(r) \/ ClientGone(r) \/ ListResources(r) \/ RefuseQuery(r)
           \/ RejectOperation(r) \/ SendQuery(r) \/ BackendRuns(r) \/ BackendReply(r)
           \/ RecordOK(r) \/ RecordFails(r) \/ RecordSkipped(r)
    PROVE  ResponseOf(r)'
<1>1. /\ pc \in [Requests -> Points] /\ req \in [Requests -> HttpRequests]
      /\ outcome \in [Requests -> {"none", "ok", "error"}]
      /\ answer \in [Requests -> Answers]
      /\ claims \in [Requests -> Subjects \cup {NoClaims}]
      /\ backend \in [Requests -> {"not sent", "sent", "ran"}]
      /\ PipelineOf(r) /\ ResponseOf(r)
  BY DEF IInv, TypeOK, Pipeline, Responses
<1>2. pc[r] # "idle" /\ pc[r] # "done" => start # "drained"
  BY DEF Lifetime, InFlight
<1> USE <1>1 DEF PipelineOf, Begun, Identified, Verified, Groups, Granted, Answered,
        ListCall, ListingOf, ClosedInHaste, At, Calls, Respond, Executed, Status,
        server, records
<1>3. CASE Arrive(r)
  <2>1. pc'[r] = "routed" /\ outcome'[r] = "none"
    BY <1>3 DEF Arrive
  <2> QED
    BY <2>1 DEF ResponseOf
<1>4. CASE ServePage(r)
  BY <1>4 DEF ServePage, Authed, ResponseOf
<1>5. CASE RejectHeader(r)
  BY <1>5 DEF RejectHeader, ResponseOf
<1>6. CASE VerifyOK(r)
  BY <1>6 DEF VerifyOK, ResponseOf
<1>7. CASE VerifyFails(r)
  BY <1>7 DEF VerifyFails, ResponseOf
<1>8. CASE VerifyPanics(r)
  BY <1>8 DEF VerifyPanics, ResponseOf
<1>9. CASE Recover(r)
  BY <1>9 DEF Recover, ResponseOf
<1>10. CASE Bootstrap(r)
  BY <1>10 DEF Bootstrap, ResponseOf
<1>11. CASE Reply(r)
  BY <1>11 DEF Reply, ResponseOf, Admits
<1>12. CASE ClientGone(r)
  BY <1>12 DEF ClientGone, ResponseOf, Admits
<1>13. CASE ListResources(r)
  BY <1>13 DEF ListResources, ResponseOf
<1>14. CASE RefuseQuery(r)
  BY <1>14 DEF RefuseQuery, ResponseOf
<1>15. CASE RejectOperation(r)
  <2>1. ~Admits(r) \/ ClosedInHaste(req[r].resource)
    BY <1>2, <1>15 DEF RejectOperation, Usable, Lifetime, StartReturned
  <2>2. Admits(r)' = Admits(r)
    BY <1>15 DEF RejectOperation, Admits
  <2> QED
    BY <1>15, <2>1, <2>2 DEF RejectOperation, ResponseOf
<1>16. CASE SendQuery(r)
  BY <1>16 DEF SendQuery, ResponseOf
<1>17. CASE BackendRuns(r)
  BY <1>17 DEF BackendRuns, ResponseOf, Admits
<1>18. CASE BackendReply(r)
  BY <1>18 DEF BackendReply, BackendAnswers, BackendFails, ResponseOf
<1>19. CASE RecordOK(r) \/ RecordFails(r) \/ RecordSkipped(r)
  <2>1. /\ UNCHANGED <<req, claims, outcome, backend, server>>
        /\ pc[r] = "record"
        /\ \E response \in QueryAnswers(r) :
              answer' = [answer EXCEPT ![r] = response]
    BY <1>19 DEF RecordOK, RecordFails, RecordSkipped, RespondToQuery
  <2>2. answer'[r].status # "ok"
    <3>1. PICK response \in QueryAnswers(r) : answer' = [answer EXCEPT ![r] = response]
      BY <2>1
    <3> QED
      BY <1>1, <3>1, QueryAnswerStatus
  <2>3. Admits(r)' = Admits(r)
    BY <2>1 DEF Admits
  <2> QED
    BY <2>1, <2>2, <2>3 DEF ResponseOf
<1> QED
  BY <1>3, <1>4, <1>5, <1>6, <1>7, <1>8, <1>9, <1>10, <1>11, <1>12, <1>13, <1>14,
     <1>15, <1>16, <1>17, <1>18, <1>19

\* What one request does leaves the others alone.
LEMMA OthersUntouched ==
    ASSUME IInv, NEW r \in Requests, NEW q \in Requests, q # r,
           \/ Arrive(r) \/ ServePage(r) \/ RejectHeader(r) \/ VerifyOK(r)
           \/ VerifyFails(r) \/ VerifyPanics(r) \/ Recover(r) \/ Bootstrap(r)
           \/ Reply(r) \/ ClientGone(r) \/ ListResources(r) \/ RefuseQuery(r)
           \/ RejectOperation(r) \/ SendQuery(r) \/ BackendRuns(r) \/ BackendReply(r)
           \/ RecordOK(r) \/ RecordFails(r) \/ RecordSkipped(r)
    PROVE  /\ pc'[q] = pc[q] /\ req'[q] = req[q] /\ claims'[q] = claims[q]
           /\ outcome'[q] = outcome[q] /\ answer'[q] = answer[q]
           /\ backend'[q] = backend[q] /\ authn' = authn
BY DEF IInv, TypeOK, Arrive, ServePage, RejectHeader, VerifyOK, VerifyFails,
   VerifyPanics, Recover, Bootstrap, Reply, ClientGone, ListResources, RefuseQuery,
   RejectOperation, SendQuery, BackendRuns, BackendReply, BackendAnswers, BackendFails,
   RecordOK, RecordFails, RecordSkipped, RespondToQuery, Respond, Executed, server

LEMMA StepResponses == IInv /\ Lifetime /\ Responses /\ [Next]_vars => Responses'
<1> SUFFICES ASSUME IInv, Lifetime, Responses, [Next]_vars, NEW q \in Requests
             PROVE  ResponseOf(q)'
  BY DEF Responses
<1>1. ResponseOf(q)
  BY DEF Responses
<1>2. CASE ProcessStep \/ UNCHANGED vars
  <2>1. UNCHANGED <<pc, req, claims, outcome, answer, backend, authn>>
    BY <1>2, ProcessStepFrame DEF vars, server, handlers
  <2> QED
    BY <1>1, <2>1, ResponseFrame
<1> QED
  BY <1>1, <1>2, Steps, OwnStepResponse, OthersUntouched, ResponseFrame

\* Every answer the handlers give has its reason in the request, in the policy, or
\* in a resource that the shutdown closed.
THEOREM ResponsesInvariant == Spec => []Responses
BY PipelineInvariant, LifetimeInvariant, InitResponses, StepResponses, PTL DEF Spec

\* A query that is turned away unsent has a fault of its own, or met a resource
\* that an overrun shutdown had closed.
THEOREM RefusalsHaveCause == Spec => []RefusedOnlyForCause
<1>1. IInv /\ Responses => RefusedOnlyForCause
  <2> SUFFICES ASSUME IInv, Responses, NEW r \in Requests, Answered(r),
                      answer[r].status = "tool error", backend[r] = "not sent",
                      MayRead(req[r]), req[r].operation # "",
                      req[r].resource \in Names, MayPerform(req[r]),
                      Lower(req[r].operation)
                         \in DOMAIN Requires[Configs[req[r].resource].type],
                      Requires[Configs[req[r].resource].type][Lower(req[r].operation)]
                         \subseteq req[r].args
               PROVE  ClosedInHaste(req[r].resource)
    BY DEF RefusedOnlyForCause, ClosedInHaste
  <2>1. PipelineOf(r) /\ ResponseOf(r) /\ outcome[r] \in {"none", "ok", "error"}
    BY DEF IInv, TypeOK, Pipeline, Responses
  <2>2. Identified(r)
    BY <2>1 DEF PipelineOf, Begun, ResponseOf
  <2>3. Groups(r) = GroupsOf[req[r].subject]
    <3>1. req[r] \in HttpRequest
      BY RequestAssumption DEF IInv, TypeOK
    <3>2. req[r].subject # NoClaims
      BY <3>1, ConfigAssumption DEF HttpRequest
    <3> QED
      BY <2>2, <3>2 DEF Groups, Identified
  <2>4. Granted(r)
    <3>1. Check(Rules, Groups(r), req[r].resource, "read")
      BY <2>3 DEF MayRead, Check, RulesFor, ResourceMatches, Wildcard
    <3>2. req[r].resource # ""
      BY ConfigAssumption
    <3> QED
      BY <3>1, <3>2 DEF Granted
  <2>5. Admits(r)
    BY DEF Admits, Admitted, IsOpAllowed, MayPerform
  <2> QED
    BY <2>1, <2>4, <2>5 DEF PipelineOf, ResponseOf
<1> QED
  BY <1>1, PipelineInvariant, ResponsesInvariant, PTL

\* Whatever a subject got an operation through to, its lists show.
THEOREM ListingsAreComplete == Spec => []ListingComplete
<1>1. IInv /\ Responses => ListingComplete
  <2> SUFFICES ASSUME IInv, Responses, NEW q \in Requests, NEW l \in Requests,
                      backend[q] # "not sent", Answered(l), ListCall(l),
                      answer[l].status = "ok", req[l].subject = req[q].subject
               PROVE  req[q].resource \in answer[l].names
    BY DEF ListingComplete, ListCall
  <2>1. Identified(q) /\ Granted(q) /\ Identified(l)
    BY DEF IInv, Pipeline, PipelineOf, Begun, Responses, ResponseOf
  <2>2. Groups(q) = Groups(l)
    BY <2>1 DEF Identified, Groups
  <2>3. answer[l].names = ListingOf(Groups(l))
    <3>1. ResponseOf(l)
      BY DEF Responses
    <3> QED
      BY <3>1 DEF ResponseOf
  <2>4. Check(Rules, Groups(q), req[q].resource, "read") /\ req[q].resource \in Names
    BY <2>1 DEF Granted
  <2>5. Check(Rules, Groups(l), req[q].resource, "read")
    BY <2>2, <2>4 DEF Check, RulesFor
  <2>6. req[q].resource \in ListingOf(Groups(l))
    BY ONLY <2>4, <2>5, CheckedIsListed DEF ListingOf
  <2> QED
    BY ONLY <2>3, <2>6
<1> QED
  BY <1>1, PipelineInvariant, ResponsesInvariant, PTL

-----------------------------------------------------------------------------
(* Who is turned away                                                      *)

\* Where a request without a verified token can be, and what it is told.
BouncedOf(r) ==
    /\ pc[r] = "panic" => Authed(r) /\ req[r].header = "bearer" /\ authn = "nil"
    /\ Answered(r) /\ Authed(r) /\ ~Verified(req[r]) =>
          answer[r].status =
             IF req[r].header = "bearer" /\ authn = "nil" THEN "500" ELSE "401"

Bounced == \A r \in Requests : BouncedOf(r)

LEMMA BouncedFrame ==
    ASSUME NEW r \in Requests, BouncedOf(r), authn' = authn, pc'[r] = pc[r],
           req'[r] = req[r], answer'[r] = answer[r]
    PROVE  BouncedOf(r)'
BY DEF BouncedOf, Answered, Authed, Verified

\* A request that takes a step itself: past "handler" its token is verified.
LEMMA OwnStepBounced ==
    ASSUME IInv, Bounced, NEW r \in Requests,
           \/ Arrive(r) \/ ServePage(r) \/ RejectHeader(r) \/ VerifyOK(r)
           \/ VerifyFails(r) \/ VerifyPanics(r) \/ Recover(r) \/ Bootstrap(r)
           \/ Reply(r) \/ ClientGone(r) \/ ListResources(r) \/ RefuseQuery(r)
           \/ RejectOperation(r) \/ SendQuery(r) \/ BackendRuns(r) \/ BackendReply(r)
           \/ RecordOK(r) \/ RecordFails(r) \/ RecordSkipped(r)
    PROVE  BouncedOf(r)'
<1>1. /\ pc \in [Requests -> Points] /\ req \in [Requests -> HttpRequests]
      /\ answer \in [Requests -> Answers] /\ authn \in {"ready", "nil"}
      /\ pc[r] \in {"handler", "execute", "record"} => Verified(req[r])
      /\ BouncedOf(r)
  BY DEF IInv, TypeOK, Pipeline, PipelineOf, Identified, Bounced
<1> USE <1>1 DEF BouncedOf, Answered, Authed, Verified, At, Calls, Respond, Executed,
        Status, server
<1>2. CASE Arrive(r)
  BY <1>2 DEF Arrive
<1>3. CASE ServePage(r) \/ RejectHeader(r) \/ VerifyOK(r) \/ VerifyFails(r)
  BY <1>3 DEF ServePage, RejectHeader, VerifyOK, VerifyFails
<1>4. CASE VerifyPanics(r) \/ Recover(r) \/ Reply(r) \/ ClientGone(r)
  BY <1>4 DEF VerifyPanics, Recover, Reply, ClientGone
<1>5. CASE Bootstrap(r) \/ ListResources(r) \/ RefuseQuery(r) \/ RejectOperation(r)
  BY <1>5 DEF Bootstrap, ListResources, RefuseQuery, RejectOperation
<1>6. CASE SendQuery(r) \/ BackendRuns(r) \/ BackendReply(r)
  BY <1>6 DEF SendQuery, BackendRuns, BackendReply, BackendAnswers, BackendFails
<1>7. CASE RecordOK(r) \/ RecordFails(r) \/ RecordSkipped(r)
  BY <1>7 DEF RecordOK, RecordFails, RecordSkipped, RespondToQuery
<1> QED
  BY <1>2, <1>3, <1>4, <1>5, <1>6, <1>7

LEMMA StepBounced == IInv /\ Bounced /\ [Next]_vars => Bounced'
<1> SUFFICES ASSUME IInv, Bounced, [Next]_vars, NEW q \in Requests
             PROVE  BouncedOf(q)'
  BY DEF Bounced
<1>1. BouncedOf(q)
  BY DEF Bounced
<1>2. CASE ProcessStep \/ UNCHANGED vars
  <2>1. UNCHANGED <<pc, req, answer, authn>>
    BY <1>2, ProcessStepFrame DEF vars, server, handlers
  <2> QED
    BY <1>1, <2>1, BouncedFrame
<1> QED
  BY <1>1, <1>2, Steps, OwnStepBounced, OthersUntouched, BouncedFrame

LEMMA InitBounced == Init => Bounced
BY DEF Init, Bounced, BouncedOf, Answered

\* authMiddleware lets no request through without a verified token: each one is
\* answered with a 401, or with the 500 of a panic when the authenticator is nil.
THEOREM UnverifiedAreBounced == Spec => []Bounced
BY PipelineInvariant, InitBounced, StepBounced, PTL DEF Spec

\* What the comment on authMiddleware claims does hold of a gateway whose startup
\* could create the authenticator: the nil one is the only way to break it.
THEOREM ReadyAuthnGives401 == Spec => [](authn = "ready" => InvalidTokenGets401)
<1>1. Bounced => (authn = "ready" => InvalidTokenGets401)
  BY DEF Bounced, BouncedOf, Answered, Verified, InvalidTokenGets401
<1> QED
  BY <1>1, UnverifiedAreBounced, PTL

-----------------------------------------------------------------------------
(* What makes the documentation's other claims true                        *)

\* What the README says of metering holds of a gateway that has a meter, for as
\* long as Shutdown does not time out and neither the listener, the database nor
\* the client of the call fails: no other order of events loses a row.
QueriesRecordedUnlessFailed ==
    meter # "off" /\ ~StoreFaults /\ start \notin {"timedout", "failed"} =>
        \A r \in Requests :
            pc[r] = "done" /\ backend[r] = "ran" /\ r \notin gone => r \in Recorded

\* Nothing else keeps a query that the backend carried out and the gateway answered
\* from its row: "All queries are recorded" (README.md:56), with its conditions.
THEOREM OnlyFailuresLoseRows == Spec => []QueriesRecordedUnlessFailed
<1>1. IInv /\ Audit /\ Lifetime => QueriesRecordedUnlessFailed
  <2> SUFFICES ASSUME IInv, Audit, Lifetime, meter # "off", ~StoreFaults,
                      start \notin {"timedout", "failed"}, NEW r \in Requests,
                      pc[r] = "done", backend[r] = "ran", r \notin gone
               PROVE  r \in Recorded
    BY DEF QueriesRecordedUnlessFailed
  <2>1. outcome[r] # "none"
    BY DEF IInv, Pipeline, PipelineOf, Begun
  <2>2. r \in Recorded \cup meterErrors
    BY <2>1 DEF Audit, Accounted, Answered
  <2> QED
    BY <2>2 DEF Lifetime
<1> QED
  BY <1>1, PipelineInvariant, AuditInvariant, LifetimeInvariant, PTL

\* The configuration locks its read-only resources by their lists: a list is
\* there, and no entry of it changes data.
LockedByLists ==
    \A n \in Names : Configs[n].readOnly =>
        /\ Configs[n].allowedOps # {}
        /\ \A op \in Configs[n].allowedOps :
              Lower(op) \notin Mutating(Configs[n].type)

\* No code reads read_only once the configuration is loaded, so the lists have to
\* carry what the README says of it; when they do, it holds.
THEOREM ListsHonourReadOnly ==
    ASSUME LockedByLists
    PROVE  Spec => []ReadOnlyHonoured
<1>1. SentOnlyWhenGranted => ReadOnlyHonoured
  <2> SUFFICES ASSUME SentOnlyWhenGranted, NEW r \in Requests, backend[r] = "ran",
                      Configs[req[r].resource].readOnly
               PROVE  Lower(req[r].operation)
                         \notin Mutating(Configs[req[r].resource].type)
    BY DEF ReadOnlyHonoured
  <2>1. req[r].resource \in Names /\ MayPerform(req[r])
    BY DEF SentOnlyWhenGranted
  <2>2. PICK op \in Configs[req[r].resource].allowedOps :
          Lower(op) = Lower(req[r].operation)
    BY <2>1 DEF LockedByLists, MayPerform
  <2> QED
    BY <2>1, <2>2 DEF LockedByLists
<1> QED
  BY <1>1, OnlyGrantedIsSent, PTL

-----------------------------------------------------------------------------
(* How far a request still has to go                                       *)

\* The longest way from a point of the handler to its end, in steps.
Distance(point) ==
    CASE point = "idle" -> 6 [] point = "routed" -> 5 [] point = "handler" -> 4
      [] point = "execute" -> 3 [] point \in {"panic", "record"} -> 2
      [] point = "reply" -> 1 [] point = "done" -> 0

\* A step that moves a request moves it nearer to its end, and one that has its
\* answer changes nothing of the request any more but that it is done; only the
\* backend may still carry out what was sent.  So no goroutine, client, backend or
\* shutdown can send a request back to be executed, metered or answered again.
Advances(r) ==
    /\ pc'[r] # pc[r] => Distance(pc'[r]) < Distance(pc[r])
    /\ Answered(r) =>
          /\ Answered(r)'
          /\ req'[r] = req[r] /\ claims'[r] = claims[r]
          /\ outcome'[r] = outcome[r] /\ answer'[r] = answer[r]
          /\ r \in gone' => r \in gone
    /\ backend[r] = "ran" => backend'[r] = "ran"
    /\ backend[r] = "not sent" /\ backend'[r] # "not sent" =>
          pc[r] = "handler" /\ pc'[r] = "execute"

HandlersAdvance == \A r \in Requests : Advances(r)

LEMMA OwnStepAdvances ==
    ASSUME IInv, NEW r \in Requests,
           \/ Arrive(r) \/ ServePage(r) \/ RejectHeader(r) \/ VerifyOK(r)
           \/ VerifyFails(r) \/ VerifyPanics(r) \/ Recover(r) \/ Bootstrap(r)
           \/ Reply(r) \/ ClientGone(r) \/ ListResources(r) \/ RefuseQuery(r)
           \/ RejectOperation(r) \/ SendQuery(r) \/ BackendRuns(r) \/ BackendReply(r)
           \/ RecordOK(r) \/ RecordFails(r) \/ RecordSkipped(r)
    PROVE  Advances(r)
<1> DEFINE Moves(here, there) == pc[r] \in here /\ pc'[r] \in there
           Stays == pc'[r] = pc[r]
<1>1. /\ pc \in [Requests -> Points] /\ answer \in [Requests -> Answers]
      /\ req \in [Requests -> HttpRequests] /\ outcome \in [Requests -> {"none", "ok", "error"}]
      /\ backend \in [Requests -> {"not sent", "sent", "ran"}]
      /\ claims \in [Requests -> Subjects \cup {NoClaims}]
  BY DEF IInv, TypeOK
<1>2. PipelineOf(r)
  BY DEF IInv, Pipeline
<1>3. \/ Stays
      \/ Moves({"idle"}, {"routed"}) \/ Moves({"routed"}, {"reply", "handler", "panic"})
      \/ Moves({"panic"}, {"reply"}) \/ Moves({"handler"}, {"reply", "record", "execute"})
      \/ Moves({"execute"}, {"record"}) \/ Moves({"record"}, {"reply"})
      \/ Moves({"reply"}, {"done"})
  <2> USE <1>1 DEF At, Calls, Respond, Executed
  <2>1. CASE Arrive(r) \/ ServePage(r) \/ RejectHeader(r) \/ VerifyOK(r) \/ VerifyFails(r)
    BY <2>1 DEF Arrive, ServePage, RejectHeader, VerifyOK, VerifyFails
  <2>2. CASE VerifyPanics(r) \/ Recover(r) \/ Reply(r) \/ ClientGone(r)
    BY <2>2 DEF VerifyPanics, Recover, Reply, ClientGone
  <2>3. CASE Bootstrap(r) \/ ListResources(r) \/ RefuseQuery(r) \/ RejectOperation(r)
    BY <2>3 DEF Bootstrap, ListResources, RefuseQuery, RejectOperation
  <2>4. CASE SendQuery(r) \/ BackendRuns(r) \/ BackendReply(r)
    BY <2>4 DEF SendQuery, BackendRuns, BackendReply, BackendAnswers, BackendFails
  <2>5. CASE RecordOK(r) \/ RecordFails(r) \/ RecordSkipped(r)
    BY <2>5 DEF RecordOK, RecordFails, RecordSkipped, RespondToQuery
  <2> QED
    BY <2>1, <2>2, <2>3, <2>4, <2>5
<1>4. Distance(pc'[r]) < Distance(pc[r]) \/ Stays
  BY <1>3 DEF Distance
<1>5. CASE Answered(r)
  <2>1. Reply(r) \/ BackendRuns(r)
    BY <1>5 DEF Answered, At, Calls, Arrive, ServePage, RejectHeader, VerifyOK,
       VerifyFails, VerifyPanics, Recover, Bootstrap, ClientGone, ListResources,
       RefuseQuery, RejectOperation, SendQuery, BackendReply, BackendAnswers,
       BackendFails, RecordOK, RecordFails, RecordSkipped
  <2>2. UNCHANGED <<req, claims, outcome, answer, gone>>
    BY <2>1 DEF Reply, BackendRuns
  <2>3. Answered(r)' /\ backend'[r] \in {backend[r], "ran"}
        /\ (backend'[r] # backend[r] => backend[r] = "sent")
    BY <1>1, <1>5, <2>1 DEF Answered, At, Reply, BackendRuns
  <2> QED
    BY <1>4, <2>2, <2>3 DEF Advances
<1>6. CASE ~Answered(r)
  <2>1. CASE SendQuery(r)
    <3>1. ~Begun(r)
      BY <1>2, <2>1 DEF SendQuery, Calls, At, PipelineOf
    <3> QED
      BY <1>1, <1>4, <1>6, <2>1, <3>1 DEF SendQuery, Calls, At, Begun, Advances
  <2>2. CASE BackendRuns(r)
    BY <1>1, <1>4, <1>6, <2>2 DEF BackendRuns, Advances
  <2>3. CASE ~SendQuery(r) /\ ~BackendRuns(r)
    <3>1. backend' = backend
      BY <2>3 DEF Arrive, ServePage, RejectHeader, VerifyOK,
         VerifyFails, VerifyPanics, Recover, Bootstrap, Reply, ClientGone,
         ListResources, RefuseQuery, RejectOperation, BackendReply, BackendAnswers,
         BackendFails, RecordOK, RecordFails, RecordSkipped
    <3> QED
      BY <1>4, <1>6, <3>1 DEF Advances
  <2> QED
    BY <2>1, <2>2, <2>3
<1> QED
  BY <1>5, <1>6

\* Only ClientGone looks at gone, and only at its own request.
LEMMA GoneFrame ==
    ASSUME [Next]_vars, NEW q \in Requests
    PROVE  q \in gone' => q \in gone \/ ClientGone(q)
<1>1. CASE UNCHANGED vars \/ ProcessStep
  BY <1>1, ProcessStepFrame DEF vars, handlers
<1>2. ASSUME NEW r \in Requests, ClientGone(r)
      PROVE  q \in gone' => q \in gone \/ ClientGone(q)
  BY <1>2 DEF ClientGone
<1>3. ASSUME NEW r \in Requests,
             \/ Arrive(r) \/ ServePage(r) \/ RejectHeader(r) \/ VerifyOK(r)
             \/ VerifyFails(r) \/ VerifyPanics(r) \/ Recover(r) \/ Bootstrap(r)
             \/ Reply(r) \/ ListResources(r) \/ RefuseQuery(r)
             \/ RejectOperation(r) \/ SendQuery(r) \/ BackendRuns(r) \/ BackendReply(r)
             \/ RecordOK(r) \/ RecordFails(r) \/ RecordSkipped(r)
      PROVE  gone' = gone
  BY <1>3 DEF Arrive, ServePage, RejectHeader, VerifyOK, VerifyFails, VerifyPanics,
     Recover, Bootstrap, Reply, ListResources, RefuseQuery, RejectOperation, SendQuery,
     BackendRuns, BackendReply, BackendAnswers, BackendFails, RecordOK, RecordFails,
     RecordSkipped
<1> QED
  BY <1>1, <1>2, <1>3, Steps

LEMMA StepAdvances == IInv /\ [Next]_vars => HandlersAdvance
<1> SUFFICES ASSUME IInv, [Next]_vars, NEW q \in Requests PROVE Advances(q)
  BY DEF HandlersAdvance
<1>1. ASSUME /\ pc'[q] = pc[q] /\ req'[q] = req[q] /\ claims'[q] = claims[q]
             /\ outcome'[q] = outcome[q] /\ answer'[q] = answer[q]
             /\ backend'[q] = backend[q]
      PROVE  Advances(q)
  <2>1. ClientGone(q) => ~Answered(q)
    BY DEF ClientGone, Answered
  <2> QED
    BY <1>1, <2>1, GoneFrame DEF Advances, Answered
<1>2. CASE ProcessStep \/ UNCHANGED vars
  <2>1. UNCHANGED <<pc, req, claims, outcome, answer, backend>>
    BY <1>2, ProcessStepFrame DEF vars, handlers
  <2> QED
    BY <1>1, <2>1
<1> QED
  BY <1>1, <1>2, Steps, OwnStepAdvances, OthersUntouched

\* Every handler only goes forward, so a request takes at most six steps of its
\* own, and what it was answered is final.  (That it takes those steps is
\* RequestAnswered, which is model-checked.)
THEOREM RequestsOnlyAdvance == Spec => [][HandlersAdvance]_vars
<1>1. IInv /\ [Next]_vars => [HandlersAdvance]_vars
  BY StepAdvances
<1> QED
  BY <1>1, PipelineInvariant, PTL DEF Spec

-----------------------------------------------------------------------------
(* The rules of the policy, and what a caller sees of them                 *)

\* The rules of two groups give their bearer what either gives alone, no more and
\* no less, in Check as in AllowedResources: the rules only ever add up, and no
\* combination of groups takes a right away or makes a new one.
THEOREM GroupsAddUp ==
    ASSUME NEW rules, NEW these, NEW those
    PROVE  /\ \A resource, permission :
                 Check(rules, these \cup those, resource, permission) <=>
                    \/ Check(rules, these, resource, permission)
                    \/ Check(rules, those, resource, permission)
           /\ \A configured :
                 Listed(AllowedResources(rules, these \cup those), configured) =
                    Listed(AllowedResources(rules, these), configured)
                       \cup Listed(AllowedResources(rules, those), configured)
<1>1. RulesFor(rules, these \cup those) = RulesFor(rules, these) \cup RulesFor(rules, those)
  BY DEF RulesFor
<1>2. AllowedResources(rules, these \cup those)
        = AllowedResources(rules, these) \cup AllowedResources(rules, those)
  BY <1>1 DEF AllowedResources
<1>3. ASSUME NEW resource, NEW permission
      PROVE  Check(rules, these \cup those, resource, permission) <=>
                \/ Check(rules, these, resource, permission)
                \/ Check(rules, those, resource, permission)
  BY <1>1 DEF Check
<1>4. ASSUME NEW configured
      PROVE  Listed(AllowedResources(rules, these \cup those), configured) =
                Listed(AllowedResources(rules, these), configured)
                   \cup Listed(AllowedResources(rules, those), configured)
  BY <1>2 DEF Listed, ResourceMatches
<1> QED
  BY <1>3, <1>4

\* AllowedResources asks for no permission and Check does: when every rule gives
\* "read" the two agree, and the listing is exactly what the caller may read.
LEMMA ListedIsChecked ==
    ASSUME NEW rules, NEW groups, NEW configured, NEW permission,
           \A rule \in rules : permission \in rule.permissions
    PROVE  Listed(AllowedResources(rules, groups), configured)
             = {name \in configured : Check(rules, groups, name, permission)}
<1>1. ASSUME NEW name \in Listed(AllowedResources(rules, groups), configured)
      PROVE  name \in configured /\ Check(rules, groups, name, permission)
  <2>1. ResourceMatches(AllowedResources(rules, groups), name)
    BY <1>1 DEF Listed
  <2>2. PICK rule \in RulesFor(rules, groups) : ResourceMatches(rule.resources, name)
    BY <2>1 DEF AllowedResources, ResourceMatches
  <2>3. permission \in rule.permissions
    BY <2>2 DEF RulesFor
  <2> QED
    BY <1>1, <2>2, <2>3 DEF Check, Listed
<1> QED
  BY <1>1, CheckedIsListed

\* list_resources tells a caller no more than it may use: every listing is exactly
\* what the caller's token lets it read, when every rule of the policy gives
\* "read".  A rule without "read" is the only way to be shown a resource that the
\* query tools refuse.
ReadsEverywhere == \A rule \in Rules : "read" \in rule.permissions

ListingsExact ==
    \A l \in Requests :
        Answered(l) /\ ListCall(l) /\ answer[l].status = "ok" =>
            answer[l].names =
               {name \in Names : MayRead([subject |-> req[l].subject, resource |-> name])}

\* The list_resources tool shows what the query tools grant, and only that, for any
\* policy whose rules all give "read".
THEOREM ListingsAreExact ==
    ASSUME ReadsEverywhere
    PROVE  Spec => []ListingsExact
<1>1. IInv /\ Responses => ListingsExact
  <2> SUFFICES ASSUME IInv, Responses, NEW l \in Requests, Answered(l), ListCall(l),
                      answer[l].status = "ok"
               PROVE  answer[l].names = {name \in Names :
                         MayRead([subject |-> req[l].subject, resource |-> name])}
    BY DEF ListingsExact
  <2>1. Identified(l) /\ answer[l].names = ListingOf(Groups(l))
    <3>1. ResponseOf(l)
      BY DEF Responses
    <3> QED
      BY <3>1 DEF ResponseOf
  <2>2. Groups(l) = GroupsOf[req[l].subject]
    <3>1. req[l] \in HttpRequest
      BY RequestAssumption DEF IInv, TypeOK
    <3>2. req[l].subject # NoClaims
      BY <3>1, ConfigAssumption DEF HttpRequest
    <3> QED
      BY <2>1, <3>2 DEF Groups, Identified
  <2>3. ListingOf(Groups(l))
          = {name \in Names : Check(Rules, GroupsOf[req[l].subject], name, "read")}
    BY <2>2, ListedIsChecked DEF ListingOf, ReadsEverywhere
  <2>4. ASSUME NEW name
        PROVE  MayRead([subject |-> req[l].subject, resource |-> name])
                 <=> Check(Rules, GroupsOf[req[l].subject], name, "read")
    BY DEF MayRead, Check, RulesFor, ResourceMatches, Wildcard
  <2> QED
    BY <2>1, <2>3, <2>4
<1> QED
  BY <1>1, PipelineInvariant, ResponsesInvariant, PTL

==============================================================================
