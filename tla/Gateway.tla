------------------------------- MODULE Gateway -------------------------------
(***************************************************************************)
(* The running gateway: the HTTP requests it serves, from the recovery     *)
(* middleware down to the backend and the usage log, and its lifetime,     *)
(* from a listening server to the exit of the process.                     *)
(*                                                                         *)
(*   internal/server   routing, authMiddleware, recoveryMiddleware, Start  *)
(*   internal/mcp      the list_resources and query tool handlers          *)
(*   internal/metering Record                                              *)
(*   cmd/...           the deferred closes of the serve command            *)
(*                                                                         *)
(* net/http runs one goroutine per request, so the steps of different      *)
(* requests interleave freely with each other and with the shutdown.  The  *)
(* steps of one request are cut where another goroutine, the backend, the  *)
(* client or the database can get in between.                              *)
(***************************************************************************)
EXTENDS Integers, Sequences, FiniteSets, Rbac, Backends

CONSTANTS
    Requests,       \* identities of HTTP requests
    HttpRequests,   \* what a request may contain
    Subjects,       \* subjects of the tokens the identity provider issues
    GroupsOf,       \* the groups claim of a subject's tokens
    Rules,          \* auth.rbac of the configuration
    Configs,        \* resources of the configuration, by name
    Authn,          \* how startup may have left the authenticator,
    Metering,       \* the usage database
    Tunnels,        \* and the tunnel: subsets of the states of these variables
    StoreFaults,    \* SQLite may fail an insert by itself (disk, SQLITE_BUSY)
    Hanging,        \* resources whose backend may never answer
    NoClaims        \* the request context holds no claims

Names == DOMAIN Configs

\* One HTTP request.  "header" says what the Authorization header holds; a
\* bearer token has a subject and is valid or not.  "tool" is the MCP tool of
\* a POST to /mcp: the four query tools share one handler and are one tool
\* here.  "" is an argument that is missing.
HttpRequest ==
    [route     : {"/mcp", "/api/bootstrap", "/health", "/device"},
     header    : {"absent", "malformed", "bearer"},
     subject   : Subjects,
     valid     : BOOLEAN,
     tool      : {"list_resources", "query"},
     resource  : STRING,
     operation : STRING,
     args      : SUBSET STRING]

ASSUME RequestAssumption ==
    /\ \A h \in HttpRequests : h \in HttpRequest
    /\ IsFiniteSet(Requests)
    /\ HttpRequests # {}

ASSUME ConfigAssumption ==
    /\ \A n \in Names : n # "" /\ Configs[n].type \in DOMAIN Requires
    /\ Hanging \subseteq Names
    /\ NoClaims \notin Subjects

ASSUME StartupAssumption ==
    /\ Authn \subseteq {"ready", "nil"}
    /\ Metering \subseteq {"off", "open"} /\ Tunnels \subseteq {"off", "open"}
    /\ StoreFaults \in BOOLEAN

VARIABLES
    authn,      \* the OIDC authenticator, nil when startup could not create it
    errCh,      \* ListenAndServe failed and its error is in errCh
    ctxDone,    \* the first SIGINT or SIGTERM cancelled the context
    start,      \* where Server.Start is, or how it returned
    meter,      \* the usage database
    closed,     \* the resources mgr.Close has closed
    tunnel,     \* the WireGuard device
    exited,     \* the process is gone
    pc,         \* where the handler of a request is
    req,        \* the request
    claims,     \* the claims in its context
    outcome,    \* what Execute returned
    answer,     \* the response
    gone,       \* requests whose client went away: their context is cancelled
    backend,    \* what became of the operation: not sent, sent, or carried out
    usage_log,  \* the table of internal/metering
    meterErrors \* requests that logged "failed to record metering"

server   == <<authn, errCh, ctxDone, start, meter, closed, tunnel, exited>>
handlers == <<pc, req, claims, outcome, answer, gone, backend>>
records  == <<usage_log, meterErrors>>
vars     == <<server, handlers, records>>

NoAnswer == [status |-> "none", names |-> {}]
Status(s) == [status |-> s, names |-> {}]

Init ==
    /\ authn \in Authn
    /\ errCh = FALSE
    /\ ctxDone = FALSE
    /\ start = "serving"
    /\ meter \in Metering
    /\ closed = {}
    /\ tunnel \in Tunnels
    /\ exited = FALSE
    /\ pc = [r \in Requests |-> "idle"]
    /\ req = [r \in Requests |-> CHOOSE h \in HttpRequests : TRUE]
    /\ claims = [r \in Requests |-> NoClaims]
    /\ outcome = [r \in Requests |-> "none"]
    /\ answer = [r \in Requests |-> NoAnswer]
    /\ gone = {}
    /\ backend = [r \in Requests |-> "not sent"]
    /\ usage_log = <<>>
    /\ meterErrors = {}

-----------------------------------------------------------------------------
(* The HTTP layer                                                          *)

\* The handler of r runs: it is at the given point and its process is alive.
At(r, point) == pc[r] = point /\ ~exited

\* The handler of r has its response and goes on to write it.
Respond(r, response) ==
    /\ pc' = [pc EXCEPT ![r] = "reply"]
    /\ answer' = [answer EXCEPT ![r] = response]

\* A request reaches the mux.  While the server drains, a connection that was
\* accepted before can still deliver one; once Shutdown returned nil none is
\* left, and after a timeout or a failed listener the connections live on.
Arrive(r) ==
    /\ At(r, "idle") /\ start # "drained"
    /\ \E h \in HttpRequests : req' = [req EXCEPT ![r] = h]
    /\ pc' = [pc EXCEPT ![r] = "routed"]
    /\ UNCHANGED <<claims, outcome, answer, gone, backend, server, records>>

Authed(r) == req[r].route \in {"/mcp", "/api/bootstrap"}

\* healthHandler and deviceVerificationPage.
ServePage(r) ==
    /\ At(r, "routed") /\ ~Authed(r)
    /\ Respond(r, Status("ok"))
    /\ UNCHANGED <<req, claims, outcome, gone, backend, server, records>>

\* authMiddleware: no header, not a bearer header, or an empty token.
RejectHeader(r) ==
    /\ At(r, "routed") /\ Authed(r)
    /\ req[r].header # "bearer"
    /\ Respond(r, Status("401"))
    /\ UNCHANGED <<req, claims, outcome, gone, backend, server, records>>

\* authMiddleware: VerifyToken returned the claims of the token.
VerifyOK(r) ==
    /\ At(r, "routed") /\ Authed(r)
    /\ req[r].header = "bearer" /\ authn = "ready" /\ req[r].valid
    /\ claims' = [claims EXCEPT ![r] = req[r].subject]
    /\ pc' = [pc EXCEPT ![r] = "handler"]
    /\ UNCHANGED <<req, outcome, answer, gone, backend, server, records>>

\* authMiddleware: VerifyToken failed, for a bad token, or for a good one when
\* the keys of the provider cannot be fetched.
VerifyFails(r) ==
    /\ At(r, "routed") /\ Authed(r)
    /\ req[r].header = "bearer" /\ authn = "ready"
    /\ Respond(r, Status("401"))
    /\ UNCHANGED <<req, claims, outcome, gone, backend, server, records>>

\* authMiddleware calls VerifyToken on a nil Authenticator.
VerifyPanics(r) ==
    /\ At(r, "routed") /\ Authed(r)
    /\ req[r].header = "bearer" /\ authn = "nil"
    /\ pc' = [pc EXCEPT ![r] = "panic"]
    /\ UNCHANGED <<req, claims, outcome, answer, gone, backend, server,
                   records>>

\* recoveryMiddleware turns a panic into a 500.
Recover(r) ==
    /\ At(r, "panic")
    /\ Respond(r, Status("500"))
    /\ UNCHANGED <<req, claims, outcome, gone, backend, server, records>>

\* bootstrapHandler: the version data, and an empty list of resources.
Bootstrap(r) ==
    /\ At(r, "handler") /\ req[r].route = "/api/bootstrap"
    /\ Respond(r, Status("ok"))
    /\ UNCHANGED <<req, claims, outcome, gone, backend, server, records>>

\* The response is written and the goroutine ends.
Reply(r) ==
    /\ At(r, "reply")
    /\ pc' = [pc EXCEPT ![r] = "done"]
    /\ UNCHANGED <<req, claims, outcome, answer, gone, backend, server,
                   records>>

\* The client closes the connection: net/http cancels the request's context,
\* which nothing looks at any more once there is a response.
ClientGone(r) ==
    /\ ~exited /\ pc[r] \notin {"idle", "reply", "done"} /\ r \notin gone
    /\ gone' = gone \cup {r}
    /\ UNCHANGED <<pc, req, claims, outcome, answer, backend, server, records>>

-----------------------------------------------------------------------------
(* The tool handlers                                                       *)

Groups(r) == IF claims[r] = NoClaims THEN {} ELSE GroupsOf[claims[r]]

Calls(r, tool) ==
    At(r, "handler") /\ req[r].route = "/mcp" /\ req[r].tool = tool

\* makeListResourcesHandler.
ListResources(r) ==
    /\ Calls(r, "list_resources")
    /\ LET allowed == AllowedResources(Rules, Groups(r)) IN
       Respond(r, [status |-> "ok", names |-> Listed(allowed, Names)])
    /\ UNCHANGED <<req, claims, outcome, gone, backend, server, records>>

\* makeQueryHandler, steps 2 to 5: both arguments are there, the caller may
\* read the resource, and the resource exists.
Granted(r) ==
    /\ req[r].resource # "" /\ req[r].operation # ""
    /\ Check(Rules, Groups(r), req[r].resource, "read")
    /\ req[r].resource \in Names

\* Any of these checks fails: the tool error is returned, nothing is recorded.
RefuseQuery(r) ==
    /\ Calls(r, "query") /\ ~Granted(r)
    /\ Respond(r, Status("tool error"))
    /\ UNCHANGED <<req, claims, outcome, gone, backend, server, records>>

\* A plausible bug in the handler: the early return on an error comes before
\* the metering step.
ExecutedErrorUnmetered(r, result) ==
    /\ outcome' = [outcome EXCEPT ![r] = result]
    /\ IF result = "ok"
       THEN pc' = [pc EXCEPT ![r] = "record"] /\ UNCHANGED answer
       ELSE Respond(r, Status("tool error"))

\* Execute returned: its error or result goes to the metering step.
Executed(r, result) ==
    /\ outcome' = [outcome EXCEPT ![r] = result]
    /\ pc' = [pc EXCEPT ![r] = "record"] /\ UNCHANGED answer

Admits(r) ==
    Admitted(Configs[req[r].resource], req[r].operation, req[r].args)

\* A client that was closed returns an error.  Closing the Elasticsearch
\* resource does nothing.
Usable(name) == name \notin closed \/ Configs[name].type = "elasticsearch"

\* Execute fails before anything is sent.
RejectOperation(r) ==
    /\ Calls(r, "query") /\ Granted(r)
    /\ ~(Admits(r) /\ Usable(req[r].resource))
    /\ Executed(r, "error")
    /\ UNCHANGED <<req, claims, gone, backend, server, records>>

\* Execute passes its checks and hands the operation to the client library.
SendQuery(r) ==
    /\ Calls(r, "query") /\ Granted(r)
    /\ Admits(r) /\ Usable(req[r].resource)
    /\ pc' = [pc EXCEPT ![r] = "execute"]
    /\ backend' = [backend EXCEPT ![r] = "sent"]
    /\ UNCHANGED <<req, claims, outcome, answer, gone, server, records>>

\* The backend carries out the operation.  It is another process: it may do so
\* when the client library gave up, or when the gateway is gone already.
BackendRuns(r) ==
    /\ backend[r] = "sent"
    /\ backend' = [backend EXCEPT ![r] = "ran"]
    /\ UNCHANGED <<pc, req, claims, outcome, answer, gone, server, records>>

BackendAnswers(r) ==
    /\ At(r, "execute") /\ backend[r] = "ran"
    /\ Executed(r, "ok")
    /\ UNCHANGED <<req, claims, gone, backend, server, records>>

\* A plausible bug in the handler: an operation that failed is executed again.
BackendFailsRetried(r) ==
    /\ At(r, "execute")
    /\ backend' = [backend EXCEPT ![r] = "sent"]
    /\ UNCHANGED <<pc, req, claims, outcome, answer, gone, server, records>>

\* The client library returns an error: the backend's own, a lost connection,
\* a cancelled context, an undecodable reply.  The operation may have run.
BackendFails(r) ==
    /\ At(r, "execute")
    /\ Executed(r, "error")
    /\ UNCHANGED <<req, claims, gone, backend, server, records>>

-----------------------------------------------------------------------------
(* Metering, and the answer to a query                                     *)

\* A plausible bug in the entry: the row is written as a success whatever
\* Execute returned.
UsageRowAlwaysSuccess(r) ==
    [call |-> r, user_id |-> claims[r], resource |-> req[r].resource,
     operation |-> req[r].operation, success |-> TRUE]

\* The row Record inserts.  The operation is recorded as it was submitted,
\* not as Execute lower-cased it.  "call" is no column: it says which request
\* the row is of.
UsageRow(r) ==
    [call |-> r, user_id |-> claims[r], resource |-> req[r].resource,
     operation |-> req[r].operation, success |-> outcome[r] = "ok"]

\* Steps 9 and 10 of makeQueryHandler: a result goes out when Execute
\* succeeded and json.Marshal accepts it, which NaN for one it does not.
QueryAnswers(r) ==
    IF outcome[r] = "ok" THEN {Status("result"), Status("tool error")}
                         ELSE {Status("tool error")}

RespondToQuery(r) == \E response \in QueryAnswers(r) : Respond(r, response)

Insert(r) == usage_log' = Append(usage_log, UsageRow(r))

\* Record inserts the row.  A context that was cancelled by then fails the call
\* before database/sql takes a connection.
RecordOK(r) ==
    /\ At(r, "record") /\ meter = "open" /\ r \notin gone
    /\ Insert(r)
    /\ RespondToQuery(r)
    /\ UNCHANGED <<req, claims, outcome, gone, backend, server, meterErrors>>

\* A plausible bug in the handler: it tries again until Record succeeds.
RecordFailsRetried(r) ==
    /\ At(r, "record")
    /\ meter = "closed" \/ (meter = "open" /\ (r \in gone \/ StoreFaults))
    /\ meterErrors' = meterErrors \cup {r}
    /\ UNCHANGED <<handlers, server, usage_log>>

\* Record returns an error, which the handler logs and leaves at that.  A row
\* can be there all the same when the client went away during the insert.
RecordFails(r) ==
    /\ At(r, "record")
    /\ meter = "closed" \/ (meter = "open" /\ (r \in gone \/ StoreFaults))
    /\ \/ UNCHANGED usage_log
       \/ meter = "open" /\ r \in gone /\ Insert(r)
    /\ meterErrors' = meterErrors \cup {r}
    /\ RespondToQuery(r)
    /\ UNCHANGED <<req, claims, outcome, gone, backend, server>>

\* Without a meter the step is skipped.
RecordSkipped(r) ==
    /\ At(r, "record") /\ meter = "off"
    /\ RespondToQuery(r)
    /\ UNCHANGED <<req, claims, outcome, gone, backend, server, records>>

-----------------------------------------------------------------------------
(* The lifetime of the process                                             *)

\* A plausible bug in Start: it leaves Shutdown to a goroutine and returns as
\* soon as the context is cancelled.
StartReturnedEarly == start # "serving"

\* Start returned, and the deferred calls of the serve command run.
StartReturned == start \in {"drained", "timedout", "failed"}

\* A SIGINT or SIGTERM.  The first cancels the context of Start, later ones
\* change nothing until Start returned: stop() runs before the closes and
\* gives signals back their default action, which ends the process.
Signal ==
    /\ ~exited
    /\ \/ ~StartReturned /\ ~ctxDone /\ ctxDone' = TRUE /\ exited' = FALSE
       \/ StartReturned /\ exited' = TRUE /\ UNCHANGED ctxDone
    /\ UNCHANGED <<authn, errCh, start, meter, closed, tunnel, handlers,
                   records>>

\* ListenAndServe returns an error other than ErrServerClosed.
ListenerFails ==
    /\ ~exited /\ start = "serving" /\ ~errCh
    /\ errCh' = TRUE
    /\ UNCHANGED <<authn, ctxDone, start, meter, closed, tunnel, exited,
                   handlers, records>>

Start(next) ==
    /\ start' = next
    /\ UNCHANGED <<authn, errCh, ctxDone, meter, closed, tunnel, exited,
                   handlers, records>>

\* The select of Start; when both cases are ready it takes either.
StartFails == ~exited /\ start = "serving" /\ errCh /\ Start("failed")
StartDrains == ~exited /\ start = "serving" /\ ctxDone /\ Start("draining")

\* Shutdown returns nil once every connection is idle.
InFlight == {r \in Requests : pc[r] \notin {"idle", "done"}}
Drained == ~exited /\ start = "draining" /\ InFlight = {} /\ Start("drained")

\* A plausible bug in Start: Shutdown gets a context without a deadline.
DrainNeverTimesOut == FALSE

\* Or Shutdown returns the error of its context, which lasts 15 s.
DrainTimesOut == ~exited /\ start = "draining" /\ Start("timedout")

\* The deferred calls of the serve command, last in first out: the meter, the
\* resources, the tunnel.
CloseMeter ==
    /\ ~exited /\ StartReturned /\ meter = "open"
    /\ meter' = "closed"
    /\ UNCHANGED <<authn, errCh, ctxDone, start, closed, tunnel, exited,
                   handlers, records>>

\* One round of mgr.Close, whose map order is arbitrary.  No client waits for the
\* calls in progress: they go on, and end with an error if they need a connection
\* that is closed under them.
CloseResource(name) ==
    /\ ~exited /\ StartReturned /\ meter # "open" /\ name \notin closed
    /\ closed' = closed \cup {name}
    /\ UNCHANGED <<authn, errCh, ctxDone, start, meter, tunnel, exited,
                   handlers, records>>

\* A plausible bug in the serve command: the tunnel's close is deferred last,
\* so that it runs first.
CloseTunnelFirst ==
    /\ ~exited /\ StartReturned /\ tunnel = "open"
    /\ tunnel' = "closed"
    /\ UNCHANGED <<authn, errCh, ctxDone, start, meter, closed, exited,
                   handlers, records>>

\* tun.Close, deferred first and so the last to run.
CloseTunnel ==
    /\ ~exited /\ StartReturned /\ meter # "open" /\ closed = Names
    /\ tunnel = "open"
    /\ tunnel' = "closed"
    /\ UNCHANGED <<authn, errCh, ctxDone, start, meter, closed, exited,
                   handlers, records>>

\* main returns and every goroutine ends where it is.
Exit ==
    /\ ~exited /\ StartReturned
    /\ meter # "open" /\ closed = Names /\ tunnel # "open"
    /\ exited' = TRUE
    /\ UNCHANGED <<authn, errCh, ctxDone, start, meter, closed, tunnel,
                   handlers, records>>

\* Nothing is left to happen after the process ended.
Ended == exited /\ UNCHANGED vars

-----------------------------------------------------------------------------

\* The steps the goroutine of r takes by itself, and the returns of the backend
\* call it waits for.
HandlerStep(r) ==
    \/ ServePage(r) \/ RejectHeader(r) \/ VerifyOK(r) \/ VerifyFails(r)
    \/ VerifyPanics(r) \/ Recover(r) \/ Bootstrap(r) \/ ListResources(r)
    \/ RefuseQuery(r) \/ RejectOperation(r) \/ SendQuery(r)
    \/ RecordOK(r) \/ RecordFails(r) \/ RecordSkipped(r) \/ Reply(r)
BackendReply(r) == BackendAnswers(r) \/ BackendFails(r)

Closing ==
    CloseMeter \/ CloseTunnel \/ Exit \/ \E name \in Names : CloseResource(name)

Next ==
    \/ \E r \in Requests :
          \/ Arrive(r) \/ ClientGone(r) \/ HandlerStep(r)
          \/ BackendRuns(r) \/ BackendReply(r)
    \/ Signal \/ ListenerFails \/ StartFails \/ StartDrains
    \/ Drained \/ DrainTimesOut \/ Closing \/ Ended

Spec == Init /\ [][Next]_vars

\* Disconnect of a MongoDB client ends its sessions at the server first, with a
\* context that has no deadline: it need not return when the server hangs, and
\* mgr.Close closes nothing more then.
Stalling ==
    {name \in Hanging \ closed : Configs[name].type = "mongodb"}
ClosesReturn ==
    \/ CloseMeter \/ CloseTunnel \/ Exit
    \/ Stalling = {} /\ \E name \in Names : CloseResource(name)

\* A goroutine that can run does; a backend that does not hang answers in the
\* end; the timer of Shutdown fires; the closes return.  Nothing is promised
\* of clients, signals, or a backend that hangs.
Fairness ==
    /\ \A r \in Requests :
          /\ WF_vars(HandlerStep(r))
          /\ WF_vars(BackendReply(r) /\ req[r].resource \notin Hanging)
    /\ WF_vars(StartFails \/ StartDrains)
    /\ WF_vars(Drained \/ DrainTimesOut)
    /\ WF_vars(ClosesReturn)

FairSpec == Spec /\ Fairness

-----------------------------------------------------------------------------
(* Types                                                                   *)

Points ==
    {"idle", "routed", "panic", "handler", "execute", "record", "reply", "done"}
Answers ==
    [status : {"none", "ok", "401", "500", "tool error", "result"},
     names : SUBSET Names]
Rows ==
    [call : Requests, user_id : Subjects, resource : Names, operation : STRING,
     success : BOOLEAN]

\* The state is well formed: in particular a row always names a subject, never
\* absent claims, and a configured resource.
TypeOK ==
    /\ {errCh, ctxDone, exited} \subseteq BOOLEAN
    /\ authn \in {"ready", "nil"}
    /\ start \in {"serving", "draining", "drained", "timedout", "failed"}
    /\ {meter, tunnel} \subseteq {"off", "open", "closed"}
    /\ closed \subseteq Names
    /\ pc \in [Requests -> Points]
    /\ req \in [Requests -> HttpRequests]
    /\ claims \in [Requests -> Subjects \cup {NoClaims}]
    /\ outcome \in [Requests -> {"none", "ok", "error"}]
    /\ answer \in [Requests -> Answers]
    /\ gone \subseteq Requests
    /\ backend \in [Requests -> {"not sent", "sent", "ran"}]
    /\ usage_log \in Seq(Rows)
    /\ meterErrors \subseteq Requests

-----------------------------------------------------------------------------
(* Safety                                                                  *)

Answered(r) == pc[r] \in {"reply", "done"}
Recorded == {usage_log[i].call : i \in DOMAIN usage_log}

\* What the token and the configuration say of a query, whatever the code does:
\* a verified subject, one rule that gives one of its groups "read" on the
\* resource, and an operation that is on the resource's list.
Verified(h) == authn = "ready" /\ h.header = "bearer" /\ h.valid

MayRead(h) ==
    \E rule \in Rules :
        /\ rule.group \in GroupsOf[h.subject]
        /\ rule.resources \cap {h.resource, "*"} # {}
        /\ "read" \in rule.permissions

MayPerform(h) ==
    LET listed == Configs[h.resource].allowedOps IN
    listed # {} => \E op \in listed : Lower(op) = Lower(h.operation)

\* An operation leaves the gateway only for a subject that may have it.
\* (authMiddleware, makeQueryHandler, Check and isOpAllowed.)
SentOnlyWhenGranted ==
    \A r \in Requests : backend[r] # "not sent" =>
        /\ Verified(req[r])
        /\ MayRead(req[r])
        /\ req[r].resource \in Names /\ MayPerform(req[r])

\* And nobody is turned away for nothing: a query that got a tool error without
\* being sent has a fault of its own, or met a resource that was closed under
\* it, which no clean shutdown does.
RefusedOnlyForCause ==
    \A r \in Requests :
        Answered(r) /\ answer[r].status = "tool error" /\ backend[r] = "not sent" =>
            LET h == req[r] IN
            \/ ~MayRead(h) \/ h.operation = "" \/ h.resource \notin Names
            \/ ~MayPerform(h)
            \/ LET required == Requires[Configs[h.resource].type] IN
               \/ Lower(h.operation) \notin DOMAIN required
               \/ ~(required[Lower(h.operation)] \subseteq h.args)
            \/ h.resource \in closed /\ start \in {"timedout", "failed"}

\* Every row tells the truth about its call: whose token it came with, what it
\* asked for, whether Execute succeeded, and then that the backend did run it.
\* No call has two rows.
RowsFaithful ==
    \A i \in DOMAIN usage_log :
        LET row == usage_log[i]
            r   == row.call IN
        /\ row.user_id = req[r].subject /\ req[r].valid
        /\ row.resource = req[r].resource /\ row.operation = req[r].operation
        /\ row.success <=> outcome[r] = "ok"
        /\ row.success => backend[r] = "ran"
        /\ \A j \in DOMAIN usage_log : usage_log[j].call = r => i = j

\* With a meter, every query that got past authorization is accounted for when
\* it is answered, also when it failed: it has its row, or the log line that
\* it has none.  Refused calls have neither, and only a call whose client went
\* away can have both.
Accounted ==
    \A r \in Requests :
        /\ meter # "off" /\ Answered(r) /\ outcome[r] # "none"
              => r \in Recorded \cup meterErrors
        /\ r \in Recorded \cup meterErrors => Answered(r) /\ outcome[r] # "none"
        /\ r \in Recorded \cap meterErrors => r \in gone

\* The order of the shutdown loses no row: when Shutdown returned nil, every
\* operation that was sent has its row, unless its own client went away or the
\* database failed the insert.  (Start, and the deferred closes after it.)
DrainLosesNoRow ==
    start = "drained" /\ meter # "off" /\ ~StoreFaults =>
        \A r \in Requests : backend[r] # "not sent" => r \in Recorded \cup gone

\* list_resources and the query tools agree: a resource a subject got an
\* operation through to is in every list that subject gets.
ListingComplete ==
    \A q, l \in Requests :
        /\ backend[q] # "not sent"
        /\ Answered(l) /\ req[l].route = "/mcp" /\ req[l].tool = "list_resources"
        /\ answer[l].status = "ok" /\ req[l].subject = req[q].subject
        => req[q].resource \in answer[l].names

\* Nobody waits for a call but Start, and the closes come from above: a call loses
\* its client only after Start gave up on it and the meter is closed, and the
\* tunnel only after its client.  (Start, and the deferred closes after it.)
ClosesSpareCalls ==
    \A r \in Requests : pc[r] = "execute" =>
        /\ req[r].resource \in closed =>
               start \in {"timedout", "failed"} /\ meter # "open"
        /\ tunnel = "closed" => req[r].resource \in closed

-----------------------------------------------------------------------------
(* Liveness                                                                *)

\* A request is answered whatever its token, the backend, the database and
\* its client do, unless its backend hangs or the process ends first.
RequestAnswered ==
    \A r \in Requests :
        pc[r] = "routed" /\ req[r].resource \notin Hanging
            ~> pc[r] = "done" \/ exited

\* A signal ends the process, whatever calls hang.  Only a Disconnect that does not
\* return can hold it, and then the meter is closed: no row waits for it.
HeldByDisconnect == StartReturned /\ meter # "open" /\ Stalling # {}
SignalExits == (ctxDone ~> exited) \/ <>[]HeldByDisconnect

-----------------------------------------------------------------------------
(* The abstract specification                                              *)

Stage(r) == CASE pc[r] = "idle" -> "new"
              [] Answered(r) -> "settled"
              [] OTHER -> "submitted"
Clearance(r) ==
    IF ~(Verified(req[r]) /\ MayRead(req[r]) /\ req[r].resource \in Names) THEN "none"
    ELSE IF MayPerform(req[r]) THEN "operation" ELSE "resource"
ReplyTo(r) == IF answer[r].status = "none" THEN "none"
              ELSE IF outcome[r] = "none" THEN "declined"
              ELSE IF answer[r].status = "result" THEN "result" ELSE "error"
RowsOf(r) ==
    {usage_log[i].success : i \in {j \in DOMAIN usage_log : usage_log[j].call = r}}

stages     == [r \in Requests |-> Stage(r)]
clearances == [r \in Requests |-> Clearance(r)]
replies    == [r \in Requests |-> ReplyTo(r)]
rows       == [r \in Requests |-> RowsOf(r)]

Contract == INSTANCE QueryContract WITH
    stage <- stages, clearance <- clearances, effect <- backend, reply <- replies

\* The gateway keeps the contract, whatever goroutines, backends, clients and the
\* shutdown do in between: it hands an operation over at most once, gives one reply
\* and writes at most one row, both of which tell the truth of the effect, and does
\* none of it for a query it declined.
KeepsContract == Contract!Spec

Phase == IF exited THEN "over" ELSE IF StartReturned THEN "stopping" ELSE "serving"

Life == INSTANCE Lifecycle WITH
    Clients <- Names, phase <- Phase, tunnel <- tunnel = "open",
    clients <- Names \ closed, meter <- meter = "open"

\* From where Startup leaves off, the gateway keeps the lifecycle too: nothing
\* closes while it serves or drains, and then in the order of the layers.
KeepsLifecycle == Life!Serving /\ [][Life!Next]_(Life!vars)

-----------------------------------------------------------------------------
(* What the documentation says of the program, and the code does not do    *)

\* README.md, Usage Metering: "All queries are recorded in a local SQLite
\* database".
QueriesRecorded ==
    \A r \in Requests : pc[r] = "done" /\ backend[r] = "ran" => r \in Recorded

\* internal/server/middleware.go, authMiddleware: "Requests without a valid
\* token receive a 401 Unauthorized response."
InvalidTokenGets401 ==
    \A r \in Requests :
        /\ pc[r] = "done" /\ Authed(r)
        /\ ~(req[r].header = "bearer" /\ req[r].valid)
        => answer[r].status = "401"

\* README.md, Read-Only Mode: "Resources can be locked to read-only access to
\* protect data integrity."
ReadOnlyHonoured ==
    \A r \in Requests : backend[r] = "ran" =>
        LET resource == Configs[req[r].resource] IN
        resource.readOnly => Lower(req[r].operation) \notin Mutating(resource.type)

=============================================================================
