# A verification of Agent MCP Gateway

TLA+ modules for the gateway in `src/`, the TLC configurations that check them
on small instances, and proofs that TLAPS checks for all instances. `PROJECT.json`
maps every definition to the lines it stands for. Names follow the code.

Check a run with `tlc -config gateway_safety.cfg MCGateway.tla`, the proofs of a
module with `tlapm GatewayProofs.tla`.

## The system

The gateway is one Go process. AI agents send it HTTP requests with a bearer
token; it runs operations on Redis, MongoDB, MySQL and Elasticsearch for those
whom the configuration allows to, through a WireGuard tunnel when one is
configured, and writes a row per operation to a SQLite database. A second
command, `connect`, runs on the agent's machine: it obtains a token and proxies.

| Part | State | Operations | Correct when |
|---|---|---|---|
| HTTP server, `internal/server` | the listener, `errCh`, requests in flight | route, authenticate, recover from a panic, `Start` with its drain | every request gets its answer; a signal leads to the end |
| Authentication, `internal/auth/auth.go` | the OIDC verifier, or nil | `VerifyToken`, claims in the context | nothing runs without a verified subject |
| Authorization, `internal/auth/rbac.go` | the rules, constant | `Check`, `AllowedResources` | one rule grants group, resource and permission together |
| MCP tools, `internal/mcp` | none of their own | `list_resources`, the query tools, `get_usage` | checks precede execution; listings agree with the checks |
| Resource manager, `internal/resources/resource.go` | the clients by name | `NewManager`, `Get`, `List`, `Close`, `isOpAllowed` | no client is lost, none is used after `Close` without an error |
| Backends, `redis.go`, `mongo.go`, `mysql.go`, `es.go` | a client library's pool | `Execute`, `Close` | only listed operations with their arguments are sent |
| Metering, `internal/metering` | table `usage_log` | `Record`, `GetUsage`, `Close` | rows are true, single and not lost |
| Tunnel, `internal/tunnel` | the WireGuard device | `New`, `DialContext`, `Close` | it outlives the clients that dial through it |
| serve command, `cmd/agent-mcp-gateway` | what startup created, deferred closes | startup, signals, closes, exit | closes run in the right order and always |
| Configuration, `internal/config` | none | `Load`, expansion of `${VAR}` | every reference is replaced, and what replaces it is left alone |
| Client, `internal/client` | channels, timers, the token | version check, PKCE flow, device flow, proxy | a flow ends, with a token or with the right error |

How they interact: the middleware puts claims into the request's context; the
tool handlers read them, ask the authorizer and the manager, call `Execute` and
then `Record` **on the same context**, which net/http cancels when the client
goes away. Every request has its goroutine; what they share are the clients, the
database and the process, whose shutdown runs against all of them: a signal
makes `Start` drain for at most 15 s, then the deferred calls close the meter,
the resources and the tunnel, whether or not handlers still run.

What is hard here: operations whose result is lost after they ran; a client that
leaves between `Execute` and `Record`; a drain that times out, after which handlers
meet closed clients; startup that goes on without an authenticator; a `Disconnect`
without a deadline, which waits for a server and not for the calls; access decided in
three places (rule, listing, operation list); statistics read in three statements
while rows come in; an in-memory database that is another one for every connection;
and, on the client, timers, handlers and channels that race for one `select`.
`PROJECT.json` lists these hazards at their lines.

## The modules

| Module | Models | Kind |
|---|---|---|
| `Rbac` | `internal/auth/rbac.go` and the filter of `list_resources` | operators |
| `Backends` | what `Execute` of each backend checks before it sends | operators |
| `Gateway` | requests from the mux to the usage row, and the lifetime of the process; uses `Rbac`, `Backends` | state machine |
| `QueryContract` | what the gateway promises of a query | abstract specification, implemented by `Gateway` |
| `Lifecycle` | in which order the tunnel, the clients and the usage database open and close | abstract specification, implemented by `Startup` and by `Gateway` |
| `Usage` | `Record`, `GetUsage`, the `get_usage` tool and the connection pool | state machine |
| `Config` | `config.Load`: the walk of `expandEnvVars` and the replacement | operators |
| `Startup` | the `serve` command around the server: every step, its failure, the deferred closes; uses `Config` | state machine |
| `RedisScan` | the cursor loop of `execScan` | state machine |
| `Semver` | `CheckVersion`, `compareSemver`, `parseSemver` | operators |
| `Connect` | `Connect`, `Bootstrap`, `StartProxy`; uses `Semver` | state machine |
| `DeviceFlow` | `StartDeviceCodeFlow` | state machine |
| `PkceFlow` | `StartPKCEFlow` with the handlers of its callback server | state machine |

`MC...` is what TLC checks of a module, `...Proofs` what is proved of it;
`GatewayRefinement` proves that `Gateway` implements `QueryContract` and `Lifecycle`.

### Gateway: state and code

A request `r` has a program counter `pc[r]`, cut where another goroutine, the
client, the backend or the database can act in between:

    idle -> routed -> handler -> execute -> record -> reply -> done
              |          |
            panic      (refused calls go to reply, rejected operations to record)

| Variable | Code |
|---|---|
| `authn` | the `auth.Authenticator` of `serveCmd`; `nil` when `NewOIDCAuthenticator` failed or is not configured |
| `errCh`, `ctxDone`, `start` | the two channels of the `select` in `Server.Start`, and where `Start` is |
| `meter`, `closed`, `tunnel`, `exited` | what the deferred calls of `serveCmd` close, and the end of `main` |
| `req`, `claims`, `answer` | the request, the claims in its context, the response |
| `outcome` | `execErr == nil` or not, once `Execute` returned |
| `backend` | what became of the operation at the backend |
| `gone` | requests whose context net/http cancelled |
| `usage_log`, `meterErrors` | the table, and the log line "failed to record metering" |

The actions carry the names of what they do in the code: `RejectHeader`,
`VerifyOK`, `VerifyFails`, `VerifyPanics` are the ways through `authMiddleware`;
`RefuseQuery`, `RejectOperation`, `SendQuery`, `RecordOK`, `RecordFails`,
`RecordSkipped` those through the query handler; `Signal`, `ListenerFails`,
`StartFails`, `StartDrains`, `Drained`, `DrainTimesOut`, `CloseMeter`,
`CloseResource`, `CloseTunnel` and `Exit` the shutdown. External behaviour
appears as nondeterminism: a client leaves at any time before its response is
there, a backend may carry out what it was sent even after the call failed, a
signature check may fail for a good token because the keys cannot be fetched.

What is abstracted: arguments are the set of those that pass their check;
results, error texts, latency and the email of a row are left out; claims are
represented by their subject, and missing claims have no groups, which gives the
answers of the code's nil checks; the four query tools are one, since they share
their handler and the tool's name is not checked against the resource's type.
Logging, TLS, the text of the pages, and the messages of the MCP protocol that
reach no handler of this repository are not modelled.

### The contract of a query

`QueryContract` leaves out goroutines, channels, the order of checks and the
shutdown. A query is submitted, then declined without a trace, or sent at most once
and settled once, with a reply and at most one row. `Gateway` implements it under
the mapping `Stage`, `Clearance`, `backend`, `ReplyTo`, `RowsOf`; the property is
`KeepsContract`. That go-redis or the SQL pool send a command again on a broken
connection is below this level: the contract speaks of what the gateway hands over.

### The lifecycle

`Lifecycle` leaves out everything but what is open: the tunnel below, the clients on
it, the meter on top. They open from below, stay while the server runs and close
from above. `Startup` implements it from the start of the process, with `Phase` read
off `pc`; `Gateway` from the moment the server runs, with `Phase` read off `start`
and `exited`. The two modules overlap in the closes: `Startup` closes all clients in
one step, with no handlers about; `Gateway` closes them one after another under
handlers that still run. `Life!Serving` is where one ends and the other begins.

### Usage: state and code

`usage_log` holds the rows of each database that has the table, `conn` and `idle`
the connections of `database/sql`'s pool, whose limits are the library's (two idle
ones kept, no bound on the open ones). A file is one database; `":memory:"` is one
per connection, which goes when the connection does. `Stamp` is the moment in
`makeQueryHandler` at which the entry gets its time, `AskUsage` that at which
`makeGetUsageHandler` computes its window, and `Acquire` with `Insert`, `Select`,
`NoSuchTable` or `StatementFails` one statement. `before` remembers what had been
recorded when a read began.

Abstracted: a count is the set of the rows it counts, so that it can be compared
with what it should count; `total_bytes` is left out, since nothing ever sets a
row's bytes; days have 24 hours, and the clock does not step back and shows fewer
days than an int can count. An argument that
`int` cannot hold leaves the window open, as Go leaves the conversion open.

### Startup and Config: state and code

`pc` is the step of `RunE` in `serveCmd`, `defers` the stack of its deferred calls,
`device`, `client`, `meter` what it opened. `CreateClient` and `ClientFails` are
rounds of the loop in `NewManager`, in any order, as Go's map iteration; `NewRedis`,
`NewMongo`, `NewMySQL` and `NewES` say what each constructor makes of its setting.
`Killed` is a signal that no context catches: before `NotifyContext`, and after
`stop`. `mgr.Close` is one step here; that it closes one resource after another,
against handlers that still run, is in `Gateway`.

`Config` follows the walk of `expandEnvVars` along the kinds of the values from the
`Config` down to a string. Whether the walk reaches a string it can set is decided
by those kinds: `ExpandEnvVars` and `ExpandMapValue` say where each takes it. The
texts are a few that differ for what reads them; patterns inside longer texts are
replaced alike.

### RedisScan: state and code

`cursor`, `allKeys` are the variables of the loop; the server visits its buckets in
turn, may repeat keys in any reply, and loses and gains keys meanwhile. `always`
and `ever` remember which keys stayed and which were there at some time.

### Semver and Connect: state and code

A version is the sequence of its dotted pieces, each a number or a word with or
without a suffix: what `parseSemver` tells apart. `Connect` follows the command to
the proxy; the local agents, the gateway and the expiry of the token are external.
`Forward` is the director with what `httputil.ReverseProxy` does after it: it takes off
the headers that the agent's `Connection` header names (`hop`), the client's token
included. A gateway accepts the client's token, others too, all of them, or none.
The branch of `StartProxy` for a context that is done is unreachable, because
`Connect` passes `context.Background()`.

The flows below are exported but `Connect` starts neither: README.md:107 and :111
describe a login that `connect` does not perform, and a port, 3000, that it does not
listen on; without `--token` it sends an empty one, and the gateway refuses it.

### DeviceFlow: state and code

`pc` is the place in `StartDeviceCodeFlow`: the request, the head of the loop, the
sleep, the poll. `grant` and `expiry` are the provider's view of the code, `reply`
its answer on the way. The token is given once, as RFC 8628 has it; the network may
lose a poll or its answer (`AnswerLost`). History variables remember when the user
approved and when an answer was last lost. A sleep ends when it should and the
client's own steps take no time.

### PkceFlow: state and code

`codeCh` and `errCh` are the two channels; `handler[b]` is the handler of a callback,
`server` the goroutine in `Serve`. `Send` is Go's send: straight to the flow when it
is parked in its `select`, into the buffer when there is room, blocked otherwise.
`SelectCode`, `SelectErr`, `Park`, `TimerFires` are the `select`; the timer can only
fire once the flow is parked, since the five minutes begin there. `StopServing` and
`FinishShutdown` are the deferred `Shutdown`, which stops waiting for a blocked
handler after two seconds.

## The runs

| Run | Question | Result |
|---|---|---|
| `gateway_safety` | eight invariants, two concurrent requests | holds |
| `gateway_liveness` | `RequestAnswered`, `SignalExits`, and the refinement `KeepsContract` | holds |
| `gateway_unrecorded` | "All queries are recorded" (README.md:56) | violated |
| `gateway_no_authn` | "Requests without a valid token receive a 401" (middleware.go:15) | violated |
| `gateway_read_only` | "locked to read-only access" (README.md:55) | violated |
| `usage` | what `get_usage` counts while rows come in | holds |
| `startup` | what is opened, served and closed, with every failure, and the refinement `KeepsLifecycle` | holds |
| `redis_scan` | what a scan returns, and that it does | holds |
| `connect` | version check and proxy, against any gateway | holds |
| `connect_versions` | "Client version enforcement" (README.md:179) | violated |
| `device_flow` | the outcome and the pace of the polls | holds |
| `pkce_flow` | the race for the `select`, and the callbacks' answers | holds |

`gateway_safety` shows that

- an operation is sent only for a verified subject with one rule that grants it
  and when it is on the resource's list (`SentOnlyWhenGranted`), and a query is
  turned away only for a reason, which after a clean drain is never the shutdown
  (`RefusedOnlyForCause`);
- rows are true and single (`RowsFaithful`), every executed call that is
  answered has its row or its log line (`Accounted`), and no row is lost to a
  drain that ended in time (`DrainLosesNoRow`);
- listings and checks agree (`ListingComplete`);
- a call loses its client under it only when the shutdown overran, with the meter
  closed before, and the tunnel only after its client (`ClosesSpareCalls`). No close
  waits for the calls in progress: `database/sql` closes what is idle, and
  `Disconnect(context.Background())` gives the MongoDB pool no deadline to wait until.

`usage`: the three parts of an answer need not agree, but they only grow from one to
the next (`UsageNested`), each holds every row recorded before the call within the
window (`UsageComplete`), and none holds anything else (`UsageTrue`). The first two
need a file, or an in-memory database whose pool never opened a second connection:
otherwise rows lie in databases that no later statement reaches. A fraction of a day
is cut off, so `days: 0.5` counts what was recorded in the current second.

`startup`: whatever fails, the process closes what it opened, but for the client of
a MongoDB URI without a database name (`NothingLeftOpen`); the tunnel goes last and
the database first (`TunnelLast`); and what is served is what is configured, with
every reference to the environment replaced by its value, word for word
(`ServesWhatIsConfigured`): the environment of the run has a value that reads as a
reference itself, which stays as it is. The run also
checks the refinement, `KeepsLifecycle`: a failure between two steps closes what is
below it and nothing else, and a signal only ends the process at once before the
server runs or after it stopped.

`redis_scan`: keys that stayed are all returned (`ScanComplete`), others only if they
were there once (`ScanSound`), and the call comes back (`ScanReturns`).

`connect`: an agent is answered as the client would be (`ActsAsClient`): the token
that the bootstrap found accepted gets every agent through until it expires, and then
none, a token of the agent's own notwithstanding. The exception are agents whose
`Connection` header names `Authorization`: they reach the gateway without a token and
get its 401, although a comment says that the proxy injects it "into every forwarded
request" (client.go:108). A newer client never fares worse in the version check
(`NewerNeverWorse`), and the command serves or returns (`ConnectSettles`).

`device_flow`: polls keep their distance (`PollsSpaced`), the last one is less than a
pause after the deadline (`LastPollBounded`), results are deserved
(`ResultDeserved`), an approval is missed only for a lost answer or in the last
pause before the expiry (`ApprovalNotMissed`), and the flow returns unless a request
is never answered (`FlowReturns`): there is no timeout on either.

`pkce_flow`: what came before the select parked is not overlooked
(`NothingOverlooked`), the flow ends as what it took deserves (`ResultDeserved`), a
lone code is exchanged (`LoneCodeExchanged`), the flow returns although a handler may
block for ever (`FlowReturns`), and of several callbacks of a kind one is answered
(`CallbackAnswered`): the surplus ones are the blocked handlers.

The four violations are disagreements of the documentation with the code. The
first: the context that `Execute` ran under may be cancelled when `Record` runs,
so the row is lost though the backend did its part; what does hold is
`Accounted`. The second: with a nil authenticator `VerifyToken` panics and the
answer is 500. The third: `read_only` reaches the listing and no check;
`config.example.yaml` itself lists `set` and `del` for a read-only Redis. The
fourth: `Connect` checks the version "dev", which is always fine, and would only
log a warning.

### Bounds

`MCGateway` has three subjects (a team, an administrator with the wildcard, a
member of two groups one of which only grants "write"), two resources (a Redis
whose list has an upper-case entry, a MongoDB without a list) and thirteen
requests, one for each way through the handlers (`MCHttpRequests`).

The safety run has two requests, because every invariant speaks of at most two (a
list and a query, or two rows of one call); all requests are alike, so they are a
symmetry set. They are taken from the nine that reach the tools
(`MCToolRequests`); a request that no tool sees cannot disturb an invariant other
than by being in flight. The run has an authenticator, a meter and a tunnel, and a
database that fails an insert only when it is closed or the context is cancelled.
The proofs below remove all these bounds.

The liveness run has one request: handlers wait for no lock of one another and
meet only in the drain, which waits for all. It takes any of the thirteen and adds
a failing database, every outcome of startup, and a Redis and a second
MongoDB, `slow`, that may hang, with a request for the latter. Nothing
else is bounded: the table has at most a row per request. The contract is checked
here because it speaks of each request by itself; the proof is for any number.

| Run | Bound | Why it is enough |
|---|---|---|
| `usage` | two calls, one read, three instants, four `days` arguments | reads do not disturb one another but through the pool, which two calls and a read already drive over its two idle connections; the instants lie inside, on and outside of the windows |
| `startup` | three resources of three types, each with good and bad settings; two variables, one of which gives a reference | a failure has resources before and after it; every type occurs |
| `redis_scan` | four keys in three buckets, `MaxChanges` = 3 | a key can go, come back and go again between replies |
| `connect` | seven versions, one local request | each way `parseSemver` takes, and each part deciding |
| `device_flow` | intervals 0, 5, 10, lifetimes 0, 10, 35, answers within `MaxDelay` = 5, steps of `Granule` = 5 seconds | several polls, several `slow_down`, boundaries met exactly; the `Horizon` of 100 is never reached |
| `pkce_flow` | three callbacks, one code | two of a kind and one of the other, next to the server's own error |

### Fairness

`gateway_liveness`: weak fairness of a handler's own steps (a goroutine that can run
does), of the return of a backend call unless the backend is in `Hanging`, of the
`select` in `Start`, of the drain (its timer fires) and of the closes that return
(`ClosesReturn`). Nothing is
assumed of clients, signals, the listener or a hanging backend. A `VerifyToken` that
fetches keys returns in the end: the library's HTTP client belongs to the provider's
side and is not in `Hanging`. A MongoDB that hangs may keep `Disconnect` from
returning, since what that asks of the server (`endSessions`) runs under
`context.Background()`; `mgr.Close` then closes nothing more. `SignalExits` says that
nothing else can hold the process, and that the meter is closed by then: no call that
hangs can, of a MongoDB or of anything else.

`device_flow`: the client's own steps and the clock, and nothing of the user, the
provider or the network. `pkce_flow`: the flow, whose timer fires and whose
`Shutdown` times out, the handlers and the server's goroutine; nothing of the
browser and the provider. `connect`: the steps of the command, whose HTTP client has
a timeout, and of the goroutine that listens. `redis_scan`: the call, whose client
library gives up on a reply after its timeout.

`CHECK_DEADLOCK FALSE` stands in `usage` and `startup`, whose handlers and processes
end, and in `connect`, `pkce_flow` and `redis_scan`, where the liveness property says
that they end as they should.

## The proofs

`GatewayProofs` proves all eight invariants of `gateway_safety` as
`Spec => []...`, for any sets of requests, subjects, rules and resources. The
assumptions are the three named ones of `Gateway`: requests have the shape of
`HttpRequest` and are finitely many, there is one at all, resource types are the
four known ones, no resource is called "", and startup leaves its variables in the
states it can leave them in.

Hardly any of the invariants is inductive as it stands. Even `TypeOK` is not: that
a row names a subject, and not absent claims, holds because nobody reaches
`record` unauthenticated. The strengthenings are:

- `IInv` is `TypeOK` with `Pipeline`, what is known of a request at each program
  counter: from the handler on it is identified by its own token; once an
  operation was sent or `Execute` returned, the query was granted; what was sent
  was admitted; `outcome` is "ok" only when the backend ran. `SentOnlyWhenGranted`
  follows.
- `Audit` is `RowsFaithful` with `Accounted`, inductive together relative to
  `IInv`: a new row is the only one of its call because no call is recorded before
  it is answered.
- `Lifetime` ties the closes to `start`: nothing is closed before `Start`
  returned, nothing is in flight when it drained, the resources close after the
  meter and the tunnel after them, and a call misses its row only for one of three
  reasons. From it follow `DrainLosesNoRow` and `ClosesSpareCalls`.

`Responses`, over these, says what each answer implies, and gives
`RefusedOnlyForCause` and `ListingComplete`; the latter rests on `CheckedIsListed`,
a fact about the operators of `Rbac` for any rules. Each step lemma has one step
per action; `Steps` splits `Next` once for all of them.

Over the same invariants:

- `Bounced` (`UnverifiedAreBounced`) is one more invariant over `IInv`: a request
  without a verified token is on its way to a 401, or to the 500 of a panic when the
  authenticator is nil.
- `HandlersAdvance` (`RequestsOnlyAdvance`) is an action property with the variant
  `Distance`: a request that moves comes nearer to its end, no operation is sent a
  second time, and an answer is final. It is the safety half of `RequestAnswered`.
- `GroupsAddUp` and `ListingsAreExact` are about the policy. The groups of a caller
  add up, in `Check` and in `AllowedResources` alike. A listing shows only what its
  caller may read if all rules give "read": `AllowedResources` asks for no
  permission, so a rule that gives only "write" lists a resource no query may use.

Three claims of the documentation are violated in the runs. The proofs say under
which conditions they hold, for all constants, and so that nothing else breaks them:

| Claim | Violated in | Holds when | Theorem |
|---|---|---|---|
| every query is recorded | `gateway_unrecorded` | metering is on, its database works, the drain did not time out nor the listener fail, and the client stayed | `OnlyFailuresLoseRows` |
| an invalid token gets a 401 | `gateway_no_authn` | startup created the authenticator | `ReadyAuthnGives401` |
| read-only resources are not changed | `gateway_read_only` | each of them has a list, and no mutating operation is on it | `ListsHonourReadOnly` |

The fourth, version enforcement, holds for no configuration: `CheckNeverWarns` in
`ConnectProofs`.

`GatewayRefinement` proves `Spec => KeepsContract`, again for all constants: the
initial states map to initial states (`InitContract`), and each step maps to a step
of `QueryContract` or to a stutter (`StepContract`), with one lemma for each kind of
step (`ArriveSubmits`, `DeclinesDecline`, `SendQuerySends`, `BackendRunsTakesEffect`,
`SettlesSettle`, `UnnoticedStutters`). It rests on the invariants above, `Audit` in
particular: that no row of a call is there before it is recorded is what makes the
row of `Settle` its only one. One more invariant is needed, that
a request has no response before it is answered (`UnansweredInvariant`).

What the contract implies is proved of the contract and carried over:
`GatewayIsHonest` (a result means that the operation ran, a refusal that it was not
sent, a row what it says) and `GatewaySettlesForGood` (nothing that happens after a
query is settled takes back its reply or its row, or carries out what was declined).

It also proves that `Gateway` keeps the lifecycle (`GatewayKeepsLifecycle`), and from
that `GatewayClosesInLayers`. The conditions that `Gateway` puts on its closes are
those of the code's deferred calls, so the first is close to its definitions; what
takes an argument is that no step of a handler interferes, and that the state in
which `Startup` starts the server is one that `Gateway` begins with
(`StartupHandsOver`). `Gateway!KeepsLifecycle` is proved and not in a run, where its
implied initial state would only repeat that of `gateway_safety`.

`RedisScanProofs` proves `TypeOK`, `ScanComplete` and `ScanSound` for any keys and
any number of changes. The invariant is `Progress`: every key that stayed is
collected or in the reply once its bucket is `Done`. `ScansAdvance` is the safety half
of `ScanReturns`: a round that is not the last moves the cursor on (`Ahead`), so that
a call sends at most as many SCANs as the table has buckets.

`UsageProofs` proves the three properties of `get_usage`, and `TypeOK`, for any
handlers, entries, arguments and faults. None of them is inductive: the three
statements are read at different times, so `Answered` relates what a statement
returned to what the database still holds. `RowsKept` says that the one database
(`Main`) has the rows of all recorded calls as long as it lasts, and
`OneConnection` that with `:memory:` it is the database of connection 1 until the
pool opens another. `WindowIsRight` is the arithmetic of the window. Its assumption
is that the clock shows fewer days than an int can count. `NewConnFree` is a
pigeonhole argument: with finitely many handlers a connection always has a free name.
`RecordedForGood` says what a file adds: a recorded row stays, whatever the pool
closes. `ConnectionsAreExclusive` says that no two handlers hold one connection, and
that a database in memory goes with its own.

`StartupProofs` proves the three properties of `serve` and `TypeOK`, for any
configurations, resources and environment. The invariant says that the deferred calls
are `Ordered` (tunnel, manager, meter, stop), that whoever stored clients has deferred
their close (`Closable`), and that clients dial through an open tunnel or none
(`Dialled`). `PushDefer` and `PopDefer` are the two lemmas about the stack.
`WaysReached` shows for the three kinds of settings that the walk of `Config` reaches
them, `ExpansionIsIt` that `Expand` gives what a text `StandsFor`, whatever the
environment has, references included. `ServeKeepsLifecycle` proves the refinement of
`Lifecycle`, one lemma for each kind of step, from that invariant and
`SignalsAreCaught`: without `stop` on the stack a signal could end the process while
it serves. `ServeOpensInLayers` is what follows for two consecutive states.

`DeviceFlowProofs` proves the four safety properties of the device flow, for any
intervals, lifetimes, delays and steps of the clock. `Times` relates the clock to
the sleep, the deadline and the provider's expiry, `Grants` the provider's state to
its answers, and `Overdue` bounds how long after an approval the client can still
be without the token. `FlowsAreTimely` is the safety half of `FlowReturns`, provided
that requests are answered in `MaxDelay`.

`PkceProofs` proves the three safety properties of the PKCE flow, for any number of
callbacks. `Facts` says that a goroutine is `Silent` until it has sent, and that as
long as the flow waits everything sent lies in the channels. `ValuesAreHeldOnce` adds
that a value is in one place only, so that of any number of callbacks at most three
are answered: one for each channel and one for the flow.

`ConnectProofs` proves that the comparison of `Semver` is a total preorder on the
versions that parse (`Total`, `Transitive`, `Lexicographic`), and from that
`NewerNeverWorse` for any versions. `ActsAsClient` is proved from two invariants:
`Forwarded`, the header of what was forwarded, and `Trusted`, that a token with a 200
is accepted until it expires. `VersionsAreOrdered` states the
preorder by itself, with the agreement of its two sides and what it makes equal.

`TypeOK` of every state machine is proved too. Only model-checked are the liveness
properties (`RequestAnswered`, `SignalExits`, `FlowReturns` of both flows,
`CallbackAnswered`, `ConnectSettles`, `ScanReturns`): they rest on fairness and
ENABLED, which are beyond the prover. For three of them a theorem bounds how far
there is to go, so that fairness of the next step is all they need. The four
violations are TLC's alone, of course.

## Not modelled

- `setupLogger`: it chooses a level and opens a file, or falls back to stderr without
  a word; nothing depends on it.
- The update and version commands print a line. `cmd/e2e-test` is a script of HTTP
  calls that keeps no state.
- `openBrowser` is a command of the operating system; whether it fails makes no
  difference to the flow, which then prints the URL.
- `Server.Shutdown` has no caller.
- The traffic through the WireGuard tunnel, TLS, the MCP protocol and the drivers are
  libraries'; so are retries below `Execute`. `KeyToHex` is pure and stands behind the
  settings "good" and "bad" of `Startup`.
- The conversion of backend results (`rows.Scan`, BSON, JSON) is data.

## Plan

Every safety property that a passing run checks is proved, and so are both
refinements. What could still be proved is the bound that belongs to
`SignalExits`: a variant over the closes, as `Distance` is one over a request, and
the same for `ConnectSettles` and the loop of `NewManager`. Of the code,
the log file of `setupLogger` could be added should anything come to depend on it,
and the retries of the drivers, should the gateway come to configure them.
