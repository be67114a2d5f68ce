------------------------------ MODULE PkceFlow ------------------------------
(***************************************************************************)
(* StartPKCEFlow of internal/client: a local server takes the callback the *)
(* browser is redirected to, a select waits for it, and the code it brings *)
(* is exchanged for the token.                                             *)
(*                                                                         *)
(* Three kinds of goroutine meet at two channels of one place each: the    *)
(* flow, the handlers of the callbacks, and the one that serves.  A send   *)
(* blocks while the place is taken, unless the flow is parked in its       *)
(* select: then it gets the value directly, and the select is over.        *)
(*                                                                         *)
(* The browser and the identity provider are external.                     *)
(***************************************************************************)
EXTENDS FiniteSets, Naturals

CONSTANTS
    Callbacks,  \* requests to /callback: redirects, reloads of the page
    Codes       \* values of their "code" parameter

NoCode == ""    \* the parameter is missing, as when the user refused
Server == "server"
Nobody == "nobody"

ASSUME PkceAssumption ==
    /\ NoCode \notin Codes
    /\ {Server, Nobody} \cap Callbacks = {}

VARIABLES
    pc,         \* where the flow is
    result,     \* how it ended
    taken,      \* whose value the select took
    codeCh,     \* whose codes lie in codeCh
    errCh,      \* whose errors lie in errCh
    server,     \* the goroutine that serves
    handler,    \* the handler of each callback
    code,       \* its "code" parameter
    answer,     \* what the provider answered to the exchange
    early       \* who had sent by the end of the select (history)

flow     == <<pc, result, taken>>
channels == <<codeCh, errCh>>
callback == <<server, handler, code>>
vars     == <<flow, channels, callback, answer, early>>

Senders == Callbacks \cup {Server}

Init ==
    /\ pc = "listen" /\ result = "none" /\ taken = Nobody
    /\ codeCh = {} /\ errCh = {}
    /\ server = "none"
    /\ handler = [b \in Callbacks |-> "none"]
    /\ code = [b \in Callbacks |-> NoCode]
    /\ answer = "none" /\ early = {}

-----------------------------------------------------------------------------
(* The channels                                                            *)

\* Plausible bugs: a handler that does not look at what it got, a channel without
\* a buffer, a select that waits for one channel only.
SendsUnchecked(s) == IF s = Server THEN "err" ELSE "code"
CapacityNone == 0
AwaitsOnlyCode(ch) == pc = "parked" /\ ch = "code"

\* To which channel a goroutine sends.
Sends(s) == IF s = Server \/ code[s] = NoCode THEN "err" ELSE "code"
Capacity == 1
Awaits(ch) == pc = "parked"

Waiting == pc \in {"browser", "select", "parked"}

\* What the flow does with the value it took: it exchanges a code, and returns
\* with an error, whose deferred call shuts the server down.
Takes(ch, from) ==
    /\ taken' = from
    /\ IF ch = "code" THEN pc' = "exchange" /\ UNCHANGED result
                      ELSE pc' = "shutdown" /\ result' = "callback error"

\* codeCh <- code, errCh <- err
Put(ch, from) ==
    IF ch = "code"
    THEN /\ Cardinality(codeCh) < Capacity
         /\ codeCh' = codeCh \cup {from} /\ UNCHANGED errCh
    ELSE /\ Cardinality(errCh) < Capacity
         /\ errCh' = errCh \cup {from} /\ UNCHANGED codeCh
Send(from) ==
    /\ early' = IF Waiting THEN early \cup {from} ELSE early
    /\ \/ Awaits(Sends(from)) /\ Takes(Sends(from), from) /\ UNCHANGED channels
       \/ ~Awaits(Sends(from)) /\ Put(Sends(from), from) /\ UNCHANGED flow

-----------------------------------------------------------------------------
(* The callback server                                                     *)

\* The browser sends a callback, and the server starts its handler.
Arrive(b) ==
    /\ server = "serving" /\ handler[b] = "none"
    /\ handler' = [handler EXCEPT ![b] = "running"]
    /\ \E c \in Codes \cup {NoCode} : code' = [code EXCEPT ![b] = c]
    /\ UNCHANGED <<flow, channels, server, answer, early>>

\* Without the code an error and a 400 page, with it the page of success.
Handle(b) ==
    /\ handler[b] = "running"
    /\ Send(b)
    /\ handler' = [handler EXCEPT ![b] = "answered"]
    /\ UNCHANGED <<server, code, answer>>

\* The listener fails, and with it Serve; the error is still to be sent.
ServeFails ==
    /\ server = "serving"
    /\ server' = "failed"
    /\ UNCHANGED <<flow, channels, handler, code, answer, early>>

ServeSends ==
    /\ server = "failed"
    /\ Send(Server)
    /\ server' = "ended"
    /\ UNCHANGED <<handler, code, answer>>

-----------------------------------------------------------------------------
(* The flow                                                                *)

Listen ==
    /\ pc = "listen"
    /\ \/ pc' = "browser" /\ server' = "serving" /\ UNCHANGED result
       \/ pc' = "done" /\ result' = "no listener" /\ UNCHANGED server
    /\ UNCHANGED <<channels, taken, handler, code, answer, early>>

\* openBrowser starts the browser, or the URL is printed.
OpenBrowser ==
    /\ pc = "browser"
    /\ pc' = "select"
    /\ UNCHANGED <<channels, callback, result, taken, answer, early>>

\* The select finds something: any, when both channels hold a value.
SelectCode ==
    /\ pc = "select"
    /\ \E b \in codeCh : Takes("code", b) /\ codeCh' = codeCh \ {b}
    /\ UNCHANGED <<callback, errCh, answer, early>>
SelectErr ==
    /\ pc = "select"
    /\ \E s \in errCh : Takes("err", s) /\ errCh' = errCh \ {s}
    /\ UNCHANGED <<callback, codeCh, answer, early>>

\* The five minutes begin.
Park ==
    /\ pc = "select" /\ codeCh = {} /\ errCh = {}
    /\ pc' = "parked"
    /\ UNCHANGED <<channels, callback, result, taken, answer, early>>

\* A plausible bug: the five minutes begin before the browser is opened.
TimerFiresAnyTime ==
    /\ pc \in {"select", "parked"}
    /\ pc' = "shutdown" /\ result' = "timed out"
    /\ UNCHANGED <<channels, callback, taken, answer, early>>

TimerFires ==
    /\ pc = "parked"
    /\ pc' = "shutdown" /\ result' = "timed out"
    /\ UNCHANGED <<channels, callback, taken, answer, early>>

\* The provider answers once, if ever.  "empty" is a 200 whose JSON has no token.
Provider ==
    /\ pc = "exchange" /\ answer = "none"
    /\ answer' \in {"token", "empty", "no 200", "no JSON", "lost"}
    /\ UNCHANGED <<flow, channels, callback, early>>

\* A plausible bug: the status is not looked at.  The JSON of an error response
\* has no token.
OutcomeNoStatus(a) == IF a = "token" THEN "token"
                      ELSE IF a \in {"empty", "no 200"} THEN "empty token"
                      ELSE "exchange failed"

\* A token that is missing is returned as the empty string, without an error.
Outcome(a) == CASE a = "token" -> "token"
                [] a = "empty" -> "empty token"
                [] OTHER -> "exchange failed"

Exchange ==
    /\ pc = "exchange" /\ answer # "none"
    /\ pc' = "shutdown" /\ result' = Outcome(answer)
    /\ UNCHANGED <<channels, callback, taken, answer, early>>

\* The deferred Shutdown: no more callbacks; Serve returns ErrServerClosed.
StopServing ==
    /\ pc = "shutdown" /\ server = "serving"
    /\ server' = "ended"
    /\ UNCHANGED <<flow, channels, handler, code, answer, early>>

\* A plausible bug: Shutdown gets a context without a timeout.
FinishShutdownUnbounded ==
    /\ pc = "shutdown" /\ server # "serving"
    /\ \A b \in Callbacks : handler[b] # "running"
    /\ pc' = "done"
    /\ UNCHANGED <<channels, callback, result, taken, answer, early>>

\* Shutdown waits for the handlers, but for two seconds at most.
FinishShutdown ==
    /\ pc = "shutdown" /\ server # "serving"
    /\ pc' = "done"
    /\ UNCHANGED <<channels, callback, result, taken, answer, early>>

Flow ==
    \/ Listen \/ OpenBrowser \/ SelectCode \/ SelectErr \/ Park \/ TimerFires
    \/ Exchange \/ StopServing \/ FinishShutdown

Next ==
    \/ Flow \/ Provider \/ ServeFails \/ ServeSends
    \/ \E b \in Callbacks : Arrive(b) \/ Handle(b)

Spec == Init /\ [][Next]_vars

\* The goroutines run when they can, and the timer fires.  Nothing is promised of
\* the browser and the provider.
FairSpec ==
    /\ Spec
    /\ WF_vars(Flow) /\ WF_vars(ServeSends)
    /\ \A b \in Callbacks : WF_vars(Handle(b))

-----------------------------------------------------------------------------

\* The state is well formed: a channel holds one value at most, and codeCh
\* codes only.
TypeOK ==
    /\ pc \in {"listen", "browser", "select", "parked", "exchange", "shutdown", "done"}
    /\ result \in {"none", "no listener", "callback error", "timed out", "token",
                   "empty token", "exchange failed"}
    /\ taken \in Senders \cup {Nobody}
    /\ codeCh \subseteq Callbacks /\ errCh \subseteq Senders
    /\ Cardinality(codeCh) <= 1 /\ Cardinality(errCh) <= 1
    /\ \A b \in codeCh : code[b] \in Codes
    /\ server \in {"none", "serving", "failed", "ended"}
    /\ handler \in [Callbacks -> {"none", "running", "answered"}]
    /\ code \in [Callbacks -> Codes \cup {NoCode}]
    /\ answer \in {"none", "token", "empty", "no 200", "no JSON", "lost"}
    /\ early \subseteq Senders

\* While the flow is parked nothing lies in a channel and nobody has sent: what
\* comes first ends the wait, whatever its kind.
NothingOverlooked == pc = "parked" => codeCh \cup errCh \cup early = {}

\* The result is deserved.  The flow times out only when nothing was sent before;
\* it fails on a callback only for one without a code or for the server; it
\* exchanges a code that a callback brought while it waited, and the token is the
\* provider's answer to it.  Only a provider that answers 200 without a token
\* makes it return an empty one.
ResultDeserved ==
    /\ result = "timed out" => early = {} /\ taken = Nobody
    /\ result = "callback error" =>
           taken \in early /\ (taken = Server \/ code[taken] = NoCode)
    /\ pc = "exchange" \/ result \in {"token", "empty token", "exchange failed"} =>
           taken \in early \cap Callbacks /\ code[taken] \in Codes
    /\ result = "token" => answer = "token"
    /\ result = "empty token" => answer = "empty"

\* A code a lone browser brings in time is not lost, however early it comes: the
\* flow does not end without having exchanged it.
LoneCodeExchanged ==
    \A b \in Callbacks :
        early = {b} /\ code[b] # NoCode /\ pc \in {"shutdown", "done"} =>
            taken = b /\ answer # "none"

\* The flow returns, even with handlers that will never be done, unless the
\* exchange is never answered: it has no timeout.
FlowReturns == <>(pc = "done") \/ <>[](pc = "exchange" /\ answer = "none")

\* A callback is answered, however late, unless another of its kind took the place
\* in the channel: of several codes, or of several errors, one at least is answered.
Surplus(b) ==
    \E s \in Senders \ {b} :
        /\ Sends(s) = Sends(b)
        /\ IF s = Server THEN server = "ended" ELSE handler[s] = "answered"
CallbackAnswered ==
    \A b \in Callbacks : handler[b] = "running" ~> handler[b] = "answered" \/ Surplus(b)

=============================================================================
