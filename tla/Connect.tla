------------------------------ MODULE Connect ------------------------------
(***************************************************************************)
(* The connect command: Connect, Bootstrap and StartProxy of               *)
(* internal/client.  The client asks the gateway for its configuration,    *)
(* looks at the versions it requires, and then forwards what local agents  *)
(* send to the gateway, with its own token.                                *)
(*                                                                         *)
(* The gateway is external here; module Gateway has its handlers.          *)
(***************************************************************************)
EXTENDS Semver

CONSTANTS
    Versions,   \* of the client's binary, and those a server may require
    Requests    \* what the local agents send

ASSUME ConnectAssumption == Versions \subseteq Version

VARIABLES
    pc,         \* the step of Connect
    returned,   \* what it returned
    version,    \* main.Version, set when the binary was built
    token,      \* the --token flag, "" when it is not given
    required,   \* the versions in the bootstrap response
    verdict,    \* what the version check found
    accepts,    \* the tokens a gateway accepts; some gateways look at none
    expired,    \* the token was accepted once and is no more
    answer,     \* the gateway's answer to the bootstrap request
    listener,   \* the goroutine with the local server
    request,    \* the local requests
    header,     \* the token in the Authorization header of each, or "none"
    hop         \* those whose Connection header names Authorization

client  == <<pc, returned, verdict>>
given   == <<version, token>>
gateway == <<required, accepts, expired, answer>>
proxy   == <<listener, request, header, hop>>
vars    == <<client, given, gateway, proxy>>

Tokens == {"", "own"}
Headers == Tokens \cup {"none", "agent's"}
NoVersions == [minimum |-> Unset, latest |-> Unset]
VersionConfig == [minimum : Versions \cup {Unset}, latest : Versions \cup {Unset}]

Init ==
    /\ pc = "bootstrap" /\ returned = "none"
    /\ version \in Versions
    /\ token \in Tokens
    /\ required = NoVersions /\ verdict = "none"
    /\ accepts \in {{}, {"own"}, {"own", "agent's"}, Headers} /\ expired = FALSE
    /\ answer = "none" /\ listener = "none"
    /\ request = [r \in Requests |-> "none"]
    /\ header = [r \in Requests |-> "none"] /\ hop = {}

-----------------------------------------------------------------------------
(* Bootstrap                                                               *)

\* The gateway answers, or its proxy in front does.
GatewayAnswers ==
    /\ pc = "bootstrap" /\ answer = "none"
    /\ \/ token \in accepts /\ answer' = "200" /\ required' \in VersionConfig
       \/ answer' \in {"no 200", "no JSON"} /\ UNCHANGED required
    /\ UNCHANGED <<client, given, proxy, accepts, expired>>

\* A plausible bug in Bootstrap: the status is not looked at, and the JSON of an
\* error decodes to a response without resources and versions.
BootstrappedAnyStatus ==
    /\ pc = "bootstrap" /\ answer \in {"200", "no 200"}
    /\ pc' = "check"
    /\ UNCHANGED <<given, gateway, proxy, returned, verdict>>

Bootstrapped ==
    /\ pc = "bootstrap" /\ answer = "200"
    /\ pc' = "check"
    /\ UNCHANGED <<given, gateway, proxy, returned, verdict>>

\* A plausible bug in Bootstrap: the client has no timeout.
BootstrapFailsNoTimeout ==
    /\ pc = "bootstrap" /\ answer \in {"no 200", "no JSON"}
    /\ pc' = "returned" /\ returned' = "bootstrap failed"
    /\ UNCHANGED <<given, gateway, proxy, verdict>>

\* The request cannot be made, is not answered within 30 seconds, or is answered
\* by something else.
BootstrapFails ==
    /\ pc = "bootstrap" /\ answer # "200"
    /\ pc' = "returned" /\ returned' = "bootstrap failed"
    /\ UNCHANGED <<given, gateway, proxy, verdict>>

-----------------------------------------------------------------------------
(* Connect                                                                 *)

\* CheckVersion("dev", ...): a warning is logged, if any.
Check ==
    /\ pc = "check"
    /\ verdict' = CheckVersion(Dev, required)
    /\ pc' = "proxy"
    /\ UNCHANGED <<given, gateway, proxy, returned>>

\* StartProxy starts the goroutine that listens, and waits.  The server URL does
\* parse: Bootstrap parsed it with a path appended.
StartProxy ==
    /\ pc = "proxy"
    /\ pc' = "waiting" /\ listener' = "starting"
    /\ UNCHANGED <<given, gateway, returned, verdict, request, header, hop>>

-----------------------------------------------------------------------------
(* The proxy                                                               *)

Serve ==
    /\ listener = "starting"
    /\ listener' = "serving"
    /\ UNCHANGED <<client, given, gateway, request, header, hop>>

\* Port 8081 is taken, or the listener fails later: the error is put into errCh.
ServeFails ==
    /\ listener \in {"starting", "serving"}
    /\ listener' = "failed"
    /\ UNCHANGED <<client, given, gateway, request, header, hop>>

\* The select: the context is never done, so only the error ends the wait.
\* The process, and with it the proxy, ends then.
ReturnError ==
    /\ pc = "waiting" /\ listener = "failed"
    /\ pc' = "returned" /\ returned' = "listener"
    /\ UNCHANGED <<given, gateway, proxy, verdict>>

AgentSends(r) ==
    /\ listener = "serving" /\ request[r] = "none"
    /\ request' = [request EXCEPT ![r] = "received"]
    /\ \E h \in {"none", "agent's"} : header' = [header EXCEPT ![r] = h]
    /\ hop' \in {hop, hop \cup {r}}
    /\ UNCHANGED <<client, given, gateway, listener>>

\* A plausible bug: the header is added only where there is none.
DirectorAdds(h) == IF h = "none" THEN token ELSE h

\* The director sets the Authorization header, whatever the agent sent.
Director(h) == token

\* httputil.ReverseProxy calls the director and then takes off the headers of this
\* hop: those that the request's Connection header names.
Forward(r) ==
    /\ pc = "waiting" /\ request[r] = "received"
    /\ request' = [request EXCEPT ![r] = "forwarded"]
    /\ header' = [header EXCEPT ![r] = IF r \in hop THEN "none" ELSE Director(@)]
    /\ UNCHANGED <<client, given, gateway, listener, hop>>

\* The gateway does not answer a forwarded request: 502.
Unreachable(r) ==
    /\ pc = "waiting" /\ request[r] = "forwarded"
    /\ request' = [request EXCEPT ![r] = "502"]
    /\ UNCHANGED <<client, given, gateway, listener, header, hop>>

GatewayReplies(r) ==
    /\ pc = "waiting" /\ request[r] = "forwarded"
    /\ request' = [request EXCEPT ![r] = IF header[r] \in accepts THEN "200" ELSE "401"]
    /\ UNCHANGED <<client, given, gateway, listener, header, hop>>

\* Tokens expire; nothing gets the client another one.
TokenExpires ==
    /\ "own" \in accepts /\ "none" \notin accepts
    /\ accepts' = accepts \ {"own"} /\ expired' = TRUE
    /\ UNCHANGED <<client, given, proxy, required, answer>>

ConnectStep ==
    Bootstrapped \/ BootstrapFails \/ Check \/ StartProxy \/ ReturnError
Proxy == Serve \/ ServeFails \/ \E r \in Requests : AgentSends(r) \/ Forward(r)
Gateway ==
    \/ GatewayAnswers \/ TokenExpires
    \/ \E r \in Requests : Unreachable(r) \/ GatewayReplies(r)

Next == ConnectStep \/ Proxy \/ Gateway

Spec == Init /\ [][Next]_vars

\* The client goes on when it can, its 30 seconds elapse, and the goroutine that
\* listens gets to listen or to fail.
FairSpec == Spec /\ WF_vars(ConnectStep) /\ WF_vars(Serve \/ ServeFails)

-----------------------------------------------------------------------------

\* The state is well formed: in particular what comes after Bootstrap comes only
\* after a 200 to this token.
TypeOK ==
    /\ pc \in {"bootstrap", "check", "proxy", "waiting", "returned"}
    /\ returned \in {"none", "bootstrap failed", "listener"}
    /\ version \in Versions /\ token \in Tokens
    /\ required \in VersionConfig
    /\ verdict \in {"none", "fine", "unparsable", "update required", "update available"}
    /\ accepts \subseteq Headers /\ expired \in BOOLEAN
    /\ answer \in {"none", "200", "no 200", "no JSON"}
    /\ listener \in {"none", "starting", "serving", "failed"}
    /\ request \in [Requests -> {"none", "received", "forwarded", "200", "401", "502"}]
    /\ header \in [Requests -> Headers] /\ hop \subseteq Requests
    /\ pc \in {"check", "proxy", "waiting"} => answer = "200"

\* The gateway answers a local agent as it would answer the client.  What Bootstrap
\* found accepted is refused only once the token has expired, or to an agent that
\* had the header taken off; and once it has expired the proxy, which keeps it,
\* gets nobody through, not even an agent that has a valid token of its own.
AnsweredAsClient ==
    \A r \in Requests : request[r] = "forwarded" =>
        /\ request'[r] = "401" => expired \/ r \in hop
        /\ request'[r] = "200" => ~expired
ActsAsClient == [][AnsweredAsClient]_vars

\* Updating the client never makes its version check come out worse, whatever the
\* server requires: CheckVersion follows the order of versions.
Severe(v) == CASE CheckVersion(v, required) = "update required" -> 2
               [] CheckVersion(v, required) = "update available" -> 1
               [] OTHER -> 0
NewerNeverWorse ==
    \A newer \in Versions :
        CompareSemver(version, newer) \in {"less", "equal"} =>
            Severe(newer) <= Severe(version)

\* Connect comes to an end of its own accord, whatever the gateway does: time and
\* again it has returned or its proxy serves.
ConnectSettles == []<>(pc = "returned" \/ listener = "serving")

\* README.md:179, "Client version enforcement": no proxy for a client below the
\* minimum version.
VersionEnforced ==
    listener = "serving" /\ version # Dev /\ required.minimum # Unset =>
        CompareSemver(version, required.minimum) # "less"

=============================================================================
