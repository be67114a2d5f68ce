----------------------------- MODULE DeviceFlow -----------------------------
(***************************************************************************)
(* StartDeviceCodeFlow of internal/client: the request of a device code,   *)
(* and the poll of the token endpoint until the user has approved, has     *)
(* refused, or the code expires.  The identity provider and the user are   *)
(* external; so is the network, which may lose a poll or its answer.       *)
(*                                                                         *)
(* Time is in seconds.  The client's own steps take none, a sleep ends     *)
(* when it should, and a request to the provider takes at most MaxDelay or *)
(* is never answered: http.PostForm has no timeout.                        *)
(***************************************************************************)
EXTENDS Integers

CONSTANTS
    Intervals,  \* what the provider may announce as "interval"
    Lifetimes,  \* and as "expires_in"
    Granule,    \* the step of the clock
    MaxDelay,   \* how long an answer of the provider takes at most
    Horizon     \* the clock stops here; no flow gets that far

ASSUME DeviceAssumption ==
    /\ Intervals \subseteq Int /\ Lifetimes \subseteq Nat
    /\ Granule \in Nat \ {0} /\ MaxDelay \in Nat /\ Horizon \in Nat

VARIABLES
    now,        \* the clock
    pc,         \* where the client is
    interval,   \* the client's pause between polls
    deadline,   \* when the client gives up
    wake,       \* when its sleep ends
    sent,       \* when it sent its last poll, at first when it got the code
    result,     \* how the flow ended
    grant,      \* what the provider knows of the device code
    expiry,     \* when the code expires at the provider
    reply,      \* the provider's answer to the poll, on its way
    device,     \* the provider's answer with the device code
    slowdowns,  \* how many slow_down answers the client got (history)
    approvedAt, \* when the user approved (history)
    lostAt      \* when an answer was last lost or of no use (history)

client   == <<pc, interval, deadline, wake, sent, result>>
provider == <<grant, expiry, reply, device>>
history  == <<slowdowns, approvedAt, lostAt>>
vars     == <<now, client, provider, history>>

Never == -1
MinInterval == 5

\* Without the lower bound of the code.
AtLeastUnbounded(seconds) == seconds

\* if interval < 5*time.Second { interval = 5 * time.Second }
AtLeast(seconds) == IF seconds < MinInterval THEN MinInterval ELSE seconds

Init ==
    /\ now = 0
    /\ pc = "request" /\ result = "none"
    /\ interval = MinInterval /\ deadline = 0 /\ wake = 0 /\ sent = 0
    /\ grant = "none" /\ expiry = 0 /\ reply = "none"
    /\ device = [expires_in |-> 0, interval |-> 0]
    /\ slowdowns = 0 /\ approvedAt = Never /\ lostAt = Never

-----------------------------------------------------------------------------
(* Time, the user and the identity provider                                *)

\* The end of the sleep, or the latest time for an answer.
Latest == IF pc = "sleeping" THEN wake ELSE sent + MaxDelay

Tick ==
    /\ pc \in {"request", "sleeping", "polling"} /\ now < Latest
    /\ now + Granule <= Horizon
    /\ now' = IF now + Granule < Latest THEN now + Granule ELSE Latest
    /\ UNCHANGED <<client, provider, history>>

\* The device authorization endpoint.
IssueCode ==
    /\ pc = "request" /\ grant = "none"
    /\ grant' = "pending"
    /\ device' \in [expires_in : Lifetimes, interval : Intervals]
    /\ expiry' = now + device'.expires_in
    /\ UNCHANGED <<now, client, reply, history>>

\* The user has seen the code on the terminal and decides.
UserDecides(decision) ==
    /\ pc \notin {"request", "done"} /\ grant = "pending" /\ now < expiry
    /\ grant' = decision
    /\ approvedAt' = IF decision = "approved" THEN now ELSE approvedAt
    /\ UNCHANGED <<now, client, expiry, reply, device, slowdowns, lostAt>>

Answers(answer) ==
    /\ pc = "polling" /\ reply = "none"
    /\ reply' = answer
    /\ UNCHANGED <<now, client, expiry, device, history>>

\* The token endpoint issues the token once.  "empty" is JSON that has neither
\* token nor error, as from a rate limiter; the client looks at no status.
AnswerToken == grant = "approved" /\ now < expiry /\ Answers("token") /\ grant' = "used"
AnswerPending ==
    /\ grant = "pending" /\ now < expiry /\ UNCHANGED grant
    /\ Answers("authorization_pending") \/ Answers("slow_down")
AnswerError ==
    /\ grant \in {"denied", "used"} \/ now >= expiry
    /\ Answers("error") /\ UNCHANGED grant
AnswerEmpty == Answers("empty") /\ UNCHANGED grant

-----------------------------------------------------------------------------
(* The client                                                              *)

Return(how) == pc' = "done" /\ result' = how

\* The request fails, or its answer is no 200 with JSON.
RequestFails ==
    /\ pc = "request"
    /\ Return("failed")
    /\ UNCHANGED <<now, interval, deadline, wake, sent, provider, history>>

\* The device code arrives; "expires_in" counts from here.
ReceiveCode ==
    /\ pc = "request" /\ grant # "none"
    /\ interval' = AtLeast(device.interval)
    /\ deadline' = now + device.expires_in
    /\ sent' = now
    /\ pc' = "loop"
    /\ UNCHANGED <<now, wake, result, provider, history>>

\* Two plausible bugs in the condition of the loop: it is wrong at the
\* boundary, or there is none.
CodeAliveInclusive == now <= deadline
CodeAliveForever == TRUE

\* time.Now().Before(deadline)
CodeAlive == now < deadline

\* The head of the loop: it looks at the deadline before it sleeps.
KeepPolling ==
    /\ pc = "loop" /\ CodeAlive
    /\ pc' = "sleeping" /\ wake' = now + interval
    /\ UNCHANGED <<now, interval, deadline, sent, result, provider, history>>
Expire ==
    /\ pc = "loop" /\ ~CodeAlive
    /\ Return("expired")
    /\ UNCHANGED <<now, interval, deadline, wake, sent, provider, history>>

Poll ==
    /\ pc = "sleeping" /\ now >= wake
    /\ pc' = "polling" /\ sent' = now
    /\ UNCHANGED <<now, interval, deadline, wake, result, provider, history>>

\* The poll failed on its way there or back, or the answer is no JSON.
AnswerLost ==
    /\ pc = "polling"
    /\ pc' = "loop" /\ reply' = "none" /\ lostAt' = now
    /\ UNCHANGED <<now, interval, deadline, wake, sent, result, grant, expiry,
                   device, slowdowns, approvedAt>>

Receive(answer) ==
    /\ pc = "polling" /\ reply = answer
    /\ reply' = "none"
    /\ UNCHANGED <<now, deadline, wake, sent, grant, expiry, device, approvedAt>>

ReceivePending ==
    /\ Receive("authorization_pending")
    /\ pc' = "loop"
    /\ UNCHANGED <<interval, result, slowdowns, lostAt>>

\* A plausible bug in the switch: slow_down is an error like any other.
ReceiveSlowDownAsError ==
    /\ Receive("slow_down")
    /\ Return("refused")
    /\ UNCHANGED <<interval, slowdowns, lostAt>>

ReceiveSlowDown ==
    /\ Receive("slow_down")
    /\ pc' = "loop"
    /\ interval' = interval + MinInterval
    /\ slowdowns' = slowdowns + 1
    /\ UNCHANGED <<result, lostAt>>

\* A plausible bug in the switch: no error is taken for success.
ReceiveEmptyAsToken ==
    /\ Receive("empty")
    /\ Return("token")
    /\ lostAt' = now
    /\ UNCHANGED <<interval, slowdowns>>

\* Neither error nor token: the switch falls through and the loop goes on.
ReceiveEmpty ==
    /\ Receive("empty")
    /\ pc' = "loop"
    /\ lostAt' = now
    /\ UNCHANGED <<interval, result, slowdowns>>

ReceiveToken ==
    /\ Receive("token")
    /\ Return("token")
    /\ UNCHANGED <<interval, slowdowns, lostAt>>

ReceiveError ==
    /\ Receive("error")
    /\ Return("refused")
    /\ UNCHANGED <<interval, slowdowns, lostAt>>

\* Nothing is left to do once the flow returned, or the clock stopped.
Returned == (pc = "done" \/ now + Granule > Horizon) /\ UNCHANGED vars

-----------------------------------------------------------------------------

Client ==
    \/ ReceiveCode \/ KeepPolling \/ Expire \/ Poll
    \/ ReceivePending \/ ReceiveSlowDown \/ ReceiveEmpty
    \/ ReceiveToken \/ ReceiveError
Provider == IssueCode \/ AnswerToken \/ AnswerPending \/ AnswerError \/ AnswerEmpty

Next ==
    \/ Tick \/ Client \/ Provider \/ RequestFails \/ AnswerLost \/ Returned
    \/ UserDecides("approved") \/ UserDecides("denied")

Spec == Init /\ [][Next]_vars

\* The client goes on when it can, and time does.  Nothing is promised of the
\* user, the provider and the network.
FairSpec == Spec /\ WF_vars(Client) /\ WF_vars(Tick)

-----------------------------------------------------------------------------

\* The state is well formed; the pause is never below five seconds.
TypeOK ==
    /\ {now, deadline, wake, sent, expiry, slowdowns} \subseteq Nat
    /\ interval \in Nat /\ interval >= MinInterval
    /\ pc \in {"request", "loop", "sleeping", "polling", "done"}
    /\ result \in {"none", "token", "expired", "refused", "failed"}
    /\ grant \in {"none", "pending", "approved", "denied", "used"}
    /\ reply \in {"none", "authorization_pending", "slow_down", "token",
                   "error", "empty"}
    /\ device \in [expires_in : Nat, interval : Int]
    /\ {approvedAt, lostAt} \subseteq Nat \cup {Never}

\* RFC 8628, which the flow cites: between two polls lie at least the announced
\* interval, five seconds when it is smaller, and five more for every slow_down
\* received so far.
PollsSpaced ==
    [][sent' # sent /\ pc = "sleeping" =>
          /\ sent' - sent >= MinInterval + MinInterval * slowdowns
          /\ sent' - sent >= device.interval + MinInterval * slowdowns]_vars

\* The deadline is looked at before the sleep, so the last poll may come after
\* it, by less than the pause and never more.
LastPollBounded == pc = "polling" => sent < deadline + interval

\* The outcome is deserved: a token only when the user approved and the
\* provider issued it, a refusal only when the user denied, the code ran out,
\* or the one token was lost on its way.
ResultDeserved ==
    /\ result = "token" => approvedAt # Never /\ grant = "used"
    /\ result = "refused" =>
           \/ grant = "denied" \/ now >= expiry
           \/ grant = "used" /\ lostAt >= approvedAt

\* An approval is not missed: when the flow ends without the token although the
\* user approved, an answer was lost after that, or the user was too late, by
\* the pause and the time two requests may take.
ApprovalNotMissed ==
    pc = "done" /\ result # "token" /\ approvedAt # Never =>
        \/ lostAt >= approvedAt
        \/ approvedAt + interval + 2 * MaxDelay >= expiry

\* The flow returns unless a request is never answered.
FlowReturns == <>(pc = "done") \/ <>[](pc \in {"request", "polling"})

=============================================================================
