--------------------------- MODULE QueryContract ---------------------------
(***************************************************************************)
(* What the gateway promises of a query, without saying how: it is         *)
(* declined and leaves no trace, or it is handed to the client of its      *)
(* backend once, and settled once, with a reply and at most one usage row. *)
(*                                                                         *)
(* A result is only ever given for an effect; an error says nothing: the   *)
(* operation may have taken effect, or do so later.  That a client library *)
(* sends a command again when a connection breaks is below this level.     *)
(***************************************************************************)
CONSTANT Requests

VARIABLES
    stage,      \* new, submitted, or settled
    clearance,  \* what token, policy and configuration allow: none of it,
                \* the resource, or the operation on it
    effect,     \* "not sent", "sent" to the backend's client, "ran"
    reply,      \* none, declined, error, result
    rows        \* the "success" of its usage rows

vars == <<stage, clearance, effect, reply, rows>>

Clearances == {"none", "resource", "operation"}

Init ==
    /\ stage = [r \in Requests |-> "new"]
    /\ clearance \in [Requests -> Clearances]
    /\ effect = [r \in Requests |-> "not sent"]
    /\ reply = [r \in Requests |-> "none"]
    /\ rows = [r \in Requests |-> {}]

Submit(r) ==
    /\ stage[r] = "new"
    /\ stage' = [stage EXCEPT ![r] = "submitted"]
    /\ \E c \in Clearances : clearance' = [clearance EXCEPT ![r] = c]
    /\ UNCHANGED <<effect, reply, rows>>

\* Refused, or no query at all.
Decline(r) ==
    /\ stage[r] = "submitted" /\ effect[r] = "not sent"
    /\ stage' = [stage EXCEPT ![r] = "settled"]
    /\ reply' = [reply EXCEPT ![r] = "declined"]
    /\ UNCHANGED <<clearance, effect, rows>>

Send(r) ==
    /\ stage[r] = "submitted" /\ clearance[r] = "operation" /\ effect[r] = "not sent"
    /\ effect' = [effect EXCEPT ![r] = "sent"]
    /\ UNCHANGED <<stage, clearance, reply, rows>>

\* The backend's own time: also after the reply.
TakeEffect(r) ==
    /\ effect[r] = "sent"
    /\ effect' = [effect EXCEPT ![r] = "ran"]
    /\ UNCHANGED <<stage, clearance, reply, rows>>

\* A row may be missing, as when the meter failed or is off.  One that is there
\* says what is so.
Settle(r) ==
    /\ stage[r] = "submitted" /\ clearance[r] # "none"
    /\ stage' = [stage EXCEPT ![r] = "settled"]
    /\ \E how \in {"error", "result"}, row \in {{}, {TRUE}, {FALSE}} :
          /\ how = "result" => effect[r] = "ran" /\ row # {FALSE}
          /\ row = {TRUE} => effect[r] = "ran"
          /\ reply' = [reply EXCEPT ![r] = how]
          /\ rows' = [rows EXCEPT ![r] = row]
    /\ UNCHANGED <<clearance, effect>>

Next ==
    \E r \in Requests :
        Submit(r) \/ Decline(r) \/ Send(r) \/ TakeEffect(r) \/ Settle(r)

Spec == Init /\ [][Next]_vars

-----------------------------------------------------------------------------

Stages == {"new", "submitted", "settled"}
Effects == {"not sent", "sent", "ran"}
Replies == {"none", "declined", "error", "result"}

TypeOK ==
    /\ stage \in [Requests -> Stages]
    /\ clearance \in [Requests -> Clearances]
    /\ effect \in [Requests -> Effects]
    /\ reply \in [Requests -> Replies]
    /\ rows \in [Requests -> {{}, {TRUE}, {FALSE}}]

\* What a client can conclude from a reply, and an auditor from the rows: a result
\* or a success means the effect, of an operation that was allowed; what was
\* declined never has one, now or later; reply and row do not contradict each
\* other; there is neither before the query is settled.
Honest ==
    \A r \in Requests :
        /\ effect[r] # "not sent" => stage[r] # "new" /\ clearance[r] = "operation"
        /\ reply[r] = "result" \/ rows[r] = {TRUE} => effect[r] = "ran"
        /\ reply[r] = "result" => rows[r] # {FALSE}
        /\ reply[r] = "declined" => effect[r] = "not sent" /\ rows[r] = {}
        /\ reply[r] = "none" <=> stage[r] # "settled"
        /\ rows[r] # {} => stage[r] = "settled" /\ clearance[r] # "none"

\* An effect goes one way, and a query that was settled without having been sent
\* never has one; reply, rows and what the query may do are final once settled.
SettlesForGood ==
    \A r \in Requests :
        /\ effect[r] = "ran" => effect'[r] = "ran"
        /\ effect[r] = "sent" => effect'[r] # "not sent"
        /\ stage[r] = "settled" =>
              /\ stage'[r] = "settled" /\ clearance'[r] = clearance[r]
              /\ reply'[r] = reply[r] /\ rows'[r] = rows[r]
              /\ effect[r] = "not sent" => effect'[r] = "not sent"

Final == [][SettlesForGood]_vars

=============================================================================
