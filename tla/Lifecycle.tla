------------------------------ MODULE Lifecycle ------------------------------
(***************************************************************************)
(* What the serve command promises of the things it opens, without saying  *)
(* how: the WireGuard tunnel below, the clients of the resources on it,    *)
(* the usage database on top.  They open from below and close from above,  *)
(* and stay as they are while the server runs.                             *)
(*                                                                         *)
(* Startup implements it from the start of the process, Gateway from the   *)
(* moment the server runs: the state between the two is Serving.           *)
(***************************************************************************)
CONSTANT Clients    \* the resources of the configuration

VARIABLES
    phase,      \* starting, serving, stopping, or over
    tunnel,     \* the tunnel is open
    clients,    \* the resources whose client is open
    meter       \* the usage database is open

vars == <<phase, tunnel, clients, meter>>

Init ==
    /\ phase = "starting"
    /\ tunnel = FALSE /\ clients = {} /\ meter = FALSE

OpenTunnel ==
    /\ phase = "starting" /\ clients = {} /\ ~meter /\ ~tunnel
    /\ tunnel' = TRUE
    /\ UNCHANGED <<phase, clients, meter>>

OpenClient(c) ==
    /\ phase = "starting" /\ ~meter /\ c \notin clients
    /\ clients' = clients \cup {c}
    /\ UNCHANGED <<phase, tunnel, meter>>

OpenMeter ==
    /\ phase = "starting" /\ clients = Clients /\ ~meter
    /\ meter' = TRUE
    /\ UNCHANGED <<phase, tunnel, clients>>

\* A step of the startup fails: the clients are all there, or none stays.
Abandon ==
    /\ phase = "starting" /\ ~meter
    /\ phase' = "stopping"
    /\ clients' = {} \/ (clients = Clients /\ UNCHANGED clients)
    /\ UNCHANGED <<tunnel, meter>>

Serve ==
    /\ phase = "starting" /\ clients = Clients
    /\ phase' = "serving"
    /\ UNCHANGED <<tunnel, clients, meter>>

Stop ==
    /\ phase = "serving"
    /\ phase' = "stopping"
    /\ UNCHANGED <<tunnel, clients, meter>>

CloseMeter ==
    /\ phase = "stopping" /\ meter
    /\ meter' = FALSE
    /\ UNCHANGED <<phase, tunnel, clients>>

\* One client, some, or all of them.
CloseClients ==
    /\ phase = "stopping" /\ ~meter
    /\ clients' \in SUBSET clients
    /\ UNCHANGED <<phase, tunnel, meter>>

CloseTunnel ==
    /\ phase = "stopping" /\ ~meter /\ clients = {} /\ tunnel
    /\ tunnel' = FALSE
    /\ UNCHANGED <<phase, clients, meter>>

\* By itself or by a signal, which is caught while the server runs.
End ==
    /\ phase \in {"starting", "stopping"}
    /\ phase' = "over"
    /\ UNCHANGED <<tunnel, clients, meter>>

Next ==
    \/ OpenTunnel \/ (\E c \in Clients : OpenClient(c)) \/ OpenMeter
    \/ Abandon \/ Serve \/ Stop
    \/ CloseMeter \/ CloseClients \/ CloseTunnel \/ End

Spec == Init /\ [][Next]_vars

-----------------------------------------------------------------------------

\* Where Startup ends and Gateway begins.
Serving ==
    /\ phase = "serving" /\ clients = Clients
    /\ tunnel \in BOOLEAN /\ meter \in BOOLEAN

\* The meter and the server have every client below them.
Layered ==
    /\ clients \subseteq Clients
    /\ meter \/ phase = "serving" => clients = Clients

\* The tunnel never changes under a client, nor a client under the meter; and
\* what is open while the server runs stays, and nothing opens after that.
KeepsLayers ==
    /\ tunnel' # tunnel => clients = {} /\ clients' = {} /\ ~meter
    /\ clients' # clients => ~meter /\ ~meter'
    /\ phase = "serving" => UNCHANGED <<tunnel, clients, meter>>
    /\ phase # "starting" =>
          (tunnel' => tunnel) /\ clients' \subseteq clients /\ (meter' => meter)

InLayers == [][KeepsLayers]_vars

=============================================================================
