------------------------------ MODULE Startup ------------------------------
(***************************************************************************)
(* The serve command of cmd/agent-mcp-gateway, from loading its            *)
(* configuration to the end of its deferred calls: what each step opens,   *)
(* what happens when one fails, and what is closed on the way out.         *)
(*                                                                         *)
(*   internal/config     Load                                              *)
(*   internal/auth       NewOIDCAuthenticator                              *)
(*   internal/tunnel     New, Close                                        *)
(*   internal/resources  NewManager, the constructors of the backends      *)
(*   internal/metering   NewSQLiteMeter                                    *)
(*                                                                         *)
(* What happens while the server runs is module Gateway.                   *)
(***************************************************************************)
EXTENDS Naturals, Sequences, Config

CONSTANTS
    RawConfigs,     \* configurations as parsed, before the expansion
    Names           \* the resources they configure

\* The settings that decide about startup.  "bad" is text that what it is meant
\* for does not accept, "no db" a MongoDB URI without the name of a database.
Texts == {"", "good", "bad", "no db"} \cup References
RawConfig ==
    [issuer      : Texts,
     client_id   : Texts,
     group       : Texts,       \* the group of an access rule
     private_key : Texts,       \* of the tunnel
     wireguard   : Texts,       \* its addresses and the peer's key
     types       : [Names -> STRING],
     address     : [Names -> Texts],    \* host, URI, DSN or URL
     metering    : BOOLEAN]

ASSUME StartupAssumption ==
    /\ RawConfigs \subseteq RawConfig
    /\ DOMAIN Environ \subseteq References
    /\ \A ref \in DOMAIN Environ : Environ[ref] \in Texts

VARIABLES
    pc,         \* the step of serveCmd
    raw,        \* the configuration as parsed
    cfg,        \* the configuration after Load
    authn,      \* the authenticator, or nil
    device,     \* the WireGuard device: none, open, closed
    client,     \* the clients of the resources: none, open, closed, leaked
    dialer,     \* how a client dials: directly or through the tunnel
    meter,      \* the usage database: none, open, closed
    defers,     \* the deferred calls, the last one last
    result      \* what RunE returns

opened == <<authn, device, client, dialer, meter>>
vars   == <<pc, raw, cfg, opened, defers, result>>

Init ==
    /\ pc = "load"
    /\ raw \in RawConfigs /\ cfg = raw
    /\ authn = "nil" /\ device = "none" /\ meter = "none"
    /\ client = [n \in Names |-> "none"]
    /\ dialer = [n \in Names |-> "none"]
    /\ defers = <<>> /\ result = "none"

-----------------------------------------------------------------------------

Deferred(call) == call \in {defers[i] : i \in DOMAIN defers}

GoTo(step) == pc' = step /\ UNCHANGED <<raw, result>>

\* return err: the deferred calls run.
ReturnError == pc' = "return" /\ result' = "error" /\ UNCHANGED raw

LoadConfig ==
    /\ pc = "load"
    /\ cfg' =
         [raw EXCEPT
            !.issuer      = Load(SettingWay, @),
            !.client_id   = Load(SettingWay, @),
            !.group       = Load(RuleWay, @),
            !.private_key = Load(SettingWay, @),
            !.wireguard   = Load(SettingWay, @),
            !.address     = [n \in Names |-> Load(ResourceWay, raw.address[n])]]
    /\ GoTo("authenticator")
    /\ UNCHANGED <<opened, defers>>

\* The file cannot be read, or is no YAML.
LoadFails ==
    /\ pc = "load"
    /\ ReturnError
    /\ UNCHANGED <<cfg, opened, defers>>

\* NewOIDCAuthenticator asks the provider for its keys.
CreateAuthenticator ==
    /\ pc = "authenticator" /\ cfg.issuer = "good" /\ cfg.client_id # ""
    /\ authn' = "ready"
    /\ GoTo("tunnel")
    /\ UNCHANGED <<cfg, device, client, dialer, meter, defers>>

\* The provider does not answer, is no provider, or is not configured: startup
\* goes on without an authenticator.
NoAuthenticator ==
    /\ pc = "authenticator"
    /\ GoTo("tunnel")
    /\ UNCHANGED <<cfg, opened, defers>>

\* tunnel.New succeeds.
CreateTunnel ==
    /\ pc = "tunnel" /\ cfg.private_key = "good" /\ cfg.wireguard = "good"
    /\ device' = "open"
    /\ defers' = Append(defers, "tunnel")
    /\ GoTo("resources")
    /\ UNCHANGED <<cfg, authn, client, dialer, meter>>

\* A plausible bug in New: it returns an error and leaves the device open.
TunnelFailsNoClose ==
    /\ pc = "tunnel" /\ cfg.private_key # ""
    /\ device' \in {"none", "open"}
    /\ GoTo("resources")
    /\ UNCHANGED <<cfg, authn, client, dialer, meter, defers>>

\* tunnel.New fails: before there is a device, for an address that does not
\* parse, or after that, for a key, the IPC configuration or the interface.
\* Startup goes on with direct connections.
TunnelFails ==
    /\ pc = "tunnel" /\ cfg.private_key # ""
    /\ device' \in {"none", "closed"}
    /\ GoTo("resources")
    /\ UNCHANGED <<cfg, authn, client, dialer, meter, defers>>

NoTunnel ==
    /\ pc = "tunnel" /\ cfg.private_key = ""
    /\ GoTo("resources")
    /\ UNCHANGED <<cfg, opened, defers>>

-----------------------------------------------------------------------------
(* NewManager                                                              *)

\* What the constructors make of their address: they parse it and connect later.
\* newMongoResource looks for the name of the database once it is connected.
\* A reference that Load left is neither a URI nor a DSN, but will do as a host.
NewRedis(host) == IF host = "" THEN "none" ELSE "open"
NewMongo(uri)  == IF uri \in {"", "bad"} \cup References THEN "none"
                  ELSE IF uri = "no db" THEN "leaked" ELSE "open"
NewMySQL(dsn)  == IF dsn \in {"", "bad"} \cup References THEN "none" ELSE "open"
NewES(url)     == IF url \in {"", "bad"} THEN "none" ELSE "open"

Construct(type, address) ==
    CASE type = "redis"         -> NewRedis(address)
      [] type = "mongodb"       -> NewMongo(address)
      [] type = "mysql"         -> NewMySQL(address)
      [] type = "elasticsearch" -> NewES(address)
      [] OTHER                  -> "none"

Constructed(n) == Construct(cfg.types[n], cfg.address[n])

\* One round of the loop over the map, whose order is arbitrary.
CreateClient(n) ==
    /\ pc = "resources" /\ client[n] = "none"
    /\ Constructed(n) = "open"
    /\ client' = [client EXCEPT ![n] = "open"]
    /\ dialer' = [dialer EXCEPT ![n] = IF Deferred("tunnel") THEN "tunnel"
                                                           ELSE "direct"]
    /\ UNCHANGED <<pc, raw, cfg, authn, device, meter, defers, result>>

\* m.resources at any time, and each of its clients closed.
Stored == {n \in Names : client[n] = "open"}
CloseStored == [n \in Names |-> IF n \in Stored THEN "closed" ELSE client[n]]

\* A plausible bug: the error is returned at once.
ClientFailsNoCleanup(n) ==
    /\ pc = "resources" /\ client[n] = "none"
    /\ Constructed(n) # "open"
    /\ client' = [client EXCEPT ![n] = Constructed(n)]
    /\ ReturnError
    /\ UNCHANGED <<cfg, authn, device, dialer, meter, defers>>

\* A constructor fails: NewManager closes what it stored before.
ClientFails(n) ==
    /\ pc = "resources" /\ client[n] = "none"
    /\ Constructed(n) # "open"
    /\ client' = [CloseStored EXCEPT ![n] = Constructed(n)]
    /\ ReturnError
    /\ UNCHANGED <<cfg, authn, device, dialer, meter, defers>>

ManagerReady ==
    /\ pc = "resources" /\ Stored = Names
    /\ defers' = Append(defers, "manager")
    /\ GoTo("meter")
    /\ UNCHANGED <<cfg, opened>>

-----------------------------------------------------------------------------

OpenMeter ==
    /\ pc = "meter" /\ cfg.metering
    /\ meter' = "open"
    /\ defers' = Append(defers, "meter")
    /\ GoTo("signals")
    /\ UNCHANGED <<cfg, authn, device, client, dialer>>

\* NewSQLiteMeter cannot create its table, and closes the database again.
MeterFails ==
    /\ pc = "meter" /\ cfg.metering
    /\ meter' = "closed"
    /\ ReturnError
    /\ UNCHANGED <<cfg, authn, device, client, dialer, defers>>

NoMeter ==
    /\ pc = "meter" /\ ~cfg.metering
    /\ GoTo("signals")
    /\ UNCHANGED <<cfg, opened, defers>>

\* signal.NotifyContext, and httpSrv.Start.
Serve ==
    /\ pc = "signals"
    /\ defers' = Append(defers, "stop")
    /\ GoTo("serving")
    /\ UNCHANGED <<cfg, opened>>

\* Start returns, with the error of the listener or of the drain, or with nil.
StartReturns ==
    /\ pc = "serving"
    /\ pc' = "return" /\ result' \in {"error", "ok"}
    /\ UNCHANGED <<raw, cfg, opened, defers>>

\* A plausible misunderstanding: deferred calls run in the order they were made.
RunsInOrder(call) ==
    /\ pc = "return" /\ defers # <<>> /\ Head(defers) = call
    /\ defers' = Tail(defers)
    /\ UNCHANGED <<pc, raw, cfg, authn, dialer, result>>

\* The call that was deferred last runs first.
Runs(call) ==
    /\ pc = "return" /\ defers # <<>> /\ defers[Len(defers)] = call
    /\ defers' = SubSeq(defers, 1, Len(defers) - 1)
    /\ UNCHANGED <<pc, raw, cfg, authn, dialer, result>>

StopSignals  == Runs("stop") /\ UNCHANGED <<device, client, meter>>
CloseMeter   == Runs("meter") /\ meter' = "closed" /\ UNCHANGED <<device, client>>
CloseManager == Runs("manager") /\ client' = CloseStored /\ UNCHANGED <<device, meter>>
CloseTunnel  == Runs("tunnel") /\ device' = "closed" /\ UNCHANGED <<client, meter>>

Exit ==
    /\ pc = "return" /\ defers = <<>>
    /\ pc' = "exited"
    /\ UNCHANGED <<raw, cfg, opened, defers, result>>

\* A SIGINT or SIGTERM ends the process on the spot, unless the context of
\* Start catches it.
Killed ==
    /\ pc \notin {"exited", "killed"}
    /\ ~Deferred("stop")
    /\ pc' = "killed"
    /\ UNCHANGED <<raw, cfg, opened, defers, result>>

Next ==
    \/ LoadConfig \/ LoadFails \/ CreateAuthenticator \/ NoAuthenticator
    \/ CreateTunnel \/ TunnelFails \/ NoTunnel
    \/ \E n \in Names : CreateClient(n) \/ ClientFails(n)
    \/ ManagerReady \/ OpenMeter \/ MeterFails \/ NoMeter \/ Serve
    \/ StartReturns \/ StopSignals \/ CloseMeter \/ CloseManager \/ CloseTunnel
    \/ Exit \/ Killed

Spec == Init /\ [][Next]_vars

-----------------------------------------------------------------------------

\* The state is well formed: in particular a call is deferred when what it closes
\* is there, and deferred once.
TypeOK ==
    /\ pc \in {"load", "authenticator", "tunnel", "resources", "meter", "signals",
               "serving", "return", "exited", "killed"}
    /\ {raw, cfg} \subseteq RawConfig
    /\ authn \in {"nil", "ready"}
    /\ {device, meter} \subseteq {"none", "open", "closed"}
    /\ client \in [Names -> {"none", "open", "closed", "leaked"}]
    /\ dialer \in [Names -> {"none", "direct", "tunnel"}]
    /\ defers \in Seq({"tunnel", "manager", "meter", "stop"})
    /\ \A i, j \in DOMAIN defers : defers[i] = defers[j] => i = j
    /\ Deferred("tunnel") <=> device = "open"
    /\ Deferred("meter") <=> meter = "open"
    /\ Deferred("manager") => Stored = Names
    /\ result \in {"none", "error", "ok"}

\* Whichever step failed, and however the server ended: what was opened is closed
\* when the process exits by itself.  One client gets away, that of a MongoDB URI
\* without a database name, whose constructor returns an error once it is
\* connected.  (The deferred calls of serveCmd, the cleanup in NewManager.)
NothingLeftOpen ==
    pc = "exited" =>
        /\ device # "open" /\ meter # "open" /\ Stored = {}
        /\ \A n \in Names : client[n] = "leaked" =>
               /\ cfg.types[n] = "mongodb" /\ cfg.address[n] = "no db"
               /\ result = "error"

\* The tunnel is never closed under a client that dials through it, and the usage
\* database is closed before any client is: the calls a server that stopped late
\* left behind fail in their order.
TunnelLast ==
    /\ device = "closed" => \A n \in Stored : dialer[n] # "tunnel"
    /\ meter = "open" => Stored = Names

\* What a configured text stands for: a reference for what the environment has, word
\* for word, even if that reads as a reference again; any other text for itself.
StandsFor(text, value) ==
    /\ text \in DOMAIN Environ => value = Environ[text]
    /\ text \in References \ DOMAIN Environ => value = ""
    /\ text \notin References => value = text

\* The server starts with what is configured and nothing else: every resource has
\* its client, which dials through the tunnel if and only if there is one; every
\* reference to the environment is replaced, and what replaces it is not read for
\* references; an authenticator, a tunnel and a usage database are there only if
\* configured.  (The walk of expandEnvVars, expandString, the steps of serveCmd.)
ServesWhatIsConfigured ==
    pc = "serving" =>
        /\ Stored = Names
        /\ \A n \in Names :
              /\ dialer[n] = "tunnel" <=> device = "open"
              /\ StandsFor(raw.address[n], cfg.address[n])
        /\ StandsFor(raw.group, cfg.group)
        /\ meter = "open" <=> raw.metering
        /\ authn = "ready" => StandsFor(raw.issuer, "good") /\ ~StandsFor(raw.client_id, "")
        /\ device = "open" => StandsFor(raw.private_key, "good")

-----------------------------------------------------------------------------
(* The abstract specification                                              *)

Phase == CASE pc = "serving" -> "serving"
           [] pc = "return" -> "stopping"
           [] pc \in {"exited", "killed"} -> "over"
           [] OTHER -> "starting"

Life == INSTANCE Lifecycle WITH
    Clients <- Names, phase <- Phase, tunnel <- device = "open", clients <- Stored,
    meter <- meter = "open"

\* Tunnel, clients and meter open and close in layers, also when a step fails, a
\* constructor cleans up or a signal comes in between.  (The order of the steps and
\* of the deferred calls of serveCmd, the cleanup in NewManager.)
KeepsLifecycle == Life!Spec

=============================================================================
