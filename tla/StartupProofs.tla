--------------------------- MODULE StartupProofs ---------------------------
(***************************************************************************)
(* What serve opens is closed, in the right order, for any configuration   *)
(* and whichever step fails.                                               *)
(***************************************************************************)
EXTENDS Startup, SequenceTheorems, TLAPS

Calls == {"tunnel", "manager", "meter", "stop"}

\* The calls are deferred in this order, each at most once.
Rank == [c \in Calls |-> CASE c = "tunnel" -> 1 [] c = "manager" -> 2
                           [] c = "meter" -> 3 [] c = "stop" -> 4]
Once == \A i, j \in DOMAIN defers : defers[i] = defers[j] => i = j
Ordered == \A i, j \in DOMAIN defers : i < j => Rank[defers[i]] < Rank[defers[j]]

\* How far startup has got, what it can have deferred and opened.
Progress ==
    /\ pc \in {"load", "authenticator", "tunnel"} =>
           /\ \A c \in Calls : ~Deferred(c)
           /\ device = "none" /\ client = [n \in Names |-> "none"]
    /\ pc = "resources" => \A c \in Calls : Deferred(c) => c = "tunnel"
    /\ pc = "meter" => \A c \in Calls : Deferred(c) => c \in {"tunnel", "manager"}
    /\ pc = "signals" => \A c \in Calls : Deferred(c) => c \in {"tunnel", "manager", "meter"}
    /\ pc \in {"load", "authenticator"} => authn = "nil"
    /\ pc \in {"load", "authenticator", "tunnel", "resources", "meter"} => meter = "none"
    /\ pc = "exited" => \A c \in Calls : ~Deferred(c)

\* Whoever stored clients has deferred their Close, or has closed them.
Closable ==
    /\ pc \in {"meter", "signals", "serving"} => Deferred("manager")
    /\ pc \in {"return", "exited"} /\ Stored # {} => Deferred("manager")
    /\ Deferred("meter") => Deferred("manager")

Dialled == \A n \in Stored : dialer[n] = "tunnel" <=> device = "open"

Leaks ==
    \A n \in Names : client[n] = "leaked" =>
        /\ pc \in {"return", "exited", "killed"} /\ result = "error"
        /\ cfg.types[n] = "mongodb" /\ cfg.address[n] = "no db"

\* From Load to the end of Start the configuration is the expanded one, and what
\* is there is there because of it.
Configured ==
    /\ pc \in {"authenticator", "tunnel", "resources", "meter", "signals", "serving"} =>
           /\ \A n \in Names : cfg.address[n] = Expand(raw.address[n])
           /\ cfg.group = Expand(raw.group)
           /\ cfg.issuer = Expand(raw.issuer) /\ cfg.client_id = Expand(raw.client_id)
           /\ cfg.private_key = Expand(raw.private_key)
           /\ cfg.metering = raw.metering
    /\ authn = "ready" => cfg.issuer = "good" /\ cfg.client_id # ""
    /\ device = "open" => cfg.private_key = "good"
    /\ pc \in {"signals", "serving"} => (meter = "open" <=> cfg.metering)

IInv == TypeOK /\ Ordered /\ Progress /\ Closable /\ Dialled /\ Leaks /\ Configured

-----------------------------------------------------------------------------
(* The configuration                                                       *)

\* Load gets to the three kinds of settings that the startup looks at.
LEMMA WaysReached == Reached(SettingWay) /\ Reached(RuleWay) /\ Reached(ResourceWay)
  <1>1. /\ Below("settable", "struct") = "settable" /\ Below("settable", "slice") = "settable"
        /\ Below("settable", "map") = "map value" /\ Below("map value", "struct") = "settable"
    BY DEF Below, ExpandEnvVars, ExpandMapValue
  <1>2. Reached(SettingWay)
    <2> DEFINE place == [i \in 0..3 |-> "settable"]
    <2>1. Len(SettingWay) = 3 /\ \A i \in 1..3 : SettingWay[i] = "struct"
      BY DEF SettingWay
    <2>2. /\ place \in [0..3 -> Places] /\ place[0] = "settable" /\ place[3] = "settable"
          /\ \A i \in 1..3 : place[i] = "settable" /\ place[i - 1] = "settable"
      BY DEF Places
    <2> HIDE DEF place
    <2> QED BY <1>1, <2>1, <2>2 DEF Reached
  <1>3. Reached(RuleWay)
    <2> DEFINE place == [i \in 0..4 |-> "settable"]
    <2>1. Len(RuleWay) = 4 /\ \A i \in 1..4 : RuleWay[i] \in {"struct", "slice"}
      BY DEF RuleWay
    <2>2. /\ place \in [0..4 -> Places] /\ place[0] = "settable" /\ place[4] = "settable"
          /\ \A i \in 1..4 : place[i] = "settable" /\ place[i - 1] = "settable"
      BY DEF Places
    <2> HIDE DEF place
    <2>3. \A i \in 1..4 : place[i] = Below(place[i - 1], RuleWay[i])
      BY <1>1, <2>1, <2>2
    <2> QED BY <2>1, <2>2, <2>3 DEF Reached
  <1>4. Reached(ResourceWay)
    <2> DEFINE place == [i \in 0..3 |-> IF i = 2 THEN "map value" ELSE "settable"]
    <2>1. /\ Len(ResourceWay) = 3
          /\ ResourceWay[1] = "struct" /\ ResourceWay[2] = "map" /\ ResourceWay[3] = "struct"
      BY DEF ResourceWay
    <2>2. /\ place \in [0..3 -> Places]
          /\ place[0] = "settable" /\ place[1] = "settable"
          /\ place[2] = "map value" /\ place[3] = "settable"
      BY DEF Places
    <2> HIDE DEF place
    <2>3. \A i \in 1..3 : place[i] = Below(place[i - 1], ResourceWay[i])
      <3>1. ASSUME NEW i \in 1..3 PROVE i = 1 \/ i = 2 \/ i = 3
        OBVIOUS
      <3>2. /\ place[1] = Below(place[0], ResourceWay[1])
            /\ place[2] = Below(place[1], ResourceWay[2])
            /\ place[3] = Below(place[2], ResourceWay[3])
        BY <1>1, <2>1, <2>2
      <3>3. 1 - 1 = 0 /\ 2 - 1 = 1 /\ 3 - 1 = 2
        OBVIOUS
      <3> QED BY <3>1, <3>2, <3>3
    <2> QED BY <2>1, <2>2, <2>3 DEF Reached
  <1> QED BY <1>2, <1>3, <1>4

LEMMA ExpandedText == ASSUME NEW t \in Texts PROVE Expand(t) \in Texts
  BY StartupAssumption DEF Expand, Getenv, Texts, References

\* Expansion gives what the text stands for, also where the environment answers with
\* a reference; and there is only one thing that a text stands for.
LEMMA ExpansionIsIt ==
    ASSUME NEW text, NEW value
    PROVE  StandsFor(text, value) <=> value = Expand(text)
  BY StartupAssumption DEF StandsFor, Expand, Getenv

LEMMA InitIInv == Init => IInv
  <1> SUFFICES ASSUME Init PROVE IInv
    OBVIOUS
  <1>1. defers = <<>> /\ defers \in Seq(Calls) /\ DOMAIN defers = {} /\ Stored = {}
        /\ \A c : ~Deferred(c)
    BY DEF Init, Deferred, Stored
  <1>2. TypeOK
    BY <1>1, StartupAssumption DEF Init, TypeOK, Calls
  <1>3. Ordered /\ Progress /\ Closable /\ Dialled /\ Leaks
    BY <1>1 DEF Init, Ordered, Progress, Closable, Dialled, Leaks
  <1>4. Configured
    BY DEF Init, Configured
  <1> QED BY <1>2, <1>3, <1>4 DEF IInv

-----------------------------------------------------------------------------
(* The deferred calls                                                      *)

LEMMA RankOf == /\ Rank["tunnel"] = 1 /\ Rank["manager"] = 2
                /\ Rank["meter"] = 3 /\ Rank["stop"] = 4
  BY DEF Rank, Calls

\* Ordered calls are deferred once each.
LEMMA OnceEach ==
    ASSUME NEW s \in Seq(Calls), \A i, j \in DOMAIN s : i < j => Rank[s[i]] < Rank[s[j]]
    PROVE  \A i, j \in DOMAIN s : s[i] = s[j] => i = j
  <1>1. ASSUME NEW i \in DOMAIN s, NEW j \in DOMAIN s, s[i] = s[j], i < j PROVE FALSE
    <2>1. Rank[s[i]] \in Nat
      BY RankOf DEF Calls
    <2> QED BY <1>1, <2>1
  <1> QED BY <1>1

LEMMA PushDefer ==
    ASSUME TypeOK, Ordered, NEW call \in Calls, defers' = Append(defers, call),
           \A c \in Calls : Deferred(c) => Rank[c] < Rank[call]
    PROVE  /\ defers' \in Seq(Calls) /\ Ordered' /\ Once'
           /\ \A c \in Calls : Deferred(c)' <=> Deferred(c) \/ c = call
  <1>1. defers \in Seq(Calls)
    BY DEF TypeOK, Calls
  <1>2. /\ defers' \in Seq(Calls) /\ Len(defers') = Len(defers) + 1
        /\ defers'[Len(defers) + 1] = call
        /\ \A i \in DOMAIN defers : i \in DOMAIN defers' /\ defers'[i] = defers[i]
        /\ \A i \in DOMAIN defers' : i \in DOMAIN defers \/ i = Len(defers) + 1
        /\ Len(defers) + 1 \in DOMAIN defers'
    BY <1>1
  <1>3. \A c \in Calls : Deferred(c)' <=> Deferred(c) \/ c = call
    BY <1>2 DEF Deferred
  <1>4. \A i \in DOMAIN defers : Rank[defers[i]] < Rank[call]
    BY <1>1 DEF Deferred
  <1>5. Ordered'
    BY <1>1, <1>2, <1>4 DEF Ordered
  <1>6. Once'
    BY <1>2, <1>5, OnceEach DEF Ordered, Once
  <1> QED BY <1>2, <1>3, <1>5, <1>6

\* The call that runs is the last one, so the others come before it.
LEMMA PopDefer ==
    ASSUME TypeOK, Ordered, NEW call \in Calls, Runs(call)
    PROVE  /\ defers' \in Seq(Calls) /\ Ordered' /\ Once' /\ Deferred(call)
           /\ \A c \in Calls : Deferred(c)' <=> Deferred(c) /\ c # call
           /\ \A c \in Calls : Deferred(c) => Rank[c] <= Rank[call]
  <1>1. /\ defers \in Seq(Calls) /\ Len(defers) \in Nat \ {0} /\ defers[Len(defers)] = call
        /\ defers' = SubSeq(defers, 1, Len(defers) - 1)
    <2>1. defers \in Seq(Calls)
      BY DEF TypeOK, Calls
    <2> QED BY <2>1, EmptySeq DEF Runs
  <1>2. /\ defers' \in Seq(Calls) /\ Len(defers') = Len(defers) - 1
        /\ Len(defers) \in DOMAIN defers
        /\ \A i \in DOMAIN defers' : i \in DOMAIN defers /\ i < Len(defers) /\ defers'[i] = defers[i]
        /\ \A i \in DOMAIN defers : i \in DOMAIN defers' \/ i = Len(defers)
    <2> DEFINE n == Len(defers)
    <2>1. DOMAIN defers = 1..n /\ n \in Nat \ {0}
      BY <1>1
    <2>2. /\ defers' \in Seq(Calls) /\ Len(defers') = n - 1
          /\ \A i \in 1..(n - 1) : defers'[i] = defers[i]
      <3>1. \A i \in 1..(n - 1) : defers[i] \in Calls
        BY <1>1
      <3>2. 1 \in Int /\ n - 1 \in Int /\ (n - 1) - 1 + 1 = n - 1 /\ n - 1 >= 0
        BY <2>1
      <3> HIDE DEF n
      <3>3. /\ SubSeq(defers, 1, n - 1) \in Seq(Calls)
            /\ Len(SubSeq(defers, 1, n - 1)) = n - 1
            /\ \A i \in 1..(n - 1) : SubSeq(defers, 1, n - 1)[i] = defers[1 + i - 1]
        BY <3>1, <3>2, SubSeqProperties
      <3>4. \A i \in 1..(n - 1) : 1 + i - 1 = i
        OBVIOUS
      <3> QED BY <1>1, <3>3, <3>4 DEF n
    <2>3. DOMAIN defers' = 1..(n - 1)
      BY <2>1, <2>2
    <2> QED BY <2>1, <2>2, <2>3
  <1>3. Ordered'
    BY <1>2 DEF Ordered
  <1>4. \A i \in DOMAIN defers : i < Len(defers) => Rank[defers[i]] < Rank[call] /\ defers[i] # call
    <2>1. Rank[call] \in Nat
      BY RankOf DEF Calls
    <2> QED BY <1>1, <1>2, <2>1 DEF Ordered
  <1>5. Deferred(call) /\ \A c \in Calls : Deferred(c)' <=> Deferred(c) /\ c # call
    BY <1>1, <1>2, <1>4 DEF Deferred
  <1>6. \A c \in Calls : Deferred(c) => Rank[c] <= Rank[call]
    <2> SUFFICES ASSUME NEW c \in Calls, Deferred(c) PROVE Rank[c] <= Rank[call]
      OBVIOUS
    <2>1. PICK i \in DOMAIN defers : defers[i] = c
      BY DEF Deferred
    <2>2. Rank[call] \in Nat
      BY RankOf DEF Calls
    <2>3. i < Len(defers) \/ i = Len(defers)
      BY <1>1, <2>1
    <2> QED BY <1>1, <1>4, <2>1, <2>2, <2>3, RankOf DEF Calls
  <1>7. Once'
    BY <1>2, <1>3, OnceEach DEF Ordered, Once
  <1> QED BY <1>2, <1>3, <1>5, <1>6, <1>7

-----------------------------------------------------------------------------
(* The steps                                                               *)

\* Steps that leave the deferred calls alone keep what is said of them.
LEMMA SameDefers == ASSUME Ordered, defers' = defers
                    PROVE  Ordered' /\ \A c : Deferred(c)' <=> Deferred(c)
  BY DEF Ordered, Deferred

LEMMA LoadIInv == ASSUME IInv, LoadConfig PROVE IInv'
  <1>1. /\ pc = "load" /\ pc' = "authenticator"
        /\ UNCHANGED <<raw, authn, device, client, dialer, meter, defers, result>>
    BY DEF LoadConfig, GoTo, opened
  <1>2. raw \in RawConfig
    BY DEF IInv, TypeOK
  <1>3. \A t : /\ Load(SettingWay, t) = Expand(t) /\ Load(RuleWay, t) = Expand(t)
              /\ Load(ResourceWay, t) = Expand(t)
    BY WaysReached DEF Load
  <1>4. cfg' = [raw EXCEPT !.issuer = Expand(raw.issuer),
                           !.client_id = Expand(raw.client_id),
                           !.group = Expand(raw.group),
                           !.private_key = Expand(raw.private_key),
                           !.wireguard = Expand(raw.wireguard),
                           !.address = [n \in Names |-> Expand(raw.address[n])]]
    BY <1>2, <1>3 DEF LoadConfig, RawConfig
  <1>5. /\ {Expand(raw.issuer), Expand(raw.client_id), Expand(raw.group),
            Expand(raw.private_key), Expand(raw.wireguard)} \subseteq Texts
        /\ \A n \in Names : Expand(raw.address[n]) \in Texts
    BY <1>2, ExpandedText DEF RawConfig
  <1>6. cfg' \in RawConfig
    BY <1>2, <1>4, <1>5 DEF RawConfig
  <1>7. /\ cfg'.issuer = Expand(raw.issuer) /\ cfg'.client_id = Expand(raw.client_id)
        /\ cfg'.group = Expand(raw.group) /\ cfg'.private_key = Expand(raw.private_key)
        /\ \A n \in Names : cfg'.address[n] = Expand(raw.address[n])
        /\ cfg'.metering = raw.metering
    BY <1>2, <1>4 DEF RawConfig
  <1>8. Ordered' /\ Stored' = Stored /\ \A c : Deferred(c)' <=> Deferred(c)
    BY <1>1, SameDefers DEF IInv, Stored
  <1>9. TypeOK'
    BY <1>1, <1>6, <1>8 DEF IInv, TypeOK
  <1>10. Progress' /\ Closable' /\ Dialled'
    BY <1>1, <1>8 DEF IInv, Progress, Closable, Dialled
  <1>11. Leaks' /\ Configured'
    BY <1>1, <1>7 DEF IInv, Progress, Leaks, Configured
  <1> QED BY <1>8, <1>9, <1>10, <1>11 DEF IInv

\* The steps that go on or return without opening or closing anything.
LEMMA QuietIInv ==
    ASSUME IInv, LoadFails \/ NoAuthenticator \/ NoTunnel \/ NoMeter \/ StartReturns \/ Exit \/ Killed
    PROVE  IInv'
  <1> USE DEF LoadFails, NoAuthenticator, NoTunnel, NoMeter, StartReturns, Exit, Killed, GoTo,
              ReturnError, opened
  <1>1. UNCHANGED <<raw, cfg, authn, device, client, dialer, meter, defers>>
    OBVIOUS
  <1>2. Ordered' /\ Stored' = Stored /\ \A c : Deferred(c)' <=> Deferred(c)
    BY <1>1, SameDefers DEF IInv, Stored
  <1>3. TypeOK'
    BY <1>1, <1>2 DEF IInv, TypeOK
  <1>4. Progress'
    <2>1. Exit => \A c \in Calls : ~Deferred(c)
      BY DEF Deferred
    <2> QED BY <1>1, <1>2, <2>1 DEF IInv, Progress
  <1>5. Closable' /\ Dialled'
    <2>1. LoadFails => Stored = {}
      BY DEF IInv, Progress, Stored
    <2> QED BY <1>1, <1>2, <2>1 DEF IInv, Closable, Dialled
  <1>6. Leaks' /\ Configured'
    BY <1>1, <1>2 DEF IInv, Progress, Leaks, Configured
  <1> QED BY <1>2, <1>3, <1>4, <1>5, <1>6 DEF IInv

LEMMA AuthenticatorIInv == ASSUME IInv, CreateAuthenticator PROVE IInv'
  <1> USE DEF CreateAuthenticator, GoTo
  <1>1. Ordered' /\ Stored' = Stored /\ \A c : Deferred(c)' <=> Deferred(c)
    BY SameDefers DEF IInv, Stored
  <1>2. TypeOK'
    BY <1>1 DEF IInv, TypeOK
  <1>3. Progress' /\ Closable' /\ Dialled'
    BY <1>1 DEF IInv, Progress, Closable, Dialled
  <1>4. Leaks' /\ Configured'
    BY DEF IInv, Leaks, Configured
  <1> QED BY <1>1, <1>2, <1>3, <1>4 DEF IInv

LEMMA TunnelIInv == ASSUME IInv, CreateTunnel \/ TunnelFails PROVE IInv'
  <1> USE DEF GoTo
  <1>1. Stored = {} /\ Stored' = {} /\ device = "none" /\ \A n \in Names : client'[n] = "none"
    BY DEF IInv, Progress, CreateTunnel, TunnelFails, Stored
  <1>2. CASE CreateTunnel
    <2>1. \A c \in Calls : ~Deferred(c)
      BY <1>2 DEF CreateTunnel, IInv, Progress
    <2>2. /\ defers' \in Seq(Calls) /\ Ordered' /\ Once'
          /\ \A c \in Calls : Deferred(c)' <=> Deferred(c) \/ c = "tunnel"
      <3>1. "tunnel" \in Calls /\ defers' = Append(defers, "tunnel")
        BY <1>2 DEF CreateTunnel, Calls
      <3> QED BY <2>1, <3>1, PushDefer DEF IInv
    <2>3. TypeOK'
      BY <1>1, <1>2, <2>1, <2>2 DEF CreateTunnel, IInv, TypeOK, Once, Calls
    <2>4. Progress' /\ Closable' /\ Dialled'
      BY <1>1, <1>2, <2>1, <2>2 DEF CreateTunnel, IInv, Progress, Closable, Dialled, Calls
    <2>5. Leaks' /\ Configured'
      BY <1>1, <1>2 DEF CreateTunnel, IInv, Leaks, Configured
    <2> QED BY <2>2, <2>3, <2>4, <2>5 DEF IInv
  <1>3. CASE TunnelFails
    <2>1. Ordered' /\ \A c : Deferred(c)' <=> Deferred(c)
      BY <1>3, SameDefers DEF IInv, TunnelFails
    <2>2. TypeOK'
      BY <1>1, <1>3, <2>1 DEF TunnelFails, IInv, TypeOK
    <2>3. Progress' /\ Closable' /\ Dialled'
      BY <1>1, <1>3, <2>1 DEF TunnelFails, IInv, Progress, Closable, Dialled
    <2>4. Leaks' /\ Configured'
      BY <1>1, <1>3 DEF TunnelFails, IInv, Leaks, Configured
    <2> QED BY <2>1, <2>2, <2>3, <2>4 DEF IInv
  <1> QED BY <1>2, <1>3

LEMMA CreateClientIInv == ASSUME IInv, NEW n \in Names, CreateClient(n) PROVE IInv'
  <1> USE DEF CreateClient
  <1>1. Ordered' /\ \A c : Deferred(c)' <=> Deferred(c)
    BY SameDefers DEF IInv
  <1>2. ~Deferred("manager")
    BY DEF IInv, Progress, Calls
  <1>3. TypeOK'
    <2>1. client' \in [Names -> {"none", "open", "closed", "leaked"}]
      BY DEF IInv, TypeOK
    <2>2. dialer' \in [Names -> {"none", "direct", "tunnel"}]
      BY DEF IInv, TypeOK
    <2> QED BY <1>1, <1>2, <2>1, <2>2 DEF IInv, TypeOK
  <1>4. Progress' /\ Closable'
    BY <1>1 DEF IInv, Progress, Closable
  <1>5. Stored' = Stored \cup {n}
    BY DEF IInv, TypeOK, Stored
  <1>6. Deferred("tunnel") <=> device = "open"
    BY DEF IInv, TypeOK
  <1>7. dialer'[n] = "tunnel" <=> device = "open"
    BY <1>6 DEF IInv, TypeOK
  <1>8. \A m \in Names \ {n} : dialer'[m] = dialer[m]
    BY DEF IInv, TypeOK
  <1>9. Dialled'
    BY <1>5, <1>7, <1>8 DEF IInv, Dialled, Stored
  <1>10. Leaks' /\ Configured'
    BY DEF IInv, TypeOK, Leaks, Configured
  <1> QED BY <1>1, <1>3, <1>4, <1>9, <1>10 DEF IInv

\* Only a MongoDB URI without a database name leaks a client.
LEMMA WhatFails ==
    ASSUME NEW n \in Names, Constructed(n) # "open"
    PROVE  \/ Constructed(n) = "none"
           \/ Constructed(n) = "leaked" /\ cfg.types[n] = "mongodb" /\ cfg.address[n] = "no db"
  BY DEF Constructed, Construct, NewRedis, NewMongo, NewMySQL, NewES

LEMMA ClientFailsIInv == ASSUME IInv, NEW n \in Names, ClientFails(n) PROVE IInv'
  <1>1. /\ pc = "resources" /\ pc' = "return" /\ result' = "error"
        /\ Constructed(n) \in {"none", "leaked"}
        /\ client' = [CloseStored EXCEPT ![n] = Constructed(n)]
        /\ UNCHANGED <<raw, cfg, authn, device, dialer, meter, defers>>
    BY WhatFails DEF ClientFails, ReturnError
  <1>2. client' \in [Names -> {"none", "open", "closed", "leaked"}] /\ Stored' = {}
    BY <1>1 DEF CloseStored, Stored, IInv, TypeOK
  <1>3. \A m \in Names : client'[m] = "leaked" =>
            cfg.types[m] = "mongodb" /\ cfg.address[m] = "no db"
    <2> SUFFICES ASSUME NEW m \in Names, client'[m] = "leaked"
                 PROVE  cfg.types[m] = "mongodb" /\ cfg.address[m] = "no db"
      OBVIOUS
    <2>1. CASE m = n
      BY <1>1, <2>1, WhatFails DEF ClientFails, CloseStored
    <2>2. CASE m # n
      BY <1>1, <2>2 DEF CloseStored, IInv, Leaks
    <2> QED BY <2>1, <2>2
  <1>4. Ordered' /\ \A c : Deferred(c)' <=> Deferred(c)
    BY <1>1, SameDefers DEF IInv
  <1>5. ~Deferred("manager")
    BY <1>1 DEF IInv, Progress, Calls
  <1>6. TypeOK'
    BY <1>1, <1>2, <1>4, <1>5 DEF IInv, TypeOK
  <1>7. Progress' /\ Closable' /\ Dialled'
    BY <1>1, <1>2, <1>4 DEF IInv, Progress, Closable, Dialled
  <1>8. Leaks' /\ Configured'
    BY <1>1, <1>3 DEF IInv, Leaks, Configured
  <1> QED BY <1>4, <1>6, <1>7, <1>8 DEF IInv

LEMMA ManagerIInv == ASSUME IInv, ManagerReady PROVE IInv'
  <1>1. /\ pc = "resources" /\ pc' = "meter" /\ Stored = Names /\ Stored' = Stored
        /\ defers' = Append(defers, "manager")
        /\ UNCHANGED <<raw, cfg, authn, device, client, dialer, meter, result>>
    BY DEF ManagerReady, GoTo, opened, Stored
  <1>2. /\ defers' \in Seq(Calls) /\ Ordered' /\ Once'
        /\ \A c \in Calls : Deferred(c)' <=> Deferred(c) \/ c = "manager"
    <2>1. "manager" \in Calls /\ \A c \in Calls : Deferred(c) => Rank[c] < Rank["manager"]
      BY <1>1, RankOf DEF IInv, Progress, Calls
    <2> QED BY <1>1, <2>1, PushDefer DEF IInv
  <1>3. TypeOK'
    BY <1>1, <1>2 DEF IInv, TypeOK, Once, Calls
  <1>4. Progress' /\ Closable' /\ Dialled'
    BY <1>1, <1>2 DEF IInv, Progress, Closable, Dialled, Calls
  <1>5. Leaks' /\ Configured'
    BY <1>1 DEF IInv, Leaks, Configured
  <1> QED BY <1>2, <1>3, <1>4, <1>5 DEF IInv

LEMMA MeterIInv == ASSUME IInv, OpenMeter \/ MeterFails PROVE IInv'
  <1>1. /\ pc = "meter" /\ cfg.metering /\ meter = "none" /\ Stored' = Stored
        /\ UNCHANGED <<raw, cfg, authn, device, client, dialer>>
    BY DEF OpenMeter, MeterFails, GoTo, ReturnError, IInv, Progress, Stored
  <1>2. CASE OpenMeter
    <2>1. pc' = "signals" /\ meter' = "open" /\ result' = result /\ defers' = Append(defers, "meter")
      BY <1>2 DEF OpenMeter, GoTo
    <2>2. /\ defers' \in Seq(Calls) /\ Ordered' /\ Once'
          /\ \A c \in Calls : Deferred(c)' <=> Deferred(c) \/ c = "meter"
      <3>1. "meter" \in Calls /\ \A c \in Calls : Deferred(c) => Rank[c] < Rank["meter"]
        BY <1>1, RankOf DEF IInv, Progress, Calls
      <3> QED BY <2>1, <3>1, PushDefer DEF IInv
    <2>3. TypeOK'
      BY <1>1, <2>1, <2>2 DEF IInv, TypeOK, Once, Calls
    <2>4. Progress' /\ Closable' /\ Dialled'
      BY <1>1, <2>1, <2>2 DEF IInv, Progress, Closable, Dialled, Calls
    <2>5. Leaks' /\ Configured'
      BY <1>1, <2>1 DEF IInv, Leaks, Configured
    <2> QED BY <2>2, <2>3, <2>4, <2>5 DEF IInv
  <1>3. CASE MeterFails
    <2>1. pc' = "return" /\ meter' = "closed" /\ result' = "error" /\ defers' = defers
      BY <1>3 DEF MeterFails, ReturnError
    <2>2. Ordered' /\ \A c : Deferred(c)' <=> Deferred(c)
      BY <2>1, SameDefers DEF IInv
    <2>3. TypeOK'
      BY <1>1, <2>1, <2>2 DEF IInv, TypeOK
    <2>4. Progress' /\ Closable' /\ Dialled'
      BY <1>1, <2>1, <2>2 DEF IInv, Progress, Closable, Dialled
    <2>5. Leaks' /\ Configured'
      BY <1>1, <2>1 DEF IInv, Leaks, Configured
    <2> QED BY <2>2, <2>3, <2>4, <2>5 DEF IInv
  <1> QED BY <1>2, <1>3

LEMMA ServeIInv == ASSUME IInv, Serve PROVE IInv'
  <1>1. /\ pc = "signals" /\ pc' = "serving" /\ Stored' = Stored
        /\ defers' = Append(defers, "stop")
        /\ UNCHANGED <<raw, cfg, authn, device, client, dialer, meter, result>>
    BY DEF Serve, GoTo, opened, Stored
  <1>2. /\ defers' \in Seq(Calls) /\ Ordered' /\ Once'
        /\ \A c \in Calls : Deferred(c)' <=> Deferred(c) \/ c = "stop"
    <2>1. "stop" \in Calls /\ \A c \in Calls : Deferred(c) => Rank[c] < Rank["stop"]
      BY <1>1, RankOf DEF IInv, Progress, Calls
    <2> QED BY <1>1, <2>1, PushDefer DEF IInv
  <1>3. TypeOK'
    BY <1>1, <1>2 DEF IInv, TypeOK, Once, Calls
  <1>4. Progress' /\ Closable' /\ Dialled'
    BY <1>1, <1>2 DEF IInv, Progress, Closable, Dialled, Calls
  <1>5. Leaks' /\ Configured'
    BY <1>1 DEF IInv, Leaks, Configured
  <1> QED BY <1>2, <1>3, <1>4, <1>5 DEF IInv

\* A deferred call runs: those that were deferred after it are done.
LEMMA DeferredIInv ==
    ASSUME IInv, StopSignals \/ CloseMeter \/ CloseManager \/ CloseTunnel PROVE IInv'
  <1> USE DEF StopSignals, CloseMeter, CloseManager, CloseTunnel
  <1>1. PICK call \in Calls :
          /\ Runs(call)
          /\ device' = IF call = "tunnel" THEN "closed" ELSE device
          /\ client' = IF call = "manager" THEN CloseStored ELSE client
          /\ meter' = IF call = "meter" THEN "closed" ELSE meter
    BY DEF Calls
  <1> HIDE DEF StopSignals, CloseMeter, CloseManager, CloseTunnel
  <1>2. pc = "return" /\ UNCHANGED <<pc, raw, cfg, authn, dialer, result>>
    BY <1>1 DEF Runs
  <1>3. /\ defers' \in Seq(Calls) /\ Ordered' /\ Once' /\ Deferred(call)
        /\ \A c \in Calls : Deferred(c)' <=> Deferred(c) /\ c # call
        /\ \A c \in Calls : Deferred(c) => Rank[c] <= Rank[call]
    BY <1>1, PopDefer DEF IInv
  <1>4. Stored' = IF call = "manager" THEN {} ELSE Stored
    BY <1>1 DEF Stored, CloseStored, IInv, TypeOK
  <1>5. call = "tunnel" => Stored = {}
    <2>1. call = "tunnel" => ~Deferred("manager")
      BY <1>3, RankOf DEF Calls
    <2> QED BY <1>2, <2>1 DEF IInv, Closable
  <1>6. client' \in [Names -> {"none", "open", "closed", "leaked"}]
        /\ \A n \in Names : client'[n] = "leaked" => client[n] = "leaked"
    BY <1>1 DEF CloseStored, IInv, TypeOK
  <1>7. Deferred("manager")' => Stored' = Names
    BY <1>3, <1>4 DEF IInv, TypeOK, Calls
  <1>8. TypeOK'
    <2>1. (Deferred("tunnel") <=> device = "open")' /\ (Deferred("meter") <=> meter = "open")'
      BY <1>1, <1>3 DEF IInv, TypeOK, Calls
    <2>2. {device, meter}' \subseteq {"none", "open", "closed"}
      BY <1>1 DEF IInv, TypeOK
    <2> QED BY <1>2, <1>3, <1>6, <1>7, <2>1, <2>2 DEF IInv, TypeOK, Once, Calls
  <1>9. Progress' /\ Closable'
    <2>1. call = "manager" => ~Deferred("meter")
      BY <1>3, RankOf DEF Calls
    <2> QED BY <1>2, <1>3, <1>4, <2>1 DEF IInv, Progress, Closable, Calls
  <1>10. Dialled'
    BY <1>1, <1>2, <1>4, <1>5 DEF IInv, Dialled
  <1>11. Leaks'
    BY <1>2, <1>6 DEF IInv, Leaks
  <1>12. Configured'
    BY <1>1, <1>2 DEF IInv, Configured
  <1> QED BY <1>3, <1>8, <1>9, <1>10, <1>11, <1>12 DEF IInv

-----------------------------------------------------------------------------

LEMMA NextIInv == IInv /\ [Next]_vars => IInv'
  <1> SUFFICES ASSUME IInv, [Next]_vars PROVE IInv'
    OBVIOUS
  <1>1. CASE Next
    BY <1>1, LoadIInv, QuietIInv, AuthenticatorIInv, TunnelIInv, CreateClientIInv,
       ClientFailsIInv, ManagerIInv, MeterIInv, ServeIInv, DeferredIInv DEF Next
  <1>2. CASE UNCHANGED vars
    <2>1. UNCHANGED <<pc, raw, cfg, authn, device, client, dialer, meter, defers, result>>
      BY <1>2 DEF vars, opened
    <2>2. Ordered' /\ Stored' = Stored /\ \A c : Deferred(c)' <=> Deferred(c)
      BY <2>1, SameDefers DEF IInv, Stored
    <2>3. TypeOK'
      BY <2>1, <2>2 DEF IInv, TypeOK
    <2>4. Progress' /\ Closable' /\ Dialled'
      BY <2>1, <2>2 DEF IInv, Progress, Closable, Dialled
    <2>5. Leaks' /\ Configured'
      BY <2>1 DEF IInv, Leaks, Configured
    <2> QED BY <2>2, <2>3, <2>4, <2>5 DEF IInv
  <1> QED BY <1>1, <1>2

LEMMA AlwaysIInv == Spec => []IInv
  BY InitIInv, NextIInv, PTL DEF Spec

\* The state is well formed: a call is deferred when what it closes is there, and
\* deferred once.
THEOREM TypeCorrect == Spec => []TypeOK
  <1>1. IInv => TypeOK
    BY DEF IInv
  <1> QED BY <1>1, AlwaysIInv, PTL

\* Whichever step of serve failed, nothing it opened is open when it exits, but the
\* client of a MongoDB URI without a database name.
THEOREM NothingIsLeftOpen == Spec => []NothingLeftOpen
  <1>1. IInv => NothingLeftOpen
    BY DEF IInv, TypeOK, Progress, Closable, Leaks, NothingLeftOpen, Calls
  <1> QED BY <1>1, AlwaysIInv, PTL

\* The tunnel is never closed under a client that dials through it, and the usage
\* database is closed before any client.
THEOREM TunnelClosesLast == Spec => []TunnelLast
  <1>1. IInv => TunnelLast
    <2> SUFFICES ASSUME IInv PROVE TunnelLast
      OBVIOUS
    <2>1. device = "closed" => \A n \in Stored : dialer[n] # "tunnel"
      BY DEF IInv, Dialled
    <2>2. meter = "open" => Stored = Names
      BY DEF IInv, Closable, TypeOK
    <2> QED BY <2>1, <2>2 DEF TunnelLast
  <1> QED BY <1>1, AlwaysIInv, PTL

\* The server starts with what is configured, every reference to the environment
\* replaced by what the environment has, even if that is another reference, every
\* client behind the tunnel if there is one, and nothing else.
THEOREM ConfiguredIsServed == Spec => []ServesWhatIsConfigured
  <1>1. IInv => ServesWhatIsConfigured
    <2> SUFFICES ASSUME IInv, pc = "serving" PROVE ServesWhatIsConfigured
      BY DEF ServesWhatIsConfigured
    <2>1. Stored = Names
      BY DEF IInv, TypeOK, Closable
    <2>2. /\ \A n \in Names : StandsFor(raw.address[n], cfg.address[n])
          /\ StandsFor(raw.group, cfg.group)
          /\ authn = "ready" => StandsFor(raw.issuer, "good") /\ ~StandsFor(raw.client_id, "")
          /\ device = "open" => StandsFor(raw.private_key, "good")
      BY ExpansionIsIt DEF IInv, Configured
    <2>3. meter = "open" <=> raw.metering
      BY DEF IInv, Configured
    <2>4. \A n \in Names : dialer[n] = "tunnel" <=> device = "open"
      BY <2>1 DEF IInv, Dialled
    <2> QED BY <2>1, <2>2, <2>3, <2>4 DEF ServesWhatIsConfigured
  <1> QED BY <1>1, AlwaysIInv, PTL

-----------------------------------------------------------------------------
(* The lifecycle                                                           *)

\* While the server runs, signals are caught.
Caught == pc = "serving" => Deferred("stop")

LEMMA StepCaught == IInv /\ Caught /\ [Next]_vars => Caught'
  <1> SUFFICES ASSUME IInv, Caught, [Next]_vars, pc' = "serving" PROVE Deferred("stop")'
    BY DEF Caught
  <1>1. CASE Serve
    <2>1. defers \in Seq(Calls)
      BY DEF IInv, TypeOK, Calls
    <2>2. defers' = Append(defers, "stop")
      BY <1>1 DEF Serve
    <2>3. Len(defers) + 1 \in DOMAIN defers' /\ defers'[Len(defers) + 1] = "stop"
      BY <2>1, <2>2 DEF Calls
    <2> QED BY <2>3 DEF Deferred
  <1>2. CASE ~Serve
    <2>1. pc = "serving" /\ defers' = defers
      BY <1>2 DEF Next, LoadConfig, LoadFails, CreateAuthenticator, NoAuthenticator,
         CreateTunnel, TunnelFails, NoTunnel, CreateClient, ClientFails, ManagerReady,
         OpenMeter, MeterFails, NoMeter, StartReturns, StopSignals, CloseMeter,
         CloseManager, CloseTunnel, Runs, Exit, Killed, GoTo, ReturnError, vars
    <2> QED BY <2>1 DEF Caught, Deferred
  <1> QED BY <1>1, <1>2

\* The server never runs without serveCmd's NotifyContext in force, so a first
\* signal makes it drain and does not kill it.
THEOREM SignalsAreCaught == Spec => []Caught
  <1>1. Init => Caught
    BY DEF Init, Caught
  <1> QED BY <1>1, StepCaught, AlwaysIInv, PTL DEF Spec

\* The steps that open something.
LEMMA OpeningLife ==
    ASSUME IInv, \/ CreateTunnel \/ OpenMeter \/ \E n \in Names : CreateClient(n)
    PROVE  Life!Next
  <1>1. CASE CreateTunnel
    <2>1. /\ pc = "tunnel" /\ pc' = "resources" /\ device' = "open"
          /\ UNCHANGED <<client, meter>>
      BY <1>1 DEF CreateTunnel, GoTo
    <2>2. Stored = {} /\ Stored' = {} /\ device # "open" /\ meter # "open"
      BY <2>1 DEF IInv, Progress, Stored
    <2>3. Phase = "starting" /\ Phase' = "starting"
      BY <2>1 DEF Phase
    <2> QED BY <2>1, <2>2, <2>3 DEF Life!Next, Life!OpenTunnel
  <1>2. CASE OpenMeter
    <2>1. /\ pc = "meter" /\ pc' = "signals" /\ meter' = "open"
          /\ UNCHANGED <<client, device>>
      BY <1>2 DEF OpenMeter, GoTo
    <2>2. Stored = Names /\ Stored' = Stored /\ meter # "open"
      BY <2>1 DEF IInv, TypeOK, Progress, Closable, Stored
    <2>3. Phase = "starting" /\ Phase' = "starting"
      BY <2>1 DEF Phase
    <2> QED BY <2>1, <2>2, <2>3 DEF Life!Next, Life!OpenMeter
  <1>3. ASSUME NEW n \in Names, CreateClient(n) PROVE Life!Next
    <2>1. /\ pc = "resources" /\ pc' = pc /\ client[n] = "none"
          /\ client' = [client EXCEPT ![n] = "open"] /\ UNCHANGED <<device, meter>>
      BY <1>3 DEF CreateClient
    <2>2. n \notin Stored /\ Stored' = Stored \cup {n} /\ meter # "open"
      BY <2>1 DEF IInv, TypeOK, Progress, Stored
    <2>3. Phase = "starting" /\ Phase' = Phase
      BY <2>1 DEF Phase
    <2>4. Life!OpenClient(n)
      BY <2>1, <2>2, <2>3 DEF Life!OpenClient
    <2> QED BY <2>4 DEF Life!Next
  <1> QED BY <1>1, <1>2, <1>3

\* The steps that fail, or change nothing of the layers.
LEMMA PassingLife ==
    ASSUME IInv, \/ LoadConfig \/ CreateAuthenticator \/ NoAuthenticator
                 \/ TunnelFails \/ NoTunnel \/ ManagerReady \/ NoMeter
    PROVE  UNCHANGED Life!vars
  <1>1. /\ pc \in {"load", "authenticator", "tunnel", "resources", "meter"}
        /\ pc' \in {"authenticator", "tunnel", "resources", "meter", "signals"}
        /\ UNCHANGED <<client, meter>> /\ (device' = "open" <=> device = "open")
    BY DEF LoadConfig, CreateAuthenticator, NoAuthenticator, TunnelFails, NoTunnel,
       ManagerReady, NoMeter, GoTo, opened, IInv, Progress
  <1>2. Phase = "starting" /\ Phase' = "starting" /\ Stored' = Stored
    BY <1>1 DEF Phase, Stored
  <1> QED BY <1>1, <1>2 DEF Life!vars

LEMMA FailingLife ==
    ASSUME IInv, LoadFails \/ MeterFails \/ \E n \in Names : ClientFails(n)
    PROVE  Life!Abandon
  <1>1. /\ pc \in {"load", "resources", "meter"} /\ pc' = "return"
        /\ device' = device /\ meter # "open" /\ meter' # "open"
    BY DEF LoadFails, MeterFails, ClientFails, ReturnError, opened, IInv, Progress
  <1>2. Stored' = {} \/ (Stored = Names /\ Stored' = Stored)
    <2>1. CASE LoadFails
      BY <2>1 DEF LoadFails, opened, IInv, Progress, Stored
    <2>2. CASE MeterFails
      BY <2>2 DEF MeterFails, IInv, TypeOK, Closable, Stored
    <2>3. ASSUME NEW n \in Names, ClientFails(n) PROVE Stored' = {}
      BY <2>3 DEF ClientFails, IInv, TypeOK, CloseStored, Stored
    <2> QED BY <2>1, <2>2, <2>3
  <1>3. Phase = "starting" /\ Phase' = "stopping"
    BY <1>1 DEF Phase
  <1> QED BY <1>1, <1>2, <1>3 DEF Life!Abandon

\* The server starts and stops, and the process ends.
LEMMA PhaseLife ==
    ASSUME IInv, Caught, Serve \/ StartReturns \/ Exit \/ Killed
    PROVE  Life!Serve \/ Life!Stop \/ Life!End
  <1>1. UNCHANGED <<device, client, meter>> /\ Stored' = Stored
    BY DEF Serve, StartReturns, Exit, Killed, opened, Stored
  <1>2. CASE Serve
    <2>1. Stored = Names
      BY <1>2 DEF Serve, IInv, TypeOK, Closable
    <2>2. Phase = "starting" /\ Phase' = "serving"
      BY <1>2 DEF Serve, GoTo, Phase
    <2> QED BY <1>1, <2>1, <2>2 DEF Life!Serve
  <1>3. CASE StartReturns
    BY <1>1, <1>3 DEF StartReturns, Phase, Life!Stop
  <1>4. CASE Exit \/ Killed
    <2>1. Phase \in {"starting", "stopping"} /\ Phase' = "over"
      BY <1>4 DEF Exit, Killed, Phase, Caught, IInv, TypeOK
    <2> QED BY <1>1, <2>1 DEF Life!End
  <1> QED BY <1>2, <1>3, <1>4

\* The deferred calls close the layers from above.
LEMMA ClosingLife ==
    ASSUME IInv, StopSignals \/ CloseMeter \/ CloseManager \/ CloseTunnel
    PROVE  Life!Next \/ UNCHANGED Life!vars
  <1>1. ASSUME NEW call \in Calls, Runs(call)
        PROVE  /\ Phase = "stopping" /\ Phase' = "stopping"
               /\ Deferred(call) /\ \A c \in Calls : Deferred(c) => Rank[c] <= Rank[call]
    BY <1>1, PopDefer DEF IInv, Runs, Phase
  <1>2. CASE StopSignals
    <2>1. Phase = "stopping" /\ Phase' = "stopping"
      BY <1>1, <1>2 DEF StopSignals, Calls
    <2> QED BY <1>2, <2>1 DEF StopSignals, Stored, Life!vars
  <1>3. CASE CloseMeter
    <2>1. Phase = "stopping" /\ Phase' = "stopping" /\ meter = "open"
      BY <1>1, <1>3 DEF CloseMeter, Calls, IInv, TypeOK
    <2>2. Life!CloseMeter
      BY <1>3, <2>1 DEF CloseMeter, Stored, Life!CloseMeter
    <2> QED BY <2>2 DEF Life!Next
  <1>4. CASE CloseManager
    <2>1. Phase = "stopping" /\ Phase' = "stopping" /\ ~Deferred("meter")
      BY <1>1, <1>4, RankOf DEF CloseManager, Calls
    <2>2. meter # "open" /\ Stored' = {}
      BY <1>4, <2>1 DEF CloseManager, CloseStored, Stored, IInv, TypeOK
    <2>3. Life!CloseClients
      BY <1>4, <2>1, <2>2 DEF CloseManager, Life!CloseClients
    <2> QED BY <2>3 DEF Life!Next
  <1>5. CASE CloseTunnel
    <2>1. /\ Phase = "stopping" /\ Phase' = "stopping" /\ pc = "return"
          /\ ~Deferred("meter") /\ ~Deferred("manager") /\ Deferred("tunnel")
      BY <1>1, <1>5, RankOf DEF CloseTunnel, Runs, Calls
    <2>2. meter # "open" /\ Stored = {} /\ device = "open"
      BY <2>1 DEF IInv, TypeOK, Closable
    <2>3. Life!CloseTunnel
      BY <1>5, <2>1, <2>2 DEF CloseTunnel, Stored, Life!CloseTunnel
    <2> QED BY <2>3 DEF Life!Next
  <1> QED BY <1>2, <1>3, <1>4, <1>5

LEMMA InitLife == Init => Life!Init
  BY DEF Init, Life!Init, Phase, Stored

LEMMA StepLife == IInv /\ Caught /\ [Next]_vars => [Life!Next]_(Life!vars)
  <1> SUFFICES ASSUME IInv, Caught, [Next]_vars PROVE Life!Next \/ UNCHANGED Life!vars
    OBVIOUS
  <1>1. CASE UNCHANGED vars
    BY <1>1 DEF vars, opened, Phase, Stored, Life!vars
  <1>2. CASE Next
    <2>1. Life!Abandon \/ Life!Serve \/ Life!Stop \/ Life!End => Life!Next
      BY DEF Life!Next
    <2> QED BY <1>2, <2>1, OpeningLife, PassingLife, FailingLife, PhaseLife, ClosingLife
            DEF Next
  <1> QED BY <1>1, <1>2

\* serve opens the tunnel, the clients and the meter in layers and closes them in
\* layers, for any configuration and whichever step fails or is interrupted.
THEOREM ServeKeepsLifecycle == Spec => KeepsLifecycle
  BY InitLife, StepLife, AlwaysIInv, SignalsAreCaught, PTL DEF Spec, KeepsLifecycle, Life!Spec

\* What the lifecycle says of two consecutive states.
LEMMA LayeredStep ==
    ASSUME Life!Layered, [Life!Next]_(Life!vars)
    PROVE  Life!Layered'
  <1> USE DEF Life!Layered, Life!vars
  <1>1. CASE Life!OpenTunnel \/ Life!OpenMeter \/ Life!CloseMeter \/ Life!CloseTunnel
    BY <1>1 DEF Life!OpenTunnel, Life!OpenMeter, Life!CloseMeter, Life!CloseTunnel
  <1>2. CASE \E c \in Names : Life!OpenClient(c)
    BY <1>2 DEF Life!OpenClient
  <1>3. CASE Life!Abandon \/ Life!Serve \/ Life!Stop \/ Life!End
    BY <1>3 DEF Life!Abandon, Life!Serve, Life!Stop, Life!End
  <1>4. CASE Life!CloseClients
    BY <1>4 DEF Life!CloseClients
  <1> QED BY <1>1, <1>2, <1>3, <1>4 DEF Life!Next

\* The meter and the server have every client below them, the tunnel never changes
\* under a client, and nothing opens or closes while the server runs.
THEOREM ServeOpensInLayers == Spec => []Life!Layered /\ Life!InLayers
  <1>1. Life!Init => Life!Layered
    BY DEF Life!Init, Life!Layered
  <1>2. Life!Layered /\ [Life!Next]_(Life!vars) => [Life!KeepsLayers]_(Life!vars)
    BY DEF Life!KeepsLayers, Life!Layered, Life!Next, Life!vars, Life!OpenTunnel, Life!OpenMeter,
       Life!OpenClient, Life!Abandon, Life!Serve, Life!Stop, Life!End, Life!CloseMeter,
       Life!CloseClients, Life!CloseTunnel
  <1> QED
    BY <1>1, <1>2, LayeredStep, ServeKeepsLifecycle, PTL
       DEF KeepsLifecycle, Life!Spec, Life!InLayers

\* What startup hands over is what Gateway begins with: every client open, tunnel
\* and meter open or not.
THEOREM StartupHandsOver == Spec => [](pc = "serving" => Life!Serving)
  <1>1. IInv => (pc = "serving" => Life!Serving)
    BY DEF IInv, TypeOK, Closable, Phase, Life!Serving
  <1> QED BY <1>1, AlwaysIInv, PTL

=============================================================================
