--------------------------- MODULE ConnectProofs ---------------------------
(***************************************************************************)
(* The order of versions, and what follows from it for every client and    *)
(* every gateway; and whose token reaches the gateway.                     *)
(***************************************************************************)
EXTENDS Connect, TLAPS

Triple == [1..3 -> Nat]

-----------------------------------------------------------------------------
(* Parsed versions, and their order                                        *)

LEMMA Parsed ==
    ASSUME NEW v \in Version PROVE ParseSemver(v) = Invalid \/ ParseSemver(v) \in Triple
  <1> SUFFICES ASSUME v # Unset, \A i \in 1..3 : Part(v, i) # Word
               PROVE  [i \in 1..3 |-> Part(v, i)] \in Triple
    BY DEF ParseSemver
  <1>1. ASSUME NEW i \in 1..3 PROVE Part(v, i) \in Nat
    <2>1. CASE i > Len(v)
      BY <2>1 DEF Part
    <2>2. CASE ~(i > Len(v))
      <3>1. v[i] \in Piece /\ Len(v) \in Nat
        BY <2>2 DEF Version
      <3>2. v[i].number \in Nat \cup {Word}
        BY <3>1 DEF Piece
      <3>3. Part(v, i) = Word \/ Part(v, i) = v[i].number
        BY <2>2, <3>1 DEF Part
      <3> QED BY <3>2, <3>3
    <2> QED BY <2>1, <2>2
  <1> QED BY <1>1 DEF Triple

LEMMA TripleIsValid == Invalid \notin Triple
  <1>1. DOMAIN Invalid = {}
    BY DEF Invalid
  <1>2. \A t \in Triple : 1 \in DOMAIN t
    BY DEF Triple
  <1> QED BY <1>1, <1>2

LEMMA DevIsInvalid == ParseSemver(Dev) = Invalid
  <1>1. Len(Dev) = 1 /\ Dev[1].number = Word
    BY DEF Dev
  <1>2. Part(Dev, 1) = Word
    BY <1>1 DEF Part
  <1> QED BY <1>2 DEF ParseSemver

\* The first of the three parts that differs decides.
LEMMA Lexicographic ==
    ASSUME NEW p \in Triple, NEW q \in Triple
    PROVE  Smaller(p, q) <=> \/ p[1] < q[1]
                             \/ p[1] = q[1] /\ p[2] < q[2]
                             \/ p[1] = q[1] /\ p[2] = q[2] /\ p[3] < q[3]
  <1>1. \A i \in 1..3 : i = 1 \/ i = 2 \/ i = 3
    OBVIOUS
  <1>2. /\ \A j \in 1..(1 - 1) : FALSE
        /\ \A j \in 1..(2 - 1) : j = 1 /\ 1 \in 1..(2 - 1)
        /\ \A j \in 1..(3 - 1) : j = 1 \/ j = 2
    OBVIOUS
  <1>3. 1 \in 1..(2 - 1) /\ 1 \in 1..(3 - 1) /\ 2 \in 1..(3 - 1)
    OBVIOUS
  <1> QED BY <1>1, <1>2, <1>3 DEF Smaller

\* The comparison is a total preorder on the versions that parse.
LEMMA Total ==
    ASSUME NEW p \in Triple, NEW q \in Triple PROVE Smaller(p, q) \/ Smaller(q, p) \/ p = q
  <1> SUFFICES ASSUME ~Smaller(p, q), ~Smaller(q, p) PROVE p = q
    OBVIOUS
  <1>1. p[1] = q[1] /\ p[2] = q[2] /\ p[3] = q[3]
    BY Lexicographic DEF Triple
  <1>2. \A i \in 1..3 : i = 1 \/ i = 2 \/ i = 3
    OBVIOUS
  <1>3. \A i \in 1..3 : p[i] = q[i]
    BY <1>1, <1>2
  <1> QED BY <1>3 DEF Triple

LEMMA Transitive ==
    ASSUME NEW p \in Triple, NEW q \in Triple, NEW r \in Triple, Smaller(p, q), Smaller(q, r)
    PROVE  Smaller(p, r)
  BY Lexicographic DEF Triple

LEMMA Comparison ==
    ASSUME NEW a \in Version, NEW b \in Version
    PROVE  LET p == ParseSemver(a)  q == ParseSemver(b) IN
           /\ CompareSemver(a, b) \in {"error", "less", "equal", "greater"}
           /\ CompareSemver(a, b) = "error" <=> p \notin Triple \/ q \notin Triple
           /\ CompareSemver(a, b) = "less" <=> p \in Triple /\ q \in Triple /\ Smaller(p, q)
           /\ CompareSemver(a, b) = "equal" => p = q
  <1> DEFINE p == ParseSemver(a)
             q == ParseSemver(b)
  <1>1. (p = Invalid <=> p \notin Triple) /\ (q = Invalid <=> q \notin Triple)
    BY Parsed, TripleIsValid
  <1>2. CompareSemver(a, b) =
          IF p = Invalid \/ q = Invalid THEN "error"
          ELSE IF Smaller(p, q) THEN "less" ELSE IF Smaller(q, p) THEN "greater" ELSE "equal"
    BY DEF CompareSemver
  <1> HIDE DEF p, q
  <1>3. p \in Triple /\ q \in Triple /\ ~Smaller(p, q) /\ ~Smaller(q, p) => p = q
    BY Total
  <1>4. /\ CompareSemver(a, b) \in {"error", "less", "equal", "greater"}
        /\ CompareSemver(a, b) = "error" <=> p \notin Triple \/ q \notin Triple
        /\ CompareSemver(a, b) = "less" <=> p \in Triple /\ q \in Triple /\ Smaller(p, q)
        /\ CompareSemver(a, b) = "equal" => p = q
    BY <1>1, <1>2, <1>3
  <1> QED BY <1>4 DEF p, q

\* The comparison is sound: on the versions that parse it is a total preorder, whose
\* two sides agree on what they compare, and it fails exactly on the others.  The
\* equal ones are those with the same three numbers: a suffix plays no part.
\* (compareSemver and parseSemver of internal/client.)
THEOREM VersionsAreOrdered ==
    ASSUME NEW a \in Version, NEW b \in Version, NEW c \in Version
    PROVE  /\ CompareSemver(a, b) = "error" <=> CompareSemver(b, a) = "error"
           /\ CompareSemver(a, b) = "less" <=> CompareSemver(b, a) = "greater"
           /\ CompareSemver(a, b) = "equal" <=>
                  ParseSemver(a) = ParseSemver(b) /\ ParseSemver(a) # Invalid
           /\ /\ CompareSemver(a, b) \in {"less", "equal"}
              /\ CompareSemver(b, c) \in {"less", "equal"}
              => CompareSemver(a, c) \in {"less", "equal"}
  <1> DEFINE p == ParseSemver(a)
             q == ParseSemver(b)
             r == ParseSemver(c)
             Compared(x, y) == IF x = Invalid \/ y = Invalid THEN "error"
                               ELSE IF Smaller(x, y) THEN "less"
                               ELSE IF Smaller(y, x) THEN "greater" ELSE "equal"
  <1>1. /\ p \in Triple \/ p = Invalid
        /\ q \in Triple \/ q = Invalid
        /\ r \in Triple \/ r = Invalid
    BY Parsed
  <1>2. /\ CompareSemver(a, b) = Compared(p, q) /\ CompareSemver(b, a) = Compared(q, p)
        /\ CompareSemver(b, c) = Compared(q, r) /\ CompareSemver(a, c) = Compared(p, r)
    BY DEF CompareSemver
  <1> HIDE DEF p, q, r
  <1>3. /\ \A x, y \in Triple : ~(Smaller(x, y) /\ Smaller(y, x))
        /\ \A x \in Triple : ~Smaller(x, x)
    <2>1. ASSUME NEW x \in Triple, NEW y \in Triple, Smaller(x, y), Smaller(y, x)
          PROVE  FALSE
      BY <2>1, Lexicographic DEF Triple
    <2> QED BY <2>1
  <1>4. Compared(p, q) = "error" <=> Compared(q, p) = "error"
    OBVIOUS
  <1>5. Compared(p, q) = "less" <=> Compared(q, p) = "greater"
    BY <1>1, <1>3
  <1>6. Compared(p, q) = "equal" <=> p = q /\ p # Invalid
    BY <1>1, <1>3, Total
  <1>7. ASSUME Compared(p, q) \in {"less", "equal"}, Compared(q, r) \in {"less", "equal"}
        PROVE  Compared(p, r) \in {"less", "equal"}
    <2>1. p \in Triple /\ q \in Triple /\ r \in Triple
      BY <1>1, <1>7
    <2>2. (p = q \/ Smaller(p, q)) /\ (q = r \/ Smaller(q, r))
      BY <1>7, <2>1, Total
    <2>3. p = r \/ Smaller(p, r)
      BY <2>1, <2>2, Transitive
    <2> QED BY <1>3, <2>1, <2>3, TripleIsValid
  <1> QED BY <1>2, <1>4, <1>5, <1>6, <1>7 DEF p, q, r

\* What is at most an older version than a bound was at most a newer one.
LEMMA Older ==
    ASSUME NEW a \in Version, NEW b \in Version, NEW c \in Version,
           CompareSemver(a, b) \in {"less", "equal"}
    PROVE  /\ ParseSemver(a) \in Triple
           /\ CompareSemver(b, c) # "error" => CompareSemver(a, c) # "error"
           /\ CompareSemver(b, c) = "less" => CompareSemver(a, c) = "less"
  <1> DEFINE p == ParseSemver(a)
             q == ParseSemver(b)
             r == ParseSemver(c)
  <1>1. p \in Triple /\ q \in Triple /\ (p = q \/ Smaller(p, q))
    BY Comparison
  <1>2. CompareSemver(b, c) # "error" => r \in Triple
    BY Comparison
  <1>3. r \in Triple => CompareSemver(a, c) # "error"
    BY <1>1, Comparison
  <1>4. ASSUME CompareSemver(b, c) = "less" PROVE CompareSemver(a, c) = "less"
    <2>1. r \in Triple /\ Smaller(q, r)
      BY <1>4, Comparison
    <2>2. Smaller(p, r)
      BY <1>1, <2>1, Transitive
    <2> QED BY <1>1, <2>1, <2>2, Comparison
  <1> QED BY <1>1, <1>2, <1>3, <1>4

LEMMA Severity ==
    ASSUME NEW v
    PROVE  /\ CheckVersion(v, required) = "update required" => Severe(v) = 2
           /\ CheckVersion(v, required) = "update available" => Severe(v) = 1
           /\ CheckVersion(v, required) \notin {"update required", "update available"} => Severe(v) = 0
  <1> DEFINE found == CheckVersion(v, required)
  <1>1. Severe(v) = CASE found = "update required" -> 2 [] found = "update available" -> 1 [] OTHER -> 0
    BY DEF Severe
  <1> HIDE DEF found
  <1>2. /\ found = "update required" => Severe(v) = 2
        /\ found = "update available" => Severe(v) = 1
        /\ found \notin {"update required", "update available"} => Severe(v) = 0
    BY <1>1
  <1> QED BY <1>2 DEF found

LEMMA NoVersion == Unset \in Version /\ Dev \in Version
  BY DEF Unset, Dev, Version, Piece, Word

LEMMA Monotone ==
    ASSUME NEW old \in Version, NEW new \in Version, required \in VersionConfig,
           CompareSemver(old, new) \in {"less", "equal"}
    PROVE  Severe(new) <= Severe(old)
  <1> DEFINE min == required.minimum
             max == required.latest
  <1>1. min \in Version /\ max \in Version
    BY NoVersion, ConnectAssumption DEF VersionConfig
  <1>2. old # Dev
    BY Older, DevIsInvalid, TripleIsValid
  <1>3. /\ CompareSemver(new, min) # "error" => CompareSemver(old, min) # "error"
        /\ CompareSemver(new, min) = "less" => CompareSemver(old, min) = "less"
        /\ CompareSemver(new, max) = "less" => CompareSemver(old, max) = "less"
    BY <1>1, Older
  <1> HIDE DEF min, max
  <1>4. CASE CheckVersion(new, required) = "update required"
    <2>1. min # Unset /\ CompareSemver(new, min) = "less"
      BY <1>4 DEF CheckVersion, min, max
    <2>2. CheckVersion(old, required) = "update required"
      BY <1>2, <1>3, <2>1 DEF CheckVersion, min, max
    <2>3. Severe(new) = 2 /\ Severe(old) = 2
      BY <1>4, <2>2, Severity
    <2> QED BY <2>3
  <1>5. CASE CheckVersion(new, required) = "update available"
    <2>1. /\ min # Unset /\ CompareSemver(new, min) # "error"
          /\ max # Unset /\ CompareSemver(new, max) = "less"
      BY <1>5 DEF CheckVersion, min, max
    <2>2. CheckVersion(old, required) \in {"update required", "update available"}
      BY <1>2, <1>3, <2>1 DEF CheckVersion, min, max
    <2>3. Severe(new) = 1 /\ Severe(old) \in {1, 2}
      BY <1>5, <2>2, Severity
    <2> QED BY <2>3
  <1>6. CASE CheckVersion(new, required) \notin {"update required", "update available"}
    <2>1. Severe(new) = 0 /\ Severe(old) \in {0, 1, 2}
      BY <1>6, Severity
    <2> QED BY <2>1
  <1> QED BY <1>4, <1>5, <1>6

-----------------------------------------------------------------------------
(* The state                                                               *)

\* What the proxy has forwarded carries the client's token, or none when the agent
\* had it taken off.
Forwarded ==
    \A r \in Requests :
        request[r] = "forwarded" => header[r] = IF r \in hop THEN "none" ELSE token

\* The token that Bootstrap got a 200 for is accepted until it expires, and nothing
\* of the proxy's is after that.
Trusted ==
    /\ accepts \in {{}, {"own"}, {"agent's"}, {"own", "agent's"}, Headers}
    /\ expired => accepts \in {{}, {"agent's"}}
    /\ answer = "200" => token \in accepts \/ expired

IInv == TypeOK /\ Forwarded /\ Trusted

LEMMA InitIInv == Init => IInv
  <1> SUFFICES ASSUME Init PROVE IInv
    OBVIOUS
  <1>1. TypeOK
    BY DEF Init, TypeOK, NoVersions, VersionConfig, Tokens, Headers
  <1>2. Forwarded /\ Trusted
    BY DEF Init, Forwarded, Trusted
  <1> QED BY <1>1, <1>2 DEF IInv

LEMMA CheckedVerdict ==
    ASSUME NEW v, NEW q
    PROVE  CheckVersion(v, q) \in {"fine", "unparsable", "update required", "update available"}
  BY DEF CheckVersion

LEMMA ConnectIInv ==
    ASSUME IInv, ConnectStep \/ GatewayAnswers \/ TokenExpires \/ Serve \/ ServeFails PROVE IInv'
  <1> USE DEF ConnectStep, GatewayAnswers, TokenExpires, Serve, ServeFails, Bootstrapped,
              BootstrapFails, Check, StartProxy, ReturnError, client, given, gateway, proxy
  <1>1. /\ UNCHANGED <<version, token, request, header, hop>>
        /\ required' \in VersionConfig
        /\ verdict' \in {"none", "fine", "unparsable", "update required", "update available"}
    BY CheckedVerdict DEF IInv, TypeOK
  <1>2. TypeOK'
    BY <1>1 DEF IInv, TypeOK
  <1>3. Forwarded'
    BY <1>1 DEF IInv, Forwarded
  <1>4. Trusted'
    <2>1. CASE GatewayAnswers
      BY <2>1 DEF IInv, Trusted
    <2>2. CASE TokenExpires
      <3>1. accepts \in {{"own"}, {"own", "agent's"}}
        BY <2>2 DEF IInv, Trusted, Headers, Tokens
      <3>2. accepts' \in {{}, {"agent's"}}
        BY <2>2, <3>1
      <3>3. expired'
        BY <2>2
      <3> QED BY <3>2, <3>3 DEF Trusted
    <2>3. CASE UNCHANGED <<accepts, expired, answer, token>>
      BY <2>3 DEF IInv, Trusted
    <2> QED BY <2>1, <2>2, <2>3
  <1> QED BY <1>2, <1>3, <1>4 DEF IInv

LEMMA RequestIInv ==
    ASSUME IInv, NEW r \in Requests, AgentSends(r) \/ Forward(r) \/ Unreachable(r) \/ GatewayReplies(r)
    PROVE  IInv'
  <1> USE DEF AgentSends, Forward, Unreachable, GatewayReplies, Director, client, given, gateway
  <1>1. /\ UNCHANGED <<pc, returned, verdict, version, token, required, accepts, expired,
                       answer, listener>>
        /\ request' \in [Requests -> {"none", "received", "forwarded", "200", "401", "502"}]
        /\ header' \in [Requests -> Headers] /\ hop' \subseteq Requests
    BY DEF IInv, TypeOK, Tokens, Headers
  <1>2. TypeOK'
    BY <1>1 DEF IInv, TypeOK
  <1>3. Forwarded'
    BY <1>1 DEF IInv, TypeOK, Forwarded
  <1>4. Trusted'
    BY <1>1 DEF IInv, Trusted
  <1> QED BY <1>2, <1>3, <1>4 DEF IInv

LEMMA NextIInv == IInv /\ [Next]_vars => IInv'
  <1> SUFFICES ASSUME IInv, [Next]_vars PROVE IInv'
    OBVIOUS
  <1>1. CASE Next
    BY <1>1, ConnectIInv, RequestIInv DEF Next, Proxy, Gateway
  <1>2. CASE UNCHANGED vars
    <2> USE <1>2 DEF vars, client, given, gateway, proxy
    <2>1. TypeOK'
      BY DEF IInv, TypeOK
    <2>2. Forwarded'
      BY DEF IInv, Forwarded
    <2>3. Trusted'
      BY DEF IInv, Trusted
    <2> QED BY <2>1, <2>2, <2>3 DEF IInv
  <1> QED BY <1>1, <1>2

LEMMA AlwaysIInv == Spec => []IInv
  BY InitIInv, NextIInv, PTL DEF Spec

\* The state is well formed; nothing comes after Bootstrap without its 200.
THEOREM TypeCorrect == Spec => []TypeOK
  <1>1. IInv => TypeOK
    BY DEF IInv
  <1> QED BY <1>1, AlwaysIInv, PTL

\* From Bootstrap's 200 to the expiry of the token every agent gets through, unless
\* its own Connection header takes the token off again, and after that none does, for
\* any number of local requests.  (Bootstrap, and the director of StartProxy.)
THEOREM AgentsActAsClient == Spec => ActsAsClient
  <1>1. IInv /\ [Next]_vars => [AnsweredAsClient]_vars
    <2> SUFFICES ASSUME IInv, Next, NEW r \in Requests, request[r] = "forwarded"
                 PROVE  /\ request'[r] = "401" => expired \/ r \in hop
                        /\ request'[r] = "200" => ~expired
      BY DEF AnsweredAsClient
    <2>1. CASE request'[r] \notin {"200", "401"}
      BY <2>1
    <2>2. CASE GatewayReplies(r)
      <3>1. /\ request'[r] = IF header[r] \in accepts THEN "200" ELSE "401"
            /\ pc = "waiting"
        BY <2>2 DEF GatewayReplies, IInv, TypeOK
      <3>2. header[r] = IF r \in hop THEN "none" ELSE token
        BY DEF IInv, Forwarded
      <3>3. answer = "200"
        BY <3>1 DEF IInv, TypeOK
      <3> QED BY <3>1, <3>2, <3>3 DEF IInv, TypeOK, Trusted, Tokens
    <2>3. CASE ~GatewayReplies(r)
      <3>1. request'[r] \notin {"200", "401"}
        BY <2>3 DEF Next, ConnectStep, Proxy, Gateway, Bootstrapped, BootstrapFails, Check,
           StartProxy, ReturnError, Serve, ServeFails, AgentSends, Forward, GatewayAnswers,
           TokenExpires, Unreachable, GatewayReplies, client, given, gateway, proxy, IInv,
           TypeOK
      <3> QED BY <3>1
    <2> QED BY <2>1, <2>2, <2>3
  <1> QED BY <1>1, AlwaysIInv, PTL DEF Spec, ActsAsClient

\* Updating the client never makes CheckVersion come out worse, for any versions:
\* compareSemver is a total preorder on the versions that parse.
THEOREM NewerIsNeverWorse == Spec => []NewerNeverWorse
  <1>1. IInv => NewerNeverWorse
    BY Monotone, ConnectAssumption DEF IInv, TypeOK, NewerNeverWorse
  <1> QED BY <1>1, AlwaysIInv, PTL

\* Connect hands CheckVersion the word "dev" instead of the version of the binary,
\* so that no client, however old, is ever told to update: the check cannot fail,
\* whatever the server requires.
CheckIsMute == verdict \in {"none", "fine"}

\* For any version the server may require, Connect's check finds nothing to warn
\* of: the branch that logs "version check" is never taken.
THEOREM CheckNeverWarns == Spec => []CheckIsMute
  <1>1. Init => CheckIsMute
    BY DEF Init, CheckIsMute
  <1>2. CheckIsMute /\ [Next]_vars => CheckIsMute'
    <2>1. CheckVersion(Dev, required) = "fine"
      BY DEF CheckVersion
    <2> QED BY <2>1 DEF CheckIsMute, Next, ConnectStep, Proxy, Gateway, Bootstrapped,
         BootstrapFails, Check, StartProxy, ReturnError, Serve, ServeFails, AgentSends,
         Forward, GatewayAnswers, TokenExpires, Unreachable, GatewayReplies, vars, client
  <1> QED BY <1>1, <1>2, PTL DEF Spec

=============================================================================
