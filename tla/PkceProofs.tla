----------------------------- MODULE PkceProofs -----------------------------
(***************************************************************************)
(* The safety of the PKCE flow, for any number of callbacks.               *)
(***************************************************************************)
EXTENDS PkceFlow, FiniteSetTheorems, TLAPS

LEMMA Apart == NoCode \notin Codes /\ Server \notin Callbacks /\ Nobody \notin Callbacks
  BY PkceAssumption, Zenon

USE Apart DEF Server, Nobody

\* What a channel of one place can hold.
AtMostOne(ch) == ch = {} \/ \E s \in Senders : ch = {s}

LEMMA OnePlace ==
    ASSUME NEW ch, AtMostOne(ch)
    PROVE  Cardinality(ch) <= 1 /\ (Cardinality(ch) < 1 => ch = {})
  <1>1. CASE ch = {}
    <2>1. Cardinality(ch) = 0
      BY <1>1, FS_EmptySet
    <2> QED BY <1>1, <2>1
  <1>2. CASE \E s \in Senders : ch = {s}
    <2>1. PICK s \in Senders : ch = {s}
      BY <1>2
    <2>2. Cardinality({s}) = 1
      BY FS_Singleton
    <2> QED BY <2>1, <2>2
  <1> QED BY <1>1, <1>2 DEF AtMostOne

\* Nobody has got a value from s.
Silent(s) == s \notin codeCh \cup errCh \cup early /\ taken # s

\* A goroutine is silent until it has sent, what lies in a channel is of its kind,
\* and as long as the flow waits, everything sent lies there.
Facts ==
    /\ AtMostOne(codeCh) /\ AtMostOne(errCh)
    /\ codeCh \subseteq Callbacks /\ \A b \in codeCh : code[b] \in Codes
    /\ \A s \in errCh : s = Server \/ code[s] = NoCode
    /\ \A b \in Callbacks : handler[b] # "answered" => Silent(b)
    /\ server # "ended" => Silent(Server)
    /\ pc = "listen" => server = "none" /\ \A b \in Callbacks : handler[b] = "none"
    /\ pc \in {"listen", "browser", "select", "parked"} =>
           early = codeCh \cup errCh /\ taken = Nobody /\ answer = "none"
    /\ pc = "parked" => early = {}
    /\ pc \notin {"shutdown", "done"} => result = "none"

IInv == TypeOK /\ Facts /\ ResultDeserved /\ LoneCodeExchanged

-----------------------------------------------------------------------------

LEMMA InitIInv == Init => IInv
  <1> SUFFICES ASSUME Init PROVE IInv
    OBVIOUS
  <1>1. Facts
    BY DEF Init, Facts, AtMostOne, Silent
  <1>2. TypeOK
    <2>1. Cardinality(codeCh) <= 1 /\ Cardinality(errCh) <= 1
      BY <1>1, OnePlace DEF Facts
    <2> QED BY <2>1 DEF Init, TypeOK, Senders
  <1>3. ResultDeserved /\ LoneCodeExchanged
    BY DEF Init, ResultDeserved, LoneCodeExchanged
  <1> QED BY <1>1, <1>2, <1>3 DEF IInv

\* The goroutine s gets to its send.
Ready(s) == IF s = Server THEN server = "failed" ELSE handler[s] = "running"

Sending(s) ==
    /\ Ready(s) /\ Send(s)
    /\ server' = IF s = Server THEN "ended" ELSE server
    /\ handler' = IF s = Server THEN handler ELSE [handler EXCEPT ![s] = "answered"]
    /\ UNCHANGED <<code, answer>>

\* A send the parked flow waits for.
LEMMA DirectSend ==
    ASSUME IInv, NEW s \in Senders, Sending(s), Awaits(Sends(s)) PROVE IInv'
  <1>1. /\ Takes(Sends(s), s) /\ UNCHANGED <<codeCh, errCh, code, answer>>
        /\ pc = "parked" /\ early' = {s} /\ codeCh = {} /\ errCh = {}
    BY DEF Sending, Send, Awaits, channels, IInv, Facts, Waiting
  <1>2. /\ Silent(s)
        /\ s \in Callbacks => handler'[s] = "answered"
        /\ \A b \in Callbacks \ {s} : handler'[b] = handler[b]
    BY DEF Sending, Ready, Senders, IInv, Facts, TypeOK
  <1>3. TypeOK'
    BY <1>1 DEF IInv, TypeOK, Sending, Takes, Senders
  <1>4. Facts'
    <2>1. \A b \in Callbacks : handler'[b] # "answered" => Silent(b)'
      BY <1>1, <1>2 DEF IInv, Facts, Silent, Takes
    <2>2. server' # "ended" => Silent(Server)'
      BY <1>1, <1>2 DEF Sending, IInv, Facts, Silent, Takes
    <2>3. pc' \in {"exchange", "shutdown"} /\ (pc' = "exchange" => result' = "none")
      BY <1>1 DEF Takes, IInv, Facts
    <2> QED BY <1>1, <2>1, <2>2, <2>3 DEF Facts, AtMostOne, Senders
  <1>5. ResultDeserved'
    BY <1>1 DEF IInv, Facts, TypeOK, ResultDeserved, Takes, Sends, Senders
  <1>6. LoneCodeExchanged'
    BY <1>1 DEF LoneCodeExchanged, Takes, Sends
  <1> QED BY <1>3, <1>4, <1>5, <1>6 DEF IInv

\* A send into the buffer.
LEMMA BufferedSend ==
    ASSUME IInv, NEW s \in Senders, Sending(s), ~Awaits(Sends(s)) PROVE IInv'
  <1>1. /\ Put(Sends(s), s) /\ UNCHANGED <<pc, result, taken, code, answer>>
        /\ early' = (IF Waiting THEN early \cup {s} ELSE early)
    BY DEF Sending, Send, flow
  <1>2. /\ Silent(s)
        /\ s \in Callbacks => handler'[s] = "answered"
        /\ \A b \in Callbacks \ {s} : handler'[b] = handler[b]
    BY DEF Sending, Ready, Senders, IInv, Facts, TypeOK
  <1>3. \/ /\ Sends(s) = "code" /\ s \in Callbacks /\ code[s] \in Codes
           /\ codeCh' = {s} /\ errCh' = errCh
        \/ /\ Sends(s) = "err" /\ (s = Server \/ code[s] = NoCode)
           /\ errCh' = {s} /\ codeCh' = codeCh
    BY <1>1, OnePlace DEF Put, Capacity, Sends, IInv, Facts, TypeOK, Senders
  <1>4. Facts'
    <2>1. \A b \in Callbacks : handler'[b] # "answered" => Silent(b)'
      BY <1>1, <1>2, <1>3 DEF IInv, Facts, Silent
    <2>2. server' # "ended" => Silent(Server)'
      BY <1>1, <1>2, <1>3 DEF Sending, IInv, Facts, Silent
    <2>3. pc # "listen" /\ pc # "parked"
      BY DEF Sending, Ready, IInv, Facts, Senders, Awaits
    <2>4. AtMostOne(codeCh)' /\ AtMostOne(errCh)'
      BY <1>3 DEF IInv, Facts, AtMostOne, Senders
    <2>5. pc \in {"browser", "select"} => early' = codeCh' \cup errCh'
      <3> SUFFICES ASSUME pc \in {"browser", "select"} PROVE early' = codeCh' \cup errCh'
        OBVIOUS
      <3>1. early = codeCh \cup errCh /\ early' = early \cup {s}
        BY <1>1 DEF IInv, Facts, Waiting
      <3>2. Put(Sends(s), s) => codeCh' \cup errCh' = codeCh \cup errCh \cup {s}
        BY <1>3 DEF Put
      <3> QED BY <1>1, <3>1, <3>2
    <2> QED BY <1>1, <1>3, <2>1, <2>2, <2>3, <2>4, <2>5 DEF Facts, IInv
  <1>5. TypeOK'
    <2>1. Cardinality(codeCh') <= 1 /\ Cardinality(errCh') <= 1
      BY <1>4, OnePlace DEF Facts
    <2>2. handler' \in [Callbacks -> {"none", "running", "answered"}]
      BY DEF IInv, TypeOK, Sending, Senders
    <2>3. codeCh' \subseteq Callbacks /\ errCh' \subseteq Senders /\ early' \subseteq Senders
      BY <1>1, <1>3 DEF IInv, TypeOK
    <2>4. \A b \in codeCh' : code'[b] \in Codes
      BY <1>4 DEF Facts
    <2> QED BY <1>1, <2>1, <2>2, <2>3, <2>4 DEF IInv, TypeOK, Sending
  <1>6. early \subseteq early' /\ (~Waiting => early' = early)
    BY <1>1
  <1>7. ResultDeserved'
    BY <1>1, <1>6 DEF IInv, Facts, ResultDeserved, Waiting
  <1>8. LoneCodeExchanged'
    BY <1>1 DEF IInv, LoneCodeExchanged, Waiting
  <1> QED BY <1>4, <1>5, <1>7, <1>8 DEF IInv

LEMMA SendIInv == ASSUME IInv, NEW s \in Senders, Sending(s) PROVE IInv'
  BY DirectSend, BufferedSend

\* A callback arrives: what was sent by others has its code still.
LEMMA ArriveIInv == ASSUME IInv, NEW b \in Callbacks, Arrive(b) PROVE IInv'
  <1>1. /\ Silent(b) /\ UNCHANGED <<flow, channels, server, answer, early>>
        /\ pc # "listen"
    BY DEF Arrive, IInv, Facts
  <1>2. \A a \in Callbacks \ {b} : code'[a] = code[a] /\ handler'[a] = handler[a]
    BY DEF Arrive, IInv, TypeOK
  <1>3. TypeOK'
    BY <1>1, <1>2 DEF Arrive, IInv, TypeOK, Silent, flow, channels
  <1>4. Facts'
    <2>1. handler'[b] = "running" /\ Silent(b)'
      BY <1>1 DEF Arrive, IInv, TypeOK, Silent, flow, channels
    <2>2. \A a \in Callbacks : handler'[a] # "answered" => Silent(a)'
      BY <1>1, <1>2, <2>1 DEF IInv, Facts, Silent, flow, channels
    <2>3. /\ \A a \in codeCh : code'[a] \in Codes
          /\ \A s \in errCh : s = Server \/ code'[s] = NoCode
      BY <1>1, <1>2 DEF IInv, Facts, TypeOK, Silent, Senders
    <2> QED BY <1>1, <2>2, <2>3 DEF IInv, Facts, AtMostOne, Silent, flow, channels
  <1>5. ResultDeserved'
    BY <1>1, <1>2 DEF IInv, TypeOK, ResultDeserved, Silent, Senders, flow
  <1>6. LoneCodeExchanged'
    BY <1>1, <1>2 DEF IInv, LoneCodeExchanged, Silent, flow
  <1> QED BY <1>3, <1>4, <1>5, <1>6 DEF IInv

\* The select takes a value that lies in a channel.
LEMMA SelectIInv == ASSUME IInv, SelectCode \/ SelectErr PROVE IInv'
  <1>1. PICK s \in Senders :
            \/ /\ s \in codeCh /\ Takes("code", s) /\ codeCh' = codeCh \ {s} /\ errCh' = errCh
            \/ /\ s \in errCh /\ Takes("err", s) /\ errCh' = errCh \ {s} /\ codeCh' = codeCh
    BY DEF SelectCode, SelectErr, IInv, TypeOK, Senders
  <1>2. pc = "select" /\ UNCHANGED <<server, handler, code, answer, early>>
    BY DEF SelectCode, SelectErr, callback
  <1>3. /\ early = codeCh \cup errCh /\ result = "none" /\ taken' = s
        /\ s \in codeCh => s \in Callbacks /\ code[s] \in Codes
        /\ s \in errCh => s = Server \/ code[s] = NoCode
    BY <1>1, <1>2 DEF IInv, Facts, Takes
  <1>4. Facts'
    <2>1. AtMostOne(codeCh)' /\ AtMostOne(errCh)'
      BY <1>1 DEF IInv, Facts, AtMostOne
    <2>2. \A a \in Senders : Silent(a) => Silent(a)'
      BY <1>1, <1>2, <1>3 DEF Silent
    <2>3. pc' \in {"exchange", "shutdown"} /\ (pc' = "exchange" => result' = "none")
      BY <1>1, <1>3 DEF Takes
    <2> QED BY <1>1, <1>2, <2>1, <2>2, <2>3 DEF IInv, Facts, Senders
  <1>5. TypeOK'
    <2>1. Cardinality(codeCh') <= 1 /\ Cardinality(errCh') <= 1
      BY <1>4, OnePlace DEF Facts
    <2> QED BY <1>1, <1>2, <1>3, <2>1 DEF IInv, TypeOK, Takes
  <1>6. ResultDeserved'
    BY <1>1, <1>2, <1>3 DEF ResultDeserved, Takes
  <1>7. LoneCodeExchanged'
    BY <1>1, <1>2, <1>3 DEF LoneCodeExchanged, Takes
  <1> QED BY <1>4, <1>5, <1>6, <1>7 DEF IInv

\* Steps that touch no channel and no callback.
LEMMA OwnIInv ==
    ASSUME IInv, \/ Listen \/ OpenBrowser \/ Park \/ TimerFires \/ Exchange
                 \/ StopServing \/ FinishShutdown \/ Provider \/ ServeFails
    PROVE  IInv'
  <1>1. UNCHANGED <<codeCh, errCh, handler, code, taken, early>>
    BY DEF Listen, OpenBrowser, Park, TimerFires, Exchange, StopServing, FinishShutdown,
           Provider, ServeFails, flow, channels, callback
  <1>2. TypeOK'
    BY <1>1 DEF IInv, Facts, TypeOK, Listen, OpenBrowser, Park, TimerFires, Exchange, Outcome,
           StopServing, FinishShutdown, Provider, ServeFails, flow, callback
  <1>3. Facts'
    BY <1>1 DEF IInv, Facts, AtMostOne, Silent, Listen, OpenBrowser, Park, TimerFires,
           Exchange, StopServing, FinishShutdown, Provider, ServeFails, flow, callback
  <1>4. ResultDeserved'
    BY <1>1 DEF IInv, Facts, ResultDeserved, Listen, OpenBrowser, Park, TimerFires, Exchange,
           Outcome, StopServing, FinishShutdown, Provider, ServeFails, flow, callback
  <1>5. LoneCodeExchanged'
    <2> SUFFICES ASSUME NEW b \in Callbacks, early = {b}, code[b] # NoCode,
                        pc' \in {"shutdown", "done"}
                 PROVE  taken = b /\ answer' # "none"
      BY <1>1 DEF LoneCodeExchanged
    <2>1. CASE pc \in {"shutdown", "done"}
      BY <2>1 DEF IInv, LoneCodeExchanged, Listen, OpenBrowser, Park, TimerFires, Exchange,
             StopServing, FinishShutdown, Provider, ServeFails, flow, callback
    <2>2. CASE Exchange
      BY <2>2 DEF Exchange, IInv, ResultDeserved
    <2>3. CASE Listen \/ TimerFires
      <3>1. early = {}
        BY <2>3 DEF Listen, TimerFires, IInv, Facts, Silent
      <3> QED BY <3>1
    <2> QED BY <2>1, <2>2, <2>3 DEF Listen, OpenBrowser, Park, StopServing, FinishShutdown,
               Provider, ServeFails, flow
  <1> QED BY <1>2, <1>3, <1>4, <1>5 DEF IInv

LEMMA StepIInv == IInv /\ [Next]_vars => IInv'
  <1> SUFFICES ASSUME IInv, [Next]_vars PROVE IInv'
    OBVIOUS
  <1>1. CASE Flow \/ Provider \/ ServeFails
    BY <1>1, OwnIInv, SelectIInv DEF Flow
  <1>2. CASE ServeSends
    BY <1>2, SendIInv DEF ServeSends, Sending, Ready, Senders
  <1>3. ASSUME NEW b \in Callbacks, Arrive(b) PROVE IInv'
    BY <1>3, ArriveIInv
  <1>4. ASSUME NEW b \in Callbacks, Handle(b) PROVE IInv'
    BY <1>4, SendIInv DEF Handle, Sending, Ready, Senders
  <1>5. CASE UNCHANGED vars
    <2>1. TypeOK'
      BY <1>5, Zenon DEF vars, flow, channels, callback, IInv, TypeOK
    <2>2. Facts'
      BY <1>5, Zenon DEF vars, flow, channels, callback, IInv, Facts, AtMostOne, Silent
    <2>3. ResultDeserved' /\ LoneCodeExchanged'
      BY <1>5, Zenon DEF vars, flow, channels, callback, IInv, ResultDeserved,
             LoneCodeExchanged
    <2> QED BY <2>1, <2>2, <2>3 DEF IInv
  <1> QED BY <1>1, <1>2, <1>3, <1>4, <1>5 DEF Next

LEMMA Invariant == Spec => []IInv
  <1> QED BY InitIInv, StepIInv, PTL DEF Spec

-----------------------------------------------------------------------------

\* The state is well formed.
THEOREM TypeCorrect == Spec => []TypeOK
  <1>1. IInv => TypeOK
    BY DEF IInv
  <1> QED BY Invariant, <1>1, PTL

\* A value that is sent while the flow is parked ends the wait.
THEOREM NoSendIsOverlooked == Spec => []NothingOverlooked
  <1>1. IInv => NothingOverlooked
    BY DEF IInv, Facts, NothingOverlooked
  <1> QED BY Invariant, <1>1, PTL

\* StartPKCEFlow returns what the value it took deserves.
THEOREM ResultsAreDeserved == Spec => []ResultDeserved
  <1>1. IInv => ResultDeserved
    BY DEF IInv
  <1> QED BY Invariant, <1>1, PTL

\* A lone code is exchanged, however early its callback comes.
THEOREM LoneCodesAreExchanged == Spec => []LoneCodeExchanged
  <1>1. IInv => LoneCodeExchanged
    BY DEF IInv
  <1> QED BY Invariant, <1>1, PTL

-----------------------------------------------------------------------------
(* Where a value is                                                        *)

\* What a callback sent is in one place: in the channel of its kind, or with the
\* flow.  So the flow takes one value only, and none twice.
SentIsHeld ==
    /\ \A b \in Callbacks : handler[b] = "answered" => b \in codeCh \cup errCh \cup {taken}
    /\ taken \notin codeCh \cup errCh /\ codeCh \cap errCh = {}

LEMMA SendHolds ==
    ASSUME IInv, SentIsHeld, NEW s \in Senders, Sending(s) PROVE SentIsHeld'
  <1>1. /\ Silent(s) /\ s \notin {Nobody} /\ taken' \in {taken, s}
        /\ \A b \in Callbacks \ {s} : handler'[b] = handler[b]
    BY DEF Sending, Ready, Senders, Send, Takes, flow, IInv, Facts, TypeOK
  <1>2. CASE Awaits(Sends(s))
    <2>1. /\ taken' = s /\ UNCHANGED <<codeCh, errCh>>
          /\ codeCh = {} /\ errCh = {} /\ taken = Nobody
      BY <1>2 DEF Sending, Send, Takes, Awaits, channels, IInv, Facts
    <2> QED BY <1>1, <2>1 DEF SentIsHeld
  <1>3. CASE ~Awaits(Sends(s))
    <2>1. /\ taken' = taken
          /\ \/ codeCh' = codeCh \cup {s} /\ errCh' = errCh
             \/ errCh' = errCh \cup {s} /\ codeCh' = codeCh
      BY <1>3 DEF Sending, Send, Put, flow
    <2> QED BY <1>1, <2>1 DEF SentIsHeld, Silent
  <1> QED BY <1>2, <1>3

LEMMA StepHolds == IInv /\ SentIsHeld /\ [Next]_vars => SentIsHeld'
  <1> SUFFICES ASSUME IInv, SentIsHeld, [Next]_vars PROVE SentIsHeld'
    OBVIOUS
  <1>1. ASSUME NEW b \in Callbacks, Handle(b) PROVE SentIsHeld'
    BY <1>1, SendHolds DEF Handle, Sending, Ready, Senders
  <1>2. CASE ServeSends
    BY <1>2, SendHolds DEF ServeSends, Sending, Ready, Senders
  <1>3. ASSUME NEW b \in Callbacks, Arrive(b) PROVE SentIsHeld'
    BY <1>3 DEF Arrive, flow, channels, SentIsHeld, IInv, TypeOK
  <1>4. CASE SelectCode \/ SelectErr
    BY <1>4 DEF SelectCode, SelectErr, Takes, callback, SentIsHeld, IInv, Facts
  <1>5. CASE \/ Listen \/ OpenBrowser \/ Park \/ TimerFires \/ Exchange \/ StopServing
             \/ FinishShutdown \/ Provider \/ ServeFails \/ UNCHANGED vars
    BY <1>5 DEF Listen, OpenBrowser, Park, TimerFires, Exchange, StopServing,
       FinishShutdown, Provider, ServeFails, vars, flow, channels, callback, SentIsHeld
  <1> QED BY <1>1, <1>2, <1>3, <1>4, <1>5 DEF Next, Flow

LEMMA InitHolds == Init => SentIsHeld
  BY DEF Init, SentIsHeld

Answered == {b \in Callbacks : handler[b] = "answered"}

LEMMA Small ==
    ASSUME NEW ch, AtMostOne(ch) PROVE IsFiniteSet(ch) /\ Cardinality(ch) \in 0..1
  <1>1. IsFiniteSet(ch)
    BY FS_EmptySet, FS_Singleton DEF AtMostOne
  <1> QED BY <1>1, OnePlace, FS_CardinalityType

\* However often the page is reloaded, the server answers three callbacks at most,
\* one for each place a value can be in; the handlers of the others stay blocked in
\* their send.  (The handlers and the channels of StartPKCEFlow.)
FewAnswered == IsFiniteSet(Answered) /\ Cardinality(Answered) <= 3

\* The channels of StartPKCEFlow neither lose nor repeat what a callback sent, and
\* their places bound how many callbacks get an answer.
THEOREM ValuesAreHeldOnce == Spec => []SentIsHeld /\ []FewAnswered
  <1>1. IInv /\ SentIsHeld => FewAnswered
    <2> SUFFICES ASSUME IInv, SentIsHeld PROVE FewAnswered
      OBVIOUS
    <2>1. /\ IsFiniteSet(codeCh) /\ Cardinality(codeCh) \in 0..1
          /\ IsFiniteSet(errCh) /\ Cardinality(errCh) \in 0..1
      BY Small DEF IInv, Facts
    <2>2. IsFiniteSet({taken}) /\ Cardinality({taken}) = 1
      BY FS_Singleton
    <2> DEFINE both == codeCh \cup errCh
    <2>3. IsFiniteSet(both) /\ Cardinality(both) \in 0..2
      <3>1. codeCh \cap errCh = {} /\ Cardinality(codeCh \cap errCh) = 0
        BY FS_EmptySet DEF SentIsHeld
      <3> QED BY <2>1, <3>1, FS_Union
    <2>4. IsFiniteSet(both \cup {taken}) /\ Cardinality(both \cup {taken}) \in 0..3
      <3>1. both \cap {taken} = {} /\ Cardinality(both \cap {taken}) = 0
        BY FS_EmptySet DEF SentIsHeld
      <3> HIDE DEF both
      <3> QED BY <2>2, <2>3, <3>1, FS_Union
    <2>5. Answered \subseteq both \cup {taken}
      BY DEF SentIsHeld, Answered
    <2>6. IsFiniteSet(Answered) /\ Cardinality(Answered) <= Cardinality(both \cup {taken})
      BY <2>4, <2>5, FS_Subset
    <2>7. Cardinality(Answered) \in Nat
      BY <2>6, FS_CardinalityType
    <2> QED BY <2>4, <2>6, <2>7 DEF FewAnswered
  <1> QED BY Invariant, <1>1, InitHolds, StepHolds, PTL DEF Spec

=============================================================================
