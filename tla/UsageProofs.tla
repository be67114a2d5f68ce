---------------------------- MODULE UsageProofs ----------------------------
(***************************************************************************)
(* What get_usage answers, for any number of handlers, any entries, any    *)
(* "days" and any faults of the database.                                  *)
(***************************************************************************)
EXTENDS Usage, FiniteSetTheorems, SequenceTheorems, TLAPS

USE DEF Day, DefaultDays, MaxIdle, None

\* The database of all connections, as long as there is only one.
Main == IF path = "file" THEN None ELSE 1

\* The first connection is the only one until the pool opens a second.
OneConnection ==
    alone => /\ \A c \in Clients : conn[c] \in {None, 1}
             /\ \A i \in DOMAIN idle : idle[i] = 1

\* Every database holds true rows only.
Stored(w) == w \in Row /\ w = row[w.call] /\ pc[w.call] \in {"done", "failed"}
RowsTrue == \A d \in DOMAIN usage_log : \A w \in usage_log[d] : Stored(w)

\* The main database, while it lasts, has the rows of all calls that were recorded.
RowsKept ==
    OneDatabase /\ Main \in DOMAIN usage_log =>
        \A c \in Calls : pc[c] = "done" => row[c] \in usage_log[Main]

\* The window of a read, and what was recorded before it.
Busy(r) == pc[r] \in Selects \cup {"done"}
Window(a) ==
    /\ a \in [user_id : Subjects, days : Int, from : Int, to : Nat]
    /\ a.to \in Instants /\ a.from \in Froms(a.days, a.to)
Windows == \A r \in Reads : Busy(r) => Window(ask[r]) /\ ask[r].to <= now
Earlier ==
    \A r \in Reads : Busy(r) =>
        \A w \in before[r] :
            /\ w \in Row /\ w.timestamp <= ask[r].to
            /\ w.call \in Calls /\ w = row[w.call] /\ pc[w.call] = "done"

\* The entry of a call is built before the insert.
CallsStamped ==
    \A c \in Calls :
        /\ pc[c] \notin Selects
        /\ pc[c] \in {"insert", "done"} =>
               row[c] \in Row /\ row[c].call = c /\ row[c].timestamp <= now

\* The statements a read has behind it.
Ran(r, s) ==
    \/ pc[r] = "done"
    \/ pc[r] = "byResource" /\ s = "totals"
    \/ pc[r] = "byOperation" /\ s \in {"totals", "byResource"}

\* The rows a read asks for, and those its WHERE clause lets through.
Wanted(a, w) ==
    LET days == IF a.days <= 0 THEN 2 * DefaultDays ELSE a.days IN
    /\ w.user_id = a.user_id
    /\ Whole(days) < MaxDays
    /\ a.to - w.timestamp <= Whole(days) * Day
Fits(a, w) ==
    /\ w.user_id = a.user_id
    /\ a.from <= w.timestamp /\ w.timestamp <= a.to

\* What a statement returned: the main database still has it, so what the next
\* one returns includes it, and nothing that is wanted is missing.
StatsKept(r) ==
    pc[r] \in Selects /\ Main \in DOMAIN usage_log =>
        \A s \in Selects : Ran(r, s) => stats[r][s] \subseteq usage_log[Main]
StatsNested(r) ==
    /\ Ran(r, "byResource") => stats[r].totals \subseteq stats[r].byResource
    /\ Ran(r, "byOperation") => stats[r].byResource \subseteq stats[r].byOperation
StatsComplete(r) ==
    \A s \in Selects : Ran(r, s) =>
        \A w \in before[r] : Wanted(ask[r], w) => w \in stats[r][s]
Answered ==
    OneDatabase => \A r \in Reads : StatsKept(r) /\ StatsNested(r) /\ StatsComplete(r)

\* Every statement returned rows of its window only.
Matching ==
    \A r \in Reads, s \in Selects : \A w \in stats[r][s] :
        Busy(r) /\ Fits(ask[r], w) /\ Stored(w)

IInv ==
    /\ TypeOK /\ OneConnection /\ RowsTrue /\ RowsKept /\ Windows /\ Earlier
    /\ CallsStamped /\ Answered /\ Matching

\* The clock shows what it may.
Clock == now \in Instants

-----------------------------------------------------------------------------

LEMMA InitIInv == Init => IInv
  <1> SUFFICES ASSUME Init PROVE IInv
    OBVIOUS
  <1>1. idle \in Seq(Nat \ {None}) /\ Len(idle) = 1 /\ idle[1] = 1
    BY DEF Init
  <1>2. TypeOK
    BY <1>1, UsageAssumption DEF Init, TypeOK, NoRow, NoAsk, NoStats, Selects, Clients, Database
  <1>3. OneConnection /\ RowsTrue /\ RowsKept
    BY <1>1, UsageAssumption DEF Init, OneConnection, RowsTrue, RowsKept, Clients
  <1>4. Windows /\ Earlier /\ CallsStamped
    BY DEF Init, Windows, Earlier, CallsStamped, Busy, Selects, Clients
  <1>5. \A r \in Reads, s \in Selects : pc[r] = "idle" /\ ~Ran(r, s) /\ stats[r][s] = {}
    BY DEF Init, Ran, NoStats, Clients, Selects
  <1>6. Answered /\ Matching
    BY <1>5 DEF Answered, StatsKept, StatsNested, StatsComplete, Matching, Selects
  <1> QED BY <1>2, <1>3, <1>4, <1>6 DEF IInv

\* A step of the clock, or of the pool alone: databases may go, but none changes.
LEMMA PoolStep ==
    ASSUME IInv, path' = path, alone' => alone, now <= now', now' \in Nat,
           UNCHANGED <<pc, row, ask, before, stats>>,
           DOMAIN usage_log' \subseteq DOMAIN usage_log,
           \A d \in DOMAIN usage_log' : usage_log'[d] = usage_log[d]
    PROVE  /\ RowsTrue' /\ RowsKept' /\ Windows' /\ Earlier'
           /\ CallsStamped' /\ Answered' /\ Matching'
  <1>1. RowsTrue'
    BY DEF IInv, RowsTrue, Stored
  <1>2. Windows'
    BY DEF IInv, TypeOK, Windows, Window, Busy
  <1>3. Earlier' /\ Matching'
    BY DEF IInv, Earlier, Matching, Busy, Stored
  <1>4. CallsStamped'
    BY DEF IInv, TypeOK, CallsStamped, Row
  <1>5. Main' = Main /\ (OneDatabase' => OneDatabase)
    BY DEF Main, OneDatabase
  <1>6. RowsKept'
    BY <1>5 DEF IInv, RowsKept
  <1>7. Answered'
    BY <1>5 DEF IInv, Answered, StatsKept, StatsNested, StatsComplete, Ran
  <1> QED BY <1>1, <1>2, <1>3, <1>4, <1>6, <1>7

LEMMA TickIInv == ASSUME IInv, Tick PROVE IInv'
  <1>1. now < now' /\ now' \in Nat /\ now' \in Instants
    BY UsageAssumption DEF Tick, IInv, TypeOK
  <1>2. TypeOK' /\ OneConnection'
    BY <1>1 DEF Tick, pool, IInv, TypeOK, OneConnection
  <1>3. /\ RowsTrue' /\ RowsKept' /\ Windows' /\ Earlier'
        /\ CallsStamped' /\ Answered' /\ Matching'
    BY <1>1, PoolStep DEF Tick, pool, IInv, TypeOK
  <1> QED BY <1>2, <1>3 DEF IInv

\* A connection that is opened has a name of its own.
LEMMA NewConnFree ==
    ASSUME TypeOK, idle = <<>>
    PROVE  NewConn \in Nat \ {None} /\ \A c \in Clients : conn[c] # NewConn
  <1> DEFINE n == Cardinality(Clients)
             used == {conn[c] : c \in Clients}
  <1>1. n \in Nat /\ IsFiniteSet(Clients)
    BY UsageAssumption, FS_CardinalityType DEF Clients
  <1>2. conn \in Surjection(Clients, used)
    BY DEF TypeOK, Surjection
  <1>3. IsFiniteSet(used) /\ Cardinality(used) <= n
    BY <1>1, <1>2, FS_Surjection
  <1>4. \E k \in 1..(n + 1) : k \notin used
    <2> DEFINE names == 1..(n + 1)
    <2>1. Cardinality(names) = n + 1
      BY <1>1, FS_Interval
    <2>2. SUFFICES ASSUME names \in SUBSET used PROVE FALSE
      OBVIOUS
    <2> HIDE DEF n, used, names
    <2>3. Cardinality(names) <= Cardinality(used)
      BY <1>3, <2>2, FS_Subset
    <2>4. Cardinality(used) \in Nat
      BY <1>3, FS_CardinalityType
    <2> QED BY <1>1, <1>3, <2>1, <2>3, <2>4
  <1>5. \E k \in 1..(n + 1) : /\ \A c \in Clients : conn[c] # k
                              /\ \A i \in DOMAIN idle : idle[i] # k
    BY <1>4
  <1>6. NewConn \in 1..(n + 1) /\ \A c \in Clients : conn[c] # NewConn
    BY <1>5 DEF NewConn
  <1> QED BY <1>1, <1>6

LEMMA AcquireIInv == ASSUME IInv, NEW c \in Clients, Acquire(c) PROVE IInv'
  <1>1. now \in Nat /\ (alone' => alone)
    BY DEF Acquire, IInv, TypeOK
  <1>2. /\ RowsTrue' /\ RowsKept' /\ Windows' /\ Earlier'
        /\ CallsStamped' /\ Answered' /\ Matching'
    BY <1>1, PoolStep DEF Acquire
  <1>3. CASE idle # <<>>
    <2>1. /\ idle \in Seq(Nat \ {None}) /\ Len(idle) \in Nat \ {0} /\ Len(idle) <= MaxIdle
          /\ conn' = [conn EXCEPT ![c] = idle[Len(idle)]]
          /\ idle' = SubSeq(idle, 1, Len(idle) - 1) /\ alone' = alone
      <3>1. idle \in Seq(Nat \ {None}) /\ Len(idle) <= MaxIdle
        BY DEF IInv, TypeOK
      <3>2. Len(idle) \in Nat \ {0}
        BY <1>3, <3>1, EmptySeq
      <3> QED BY <1>3, <3>1, <3>2 DEF Acquire
    <2>2. /\ idle[Len(idle)] \in Nat \ {None} /\ Len(idle) \in DOMAIN idle
          /\ idle' \in Seq(Nat \ {None}) /\ Len(idle') <= MaxIdle
          /\ \A i \in DOMAIN idle' : i \in DOMAIN idle /\ idle'[i] = idle[i]
      BY <2>1
    <2>3. conn' \in [Clients -> Nat]
      BY <2>1, <2>2 DEF IInv, TypeOK
    <2>4. TypeOK'
      BY <2>1, <2>2, <2>3 DEF Acquire, IInv, TypeOK
    <2>5. OneConnection'
      BY <2>1, <2>2 DEF IInv, TypeOK, OneConnection
    <2> QED BY <1>2, <2>4, <2>5 DEF IInv
  <1>4. CASE idle = <<>>
    <2>1. alone' = FALSE
      BY <1>4 DEF Acquire
    <2>2. /\ conn' = [conn EXCEPT ![c] = NewConn] /\ idle' = idle
          /\ UNCHANGED <<now, path, meter, usage_log, pc, row, ask, before, stats>>
      BY <1>4 DEF Acquire
    <2>3. NewConn \in Nat
      BY <1>4, NewConnFree DEF IInv
    <2>4. conn' \in [Clients -> Nat] /\ alone' \in BOOLEAN
      <3>1. conn' \in [Clients -> Nat]
        BY <2>2, <2>3 DEF IInv, TypeOK
      <3>2. alone' \in BOOLEAN
        BY <2>1, Zenon
      <3> QED BY <3>1, <3>2
    <2>5. TypeOK'
      BY <2>2, <2>4 DEF IInv, TypeOK
    <2>6. alone' = FALSE => OneConnection'
      BY DEF OneConnection
    <2> QED BY <1>2, <2>1, <2>5, <2>6 DEF IInv
  <1> QED BY <1>3, <1>4

LEMMA CloseIInv == ASSUME IInv, CloseMeter PROVE IInv'
  <1>1. now \in Nat /\ (alone' => alone)
    BY DEF CloseMeter, IInv, TypeOK
  <1>2. /\ DOMAIN usage_log' \subseteq DOMAIN usage_log
        /\ \A d \in DOMAIN usage_log' : usage_log'[d] = usage_log[d]
    BY DEF CloseMeter
  <1>3. /\ RowsTrue' /\ RowsKept' /\ Windows' /\ Earlier'
        /\ CallsStamped' /\ Answered' /\ Matching'
    BY <1>1, <1>2, PoolStep DEF CloseMeter
  <1>4. TypeOK' /\ OneConnection'
    <2>1. idle' \in Seq(Nat \ {None}) /\ Len(idle') = 0 /\ DOMAIN idle' = {}
      BY DEF CloseMeter
    <2> QED BY <1>2, <2>1 DEF CloseMeter, IInv, TypeOK, OneConnection
  <1> QED BY <1>3, <1>4 DEF IInv

-----------------------------------------------------------------------------

\* A statement that is over gives its connection back.  It may be the last one of
\* a database, and the others are as the statement left them.
LEMMA ReleaseKeeps ==
    ASSUME TypeOK, OneConnection, NEW c \in Clients, Holding(c), NEW log, Release(c, log),
           DOMAIN log = DOMAIN usage_log, path' = path
    PROVE  /\ conn' \in [Clients -> Nat] /\ alone' = alone /\ OneConnection'
           /\ idle' \in Seq(Nat \ {None}) /\ Len(idle') <= MaxIdle
           /\ DOMAIN usage_log' \subseteq DOMAIN usage_log
           /\ \A d \in DOMAIN usage_log' : usage_log'[d] = log[d]
  <1>1. /\ conn[c] \in Nat \ {None} /\ idle \in Seq(Nat \ {None}) /\ Len(idle) <= MaxIdle
        /\ conn' = [conn EXCEPT ![c] = None] /\ alone' = alone
    BY DEF TypeOK, Holding, Release
  <1>2. conn' \in [Clients -> Nat]
    BY <1>1 DEF TypeOK
  <1>3. CASE idle' = Append(idle, conn[c]) /\ usage_log' = log /\ Len(idle) < MaxIdle
    <2>1. /\ idle' \in Seq(Nat \ {None}) /\ Len(idle') <= MaxIdle
          /\ \A i \in DOMAIN idle' :
                idle'[i] = conn[c] \/ (i \in DOMAIN idle /\ idle'[i] = idle[i])
      BY <1>1, <1>3
    <2>2. OneConnection'
      BY <1>1, <2>1 DEF OneConnection, TypeOK
    <2> QED BY <1>1, <1>2, <1>3, <2>1, <2>2
  <1>4. CASE idle' = idle /\ usage_log' = Without(conn[c], log)
    <2>1. OneConnection'
      BY <1>1, <1>4 DEF OneConnection, TypeOK
    <2>2. /\ DOMAIN usage_log' \subseteq DOMAIN usage_log
          /\ \A d \in DOMAIN usage_log' : usage_log'[d] = log[d]
      BY <1>4 DEF Without
    <2> QED BY <1>1, <1>2, <1>4, <2>1, <2>2
  <1> QED BY <1>3, <1>4 DEF Release

LEMMA MainDatabase ==
    ASSUME IInv, OneDatabase, NEW c \in Clients, Holding(c) PROVE Database(conn[c]) = Main
  <1>1. CASE path = "file"
    BY <1>1 DEF Database, Main
  <1>2. CASE path # "file"
    <2>1. alone
      BY <1>2 DEF OneDatabase
    <2>2. conn[c] \in {None, 1} /\ conn[c] # None
      BY <2>1 DEF IInv, OneConnection, Holding
    <2>3. path = ":memory:"
      BY <1>2 DEF IInv, TypeOK
    <2> QED BY <2>2, <2>3 DEF Database, Main
  <1> QED BY <1>1, <1>2

\* An insert ends: with its row in the database, or without, or nobody knows.
LEMMA InsertEnds ==
    ASSUME IInv, NEW c \in Calls, pc[c] = "insert", NEW end \in {"done", "failed"},
           pc' = [pc EXCEPT ![c] = end],
           UNCHANGED <<now, path, alone, row, ask, before, stats>>,
           DOMAIN usage_log' \subseteq DOMAIN usage_log,
           \A d \in DOMAIN usage_log' : usage_log'[d] \in {usage_log[d], usage_log[d] \cup {row[c]}},
           end = "done" /\ OneDatabase /\ Main \in DOMAIN usage_log' => row[c] \in usage_log'[Main]
    PROVE  /\ RowsTrue' /\ RowsKept' /\ Windows' /\ Earlier'
           /\ CallsStamped' /\ Answered' /\ Matching'
  <1>1. /\ c \in Clients /\ c \notin Reads
        /\ \A b \in Clients : pc'[b] = IF b = c THEN end ELSE pc[b]
        /\ row[c] \in Row /\ row[c].call = c
    BY UsageAssumption DEF IInv, TypeOK, CallsStamped, Clients, Selects
  <1>2. \A w : Stored(w) => Stored(w)'
    BY <1>1 DEF Stored, Row, Clients
  <1>3. Stored(row[c])'
    BY <1>1 DEF Stored
  <1>4. RowsTrue'
    BY <1>2, <1>3 DEF IInv, RowsTrue
  <1>5. /\ Main' = Main /\ OneDatabase' = OneDatabase
        /\ \A r \in Reads : pc'[r] = pc[r]
    BY <1>1 DEF Main, OneDatabase, Clients
  <1>6. RowsKept'
    BY <1>1, <1>5 DEF IInv, RowsKept, Clients
  <1>7. Windows' /\ CallsStamped'
    BY <1>1, <1>5 DEF IInv, Windows, CallsStamped, Busy, Selects, Clients
  <1>8. Earlier'
    BY <1>1, <1>5 DEF IInv, Earlier, Busy, Clients
  <1>9. Matching'
    BY <1>2, <1>5 DEF IInv, Matching, Busy
  <1>10. Answered'
    BY <1>5 DEF IInv, Answered, StatsKept, StatsNested, StatsComplete, Ran
  <1> QED BY <1>4, <1>6, <1>7, <1>8, <1>9, <1>10

\* A handler of get_usage ends with an error.
LEMMA ReadEnds ==
    ASSUME IInv, NEW c \in Reads, pc' = [pc EXCEPT ![c] = "failed"],
           stats' = [r \in Reads |-> IF r = c THEN NoStats ELSE stats[r]],
           UNCHANGED <<now, path, alone, row, ask, before>>,
           DOMAIN usage_log' \subseteq DOMAIN usage_log,
           \A d \in DOMAIN usage_log' : usage_log'[d] = usage_log[d]
    PROVE  /\ RowsTrue' /\ RowsKept' /\ Windows' /\ Earlier'
           /\ CallsStamped' /\ Answered' /\ Matching'
  <1>1. /\ c \in Clients /\ c \notin Calls
        /\ \A b \in Clients : pc'[b] = IF b = c THEN "failed" ELSE pc[b]
    BY UsageAssumption DEF IInv, TypeOK, Clients, Selects
  <1>2. ~Busy(c)' /\ \A r \in Reads : r # c => pc'[r] = pc[r] /\ (Busy(r)' <=> Busy(r))
    BY <1>1 DEF Busy, Selects, Clients
  <1>3. \A w : Stored(w) => Stored(w)'
    BY <1>1 DEF Stored, Row, Clients
  <1>4. RowsTrue'
    BY <1>3 DEF IInv, RowsTrue
  <1>5. Main' = Main /\ OneDatabase' = OneDatabase /\ \A s : ~Ran(c, s)'
    BY <1>1 DEF Main, OneDatabase, Ran
  <1>6. RowsKept'
    BY <1>1, <1>5 DEF IInv, RowsKept, Clients
  <1>7. Windows' /\ CallsStamped'
    BY <1>1, <1>2 DEF IInv, Windows, CallsStamped, Clients
  <1>8. Earlier'
    BY <1>1, <1>2 DEF IInv, Earlier, Clients
  <1>9. Matching'
    BY <1>2, <1>3 DEF IInv, Matching, NoStats
  <1>10. Answered'
    <2> SUFFICES ASSUME OneDatabase', NEW r \in Reads
                 PROVE  StatsKept(r)' /\ StatsNested(r)' /\ StatsComplete(r)'
      BY DEF Answered
    <2>1. CASE r = c
      BY <1>1, <1>5, <2>1 DEF StatsKept, StatsNested, StatsComplete
    <2>2. CASE r # c
      <3>1. pc'[r] = pc[r] /\ stats'[r] = stats[r]
        BY <1>2, <2>2
      <3> QED BY <3>1, <1>5 DEF IInv, Answered, StatsKept, StatsNested, StatsComplete, Ran
    <2> QED BY <2>1, <2>2
  <1> QED BY <1>4, <1>6, <1>7, <1>8, <1>9, <1>10

-----------------------------------------------------------------------------
(* The steps of the handlers                                               *)

LEMMA StampIInv == ASSUME IInv, NEW c \in Calls, Stamp(c) PROVE IInv'
  <1>1. PICK e \in Entries :
          row' = [row EXCEPT ![c] = [call |-> c, user_id |-> e.user_id, resource |-> e.resource,
                                     operation |-> e.operation, timestamp |-> now]]
    BY DEF Stamp
  <1>2. /\ pc[c] = "idle" /\ c \in Clients /\ c \notin Reads
        /\ pc' = [pc EXCEPT ![c] = "insert"]
        /\ \A b \in Clients : pc'[b] = IF b = c THEN "insert" ELSE pc[b]
    BY UsageAssumption DEF Stamp, IInv, TypeOK, Clients
  <1>3. /\ row'[c] \in Row /\ row'[c].call = c /\ row'[c].timestamp = now
        /\ \A b \in Calls \ {c} : row'[b] = row[b]
    BY <1>1, UsageAssumption DEF IInv, TypeOK, Entry, Row
  <1>4. TypeOK'
    <2>1. row' \in [Calls -> Row \cup {NoRow}]
      BY <1>1, <1>3 DEF IInv, TypeOK
    <2>2. pc' \in [Clients -> {"idle", "insert", "done", "failed"} \cup Selects]
      BY <1>2 DEF IInv, TypeOK
    <2> QED BY <2>1, <2>2 DEF Stamp, pool, IInv, TypeOK
  <1>5. \A w : Stored(w) => Stored(w)'
    BY <1>2, <1>3 DEF Stored, Row, Clients
  <1>6. RowsTrue' /\ Matching' /\ OneConnection' /\ Windows'
    BY <1>2, <1>5 DEF Stamp, pool, IInv, RowsTrue, Matching, OneConnection, Windows, Busy, Clients
  <1>7. Main' = Main /\ OneDatabase' = OneDatabase /\ \A r \in Reads : pc'[r] = pc[r]
    BY <1>2 DEF Stamp, pool, Main, OneDatabase, Clients
  <1>8. RowsKept'
    BY <1>2, <1>3, <1>7 DEF Stamp, pool, IInv, RowsKept, Clients
  <1>9. Earlier'
    BY <1>2, <1>3, <1>7 DEF Stamp, IInv, Earlier, Busy, Clients
  <1>10. CallsStamped'
    BY <1>2, <1>3 DEF Stamp, IInv, TypeOK, CallsStamped, Selects, Clients
  <1>11. Answered'
    BY <1>7 DEF Stamp, pool, IInv, Answered, StatsKept, StatsNested, StatsComplete, Ran
  <1> QED BY <1>4, <1>6, <1>8, <1>9, <1>10, <1>11 DEF IInv

LEMMA InsertIInv == ASSUME IInv, NEW c \in Calls, Insert(c) PROVE IInv'
  <1>1. /\ pc[c] = "insert" /\ c \in Clients /\ row[c] \in Row
        /\ WithRow(c) = [usage_log EXCEPT ![Database(conn[c])] = @ \cup {row[c]}]
        /\ Database(conn[c]) \in DOMAIN usage_log /\ Holding(c)
    BY DEF Insert, HasTable, IInv, CallsStamped, Clients, WithRow
  <1>2. /\ conn' \in [Clients -> Nat] /\ alone' = alone /\ OneConnection'
        /\ idle' \in Seq(Nat \ {None}) /\ Len(idle') <= MaxIdle
        /\ DOMAIN usage_log' \subseteq DOMAIN usage_log
        /\ \A d \in DOMAIN usage_log' : usage_log'[d] = WithRow(c)[d]
    <2>1. DOMAIN WithRow(c) = DOMAIN usage_log /\ Release(c, WithRow(c)) /\ path' = path
      BY <1>1 DEF Insert
    <2> QED BY <1>1, <2>1, ReleaseKeeps DEF IInv
  <1>3. \A d \in DOMAIN usage_log' :
            usage_log'[d] = IF d = Database(conn[c]) THEN usage_log[d] \cup {row[c]}
                                                     ELSE usage_log[d]
    BY <1>1, <1>2 DEF IInv, TypeOK
  <1>4. TypeOK'
    <2>1. pc' \in [Clients -> {"idle", "insert", "done", "failed"} \cup Selects]
      BY <1>1 DEF Insert, IInv, TypeOK
    <2> QED BY <1>1, <1>2, <1>3, <2>1 DEF Insert, IInv, TypeOK
  <1>5. OneDatabase /\ Main \in DOMAIN usage_log' => row[c] \in usage_log'[Main]
    BY <1>1, <1>3, MainDatabase
  <1>6. /\ RowsTrue' /\ RowsKept' /\ Windows' /\ Earlier'
        /\ CallsStamped' /\ Answered' /\ Matching'
    BY <1>1, <1>2, <1>3, <1>5, InsertEnds DEF Insert
  <1> QED BY <1>2, <1>4, <1>6 DEF IInv

LEMMA NoMeterIInv == ASSUME IInv, NEW c \in Clients, NoMeter(c) PROVE IInv'
  <1>1. /\ pc[c] = "idle" /\ pc' = [pc EXCEPT ![c] = "failed"]
        /\ \A b \in Clients : pc'[b] = IF b = c THEN "failed" ELSE pc[b]
        /\ UNCHANGED <<now, path, meter, usage_log, alone, idle, conn, row, ask, before, stats>>
    BY DEF NoMeter, pool, IInv, TypeOK
  <1>2. TypeOK'
    <2>1. pc' \in [Clients -> {"idle", "insert", "done", "failed"} \cup Selects]
      BY <1>1 DEF IInv, TypeOK
    <2> QED BY <1>1, <2>1 DEF IInv, TypeOK
  <1>3. \A w : Stored(w) => Stored(w)'
    BY <1>1 DEF Stored, Row, Clients
  <1>4. \A r \in Reads : (Busy(r)' => Busy(r)) /\ (Busy(r) => Busy(r)')
    BY <1>1 DEF Busy, Selects, Clients
  <1>5. RowsTrue' /\ Matching' /\ OneConnection'
    BY <1>1, <1>3, <1>4 DEF IInv, RowsTrue, Matching, OneConnection
  <1>6. /\ Main' = Main /\ OneDatabase' = OneDatabase
        /\ \A r \in Reads, s \in Selects : Ran(r, s)' => Ran(r, s)
        /\ \A r \in Reads : pc'[r] \in Selects => pc[r] \in Selects
    BY <1>1 DEF Main, OneDatabase, Ran, Selects, Clients
  <1>7. RowsKept' /\ CallsStamped'
    BY <1>1, <1>6 DEF IInv, RowsKept, CallsStamped, Selects, Clients
  <1>8. Windows' /\ Earlier'
    BY <1>1, <1>4 DEF IInv, Windows, Earlier, Row, Clients
  <1>9. Answered'
    BY <1>1, <1>6 DEF IInv, Answered, StatsKept, StatsNested, StatsComplete, Selects
  <1> QED BY <1>2, <1>5, <1>7, <1>8, <1>9 DEF IInv

\* The three ways a handler fails at the database.
LEMMA FailIInv ==
    ASSUME IInv, NEW c \in Clients,
           Fail(c), pc[c] \notin {"idle", "done", "failed"},
           conn' \in [Clients -> Nat], alone' = alone, OneConnection',
           idle' \in Seq(Nat \ {None}), Len(idle') <= MaxIdle,
           DOMAIN usage_log' \subseteq DOMAIN usage_log,
           \A d \in DOMAIN usage_log' :
               usage_log'[d] \in {usage_log[d]} \cup
                                (IF c \in Calls THEN {usage_log[d] \cup {row[c]}} ELSE {})
    PROVE  IInv'
  <1>1. /\ pc' = [pc EXCEPT ![c] = "failed"]
        /\ stats' = [r \in Reads |-> IF r = c THEN NoStats ELSE stats[r]]
        /\ UNCHANGED <<now, path, meter, row, ask, before>>
    BY DEF Fail
  <1>2. c \in Calls => pc[c] = "insert" /\ row[c] \in Row
    BY DEF IInv, TypeOK, CallsStamped, Clients
  <1>3. TypeOK'
    <2>1. pc' \in [Clients -> {"idle", "insert", "done", "failed"} \cup Selects]
      BY <1>1 DEF IInv, TypeOK
    <2>2. stats' \in [Reads -> [Selects -> SUBSET Row]]
      BY <1>1 DEF IInv, TypeOK, NoStats
    <2>3. \A d \in DOMAIN usage_log' : usage_log'[d] \subseteq Row
      BY <1>2 DEF IInv, TypeOK
    <2> QED BY <1>1, <2>1, <2>2, <2>3 DEF IInv, TypeOK
  <1>4. CASE c \in Reads
    <2>1. c \notin Calls
      BY <1>4, UsageAssumption
    <2>2. \A d \in DOMAIN usage_log' : usage_log'[d] = usage_log[d]
      BY <2>1
    <2>3. /\ RowsTrue' /\ RowsKept' /\ Windows' /\ Earlier'
          /\ CallsStamped' /\ Answered' /\ Matching'
      BY <1>1, <1>4, <2>2, ReadEnds
    <2> QED BY <1>3, <2>3 DEF IInv
  <1>5. CASE c \in Calls
    <2>1. stats' = stats
      <3>1. c \notin Reads
        BY <1>5, UsageAssumption
      <3> QED BY <1>1, <3>1 DEF IInv, TypeOK
    <2>2. /\ RowsTrue' /\ RowsKept' /\ Windows' /\ Earlier'
          /\ CallsStamped' /\ Answered' /\ Matching'
      BY <1>1, <1>2, <1>5, <2>1, InsertEnds
    <2> QED BY <1>3, <2>2 DEF IInv
  <1> QED BY <1>4, <1>5 DEF Clients

LEMMA FailuresIInv ==
    ASSUME IInv, NEW c \in Clients, NoSuchTable(c) \/ StatementFails(c) \/ MeterClosed(c)
    PROVE  IInv'
  <1>1. CASE MeterClosed(c)
    <2>1. Fail(c) /\ Waiting(c) /\ UNCHANGED <<usage_log, alone, idle, conn>>
      BY <1>1 DEF MeterClosed, pool
    <2>2. pc[c] \notin {"idle", "done", "failed"}
      BY <2>1 DEF Waiting
    <2>3. /\ conn' \in [Clients -> Nat] /\ OneConnection'
          /\ idle' \in Seq(Nat \ {None}) /\ Len(idle') <= MaxIdle
      BY <2>1 DEF IInv, TypeOK, OneConnection
    <2> QED BY <2>1, <2>2, <2>3, FailIInv
  <1>2. CASE NoSuchTable(c)
    <2>1. Fail(c) /\ Holding(c) /\ Release(c, usage_log)
      BY <1>2 DEF NoSuchTable
    <2>2. pc[c] \notin {"idle", "done", "failed"} /\ path' = path
      BY <2>1 DEF Holding, Fail
    <2>3. /\ conn' \in [Clients -> Nat] /\ alone' = alone /\ OneConnection'
          /\ idle' \in Seq(Nat \ {None}) /\ Len(idle') <= MaxIdle
          /\ DOMAIN usage_log' \subseteq DOMAIN usage_log
          /\ \A d \in DOMAIN usage_log' : usage_log'[d] = usage_log[d]
      BY <2>1, <2>2, ReleaseKeeps DEF IInv
    <2> QED BY <2>1, <2>2, <2>3, FailIInv
  <1>3. CASE StatementFails(c)
    <2>1. PICK log \in {usage_log} \cup (IF c \in Calls THEN {WithRow(c)} ELSE {}) : Release(c, log)
      BY <1>3 DEF StatementFails
    <2>2. /\ Fail(c) /\ Holding(c) /\ path' = path /\ pc[c] \notin {"idle", "done", "failed"}
          /\ DOMAIN log = DOMAIN usage_log
      BY <1>3, <2>1 DEF StatementFails, Holding, Fail, WithRow
    <2>3. /\ conn' \in [Clients -> Nat] /\ alone' = alone /\ OneConnection'
          /\ idle' \in Seq(Nat \ {None}) /\ Len(idle') <= MaxIdle
          /\ DOMAIN usage_log' \subseteq DOMAIN usage_log
          /\ \A d \in DOMAIN usage_log' : usage_log'[d] = log[d]
      BY <2>1, <2>2, ReleaseKeeps DEF IInv
    <2>4. \A d \in DOMAIN usage_log' :
               usage_log'[d] \in {usage_log[d]} \cup
                                (IF c \in Calls THEN {usage_log[d] \cup {row[c]}} ELSE {})
      BY <2>1, <2>3 DEF WithRow
    <2> QED BY <2>2, <2>3, <2>4, FailIInv
  <1> QED BY <1>1, <1>2, <1>3

\* What was recorded before a read is in the main database, while that lasts.
LEMMA RecordedBefore ==
    ASSUME IInv, OneDatabase, Main \in DOMAIN usage_log, NEW r \in Reads, Busy(r)
    PROVE  before[r] \subseteq usage_log[Main]
  BY DEF IInv, RowsKept, Earlier

LEMMA AskIInv == ASSUME IInv, Clock, NEW r \in Reads, AskUsage(r) PROVE IInv'
  <1>0. PICK user \in Subjects, days \in DaysArgs : \E from \in Froms(days, now) :
          ask' = [ask EXCEPT ![r] = [user_id |-> user, days |-> days,
                                     from |-> from, to |-> now]]
    BY DEF AskUsage
  <1>1. PICK from \in Froms(days, now) :
          ask' = [ask EXCEPT ![r] = [user_id |-> user, days |-> days,
                                     from |-> from, to |-> now]]
    BY <1>0
  <1>2. /\ pc[r] = "idle" /\ r \in Clients /\ r \notin Calls
        /\ pc' = [pc EXCEPT ![r] = "totals"]
        /\ \A b \in Clients : pc'[b] = IF b = r THEN "totals" ELSE pc[b]
        /\ UNCHANGED <<now, path, meter, usage_log, alone, idle, conn, row, stats>>
    BY UsageAssumption DEF AskUsage, pool, IInv, TypeOK, Clients
  <1>3. now \in Nat /\ now \in Instants
    BY DEF IInv, TypeOK, Clock
  <1>4. from \in Int /\ days \in Int
    BY <1>3, UsageAssumption DEF Froms, Whole
  <1>5. Window(ask'[r]) /\ ask'[r].to = now
    BY <1>1, <1>3, <1>4 DEF Window, IInv, TypeOK
  <1>6. \A s \in Reads \ {r} : ask'[s] = ask[s] /\ before'[s] = before[s] /\ pc'[s] = pc[s]
    BY <1>1, <1>2 DEF AskUsage, IInv, TypeOK, Clients
  <1>7. before'[r] = {row[c] : c \in {d \in Calls : pc[d] = "done"}}
    BY DEF AskUsage, IInv, TypeOK
  <1>8. TypeOK'
    <2>1. pc' \in [Clients -> {"idle", "insert", "done", "failed"} \cup Selects]
      BY <1>2 DEF IInv, TypeOK, Selects
    <2>2. ask' \in [Reads -> [user_id : Subjects, days : Int, from : Int, to : Nat] \cup {NoAsk}]
      BY <1>1, <1>5 DEF Window, IInv, TypeOK
    <2>3. before'[r] \subseteq Row
      BY <1>7 DEF IInv, CallsStamped
    <2>4. before' \in [Reads -> SUBSET Row]
      BY <2>3 DEF AskUsage, IInv, TypeOK
    <2> QED BY <1>2, <2>1, <2>2, <2>4 DEF IInv, TypeOK
  <1>9. \A w : Stored(w) => Stored(w)'
    BY <1>2 DEF Stored, Row, Clients
  <1>10. ~Busy(r) /\ \A s \in Reads \ {r} : Busy(s)' <=> Busy(s)
    BY <1>2, <1>6 DEF Busy, Selects
  <1>11. RowsTrue' /\ OneConnection'
    BY <1>2, <1>9 DEF IInv, RowsTrue, OneConnection
  <1>12. Matching'
    BY <1>2, <1>6, <1>9, <1>10 DEF IInv, Matching
  <1>13. Main' = Main /\ OneDatabase' = OneDatabase
    BY <1>2 DEF Main, OneDatabase
  <1>14. RowsKept' /\ CallsStamped'
    BY <1>2, <1>13 DEF IInv, RowsKept, CallsStamped, Clients
  <1>15. Windows'
    BY <1>2, <1>3, <1>5, <1>6, <1>10 DEF IInv, Windows
  <1>16. Earlier'
    <2> SUFFICES ASSUME NEW s \in Reads, Busy(s)', NEW w \in before'[s]
                 PROVE  /\ w \in Row /\ w.timestamp <= ask'[s].to
                        /\ w.call \in Calls /\ w = row[w.call] /\ pc'[w.call] = "done"
      BY <1>2 DEF Earlier
    <2>1. CASE s = r
      BY <1>2, <1>5, <1>7, <2>1 DEF IInv, CallsStamped, Clients
    <2>2. CASE s # r
      BY <1>2, <1>6, <1>10, <2>2 DEF IInv, Earlier, Clients
    <2> QED BY <2>1, <2>2
  <1>17. Answered'
    <2> SUFFICES ASSUME OneDatabase', NEW s \in Reads
                 PROVE  StatsKept(s)' /\ StatsNested(s)' /\ StatsComplete(s)'
      BY DEF Answered
    <2>1. CASE s = r
      <3>1. \A q : ~Ran(r, q)'
        BY <1>2 DEF Ran
      <3> QED BY <2>1, <3>1 DEF StatsKept, StatsNested, StatsComplete
    <2>2. CASE s # r
      BY <1>2, <1>6, <1>13, <2>2 DEF IInv, Answered, StatsKept, StatsNested, StatsComplete, Ran
    <2> QED BY <2>1, <2>2
  <1> QED BY <1>8, <1>11, <1>12, <1>14, <1>15, <1>16, <1>17 DEF IInv

\* The window lets through what is wanted, and nothing that is older than asked for.
LEMMA WindowIsRight ==
    ASSUME NEW a, Window(a), NEW w \in Row
    PROVE  /\ w.timestamp <= a.to /\ Wanted(a, w) => Fits(a, w)
           /\ Fits(a, w) =>
                 2 * (a.to - w.timestamp) <=
                     (IF a.days <= 0 THEN 2 * DefaultDays ELSE a.days) * Day
  <1>1. /\ a.days \in Int /\ a.from \in Int /\ a.to \in Nat /\ w.timestamp \in Nat
        /\ MaxDays \in Nat /\ a.to <= MaxDays * Day
        /\ a.from \in Froms(a.days, a.to)
    BY UsageAssumption DEF Window, Row
  <1>2. CASE a.days <= 0
    <2>1. a.from = a.to - DefaultDays * Day
      BY <1>1, <1>2 DEF Froms
    <2> QED BY <1>1, <1>2, <2>1 DEF Wanted, Fits, Whole
  <1>3. CASE a.days > 0 /\ Whole(a.days) < MaxDays
    <2>1. a.from = a.to - Whole(a.days) * Day
      BY <1>1, <1>3 DEF Froms
    <2> QED BY <1>1, <1>3, <2>1 DEF Wanted, Fits, Whole
  <1>4. CASE a.days > 0 /\ Whole(a.days) >= MaxDays
    <2>1. a.from = 0 \/ a.from = a.to + 1
      BY <1>1, <1>4 DEF Froms, Whole
    <2>2. ~Wanted(a, w)
      BY <1>1, <1>4 DEF Wanted, Whole
    <2>3. 2 * MaxDays <= a.days
      BY <1>1, <1>4 DEF Whole
    <2> QED BY <1>1, <1>4, <2>1, <2>2, <2>3 DEF Fits
  <1>5. Whole(a.days) \in Int
    BY <1>1 DEF Whole
  <1> QED BY <1>1, <1>2, <1>3, <1>4, <1>5

LEMMA SelectIInv == ASSUME IInv, NEW r \in Reads, Select(r) PROVE IInv'
  <1> DEFINE s == pc[r]
             found == Selected(r)
  <1>1. /\ s \in Selects /\ r \in Clients /\ r \notin Calls /\ Holding(r) /\ Busy(r)
        /\ Database(conn[r]) \in DOMAIN usage_log
        /\ pc' = [pc EXCEPT ![r] = After(s)]
        /\ \A b \in Clients : pc'[b] = IF b = r THEN After(s) ELSE pc[b]
        /\ UNCHANGED <<now, path, meter, row, ask, before>>
    BY UsageAssumption DEF Select, HasTable, IInv, TypeOK, Clients, Busy
  <1>2. /\ stats' \in [Reads -> [Selects -> SUBSET Row]]
        /\ \A q \in Reads, t \in Selects :
              stats'[q][t] = IF q = r /\ t = s THEN found ELSE stats[q][t]
    <2>1. found \in SUBSET Row
      BY <1>1 DEF Selected, IInv, TypeOK
    <2> HIDE DEF found
    <2>2. stats' = [stats EXCEPT ![r][s] = found]
      BY DEF Select, found
    <2> QED BY <1>1, <2>1, <2>2 DEF IInv, TypeOK
  <1>3. \A w \in found : w \in usage_log[Database(conn[r])] /\ Fits(ask[r], w) /\ Stored(w)
    BY <1>1 DEF Selected, Fits, IInv, RowsTrue
  <1>4. /\ conn' \in [Clients -> Nat] /\ alone' = alone /\ OneConnection'
        /\ idle' \in Seq(Nat \ {None}) /\ Len(idle') <= MaxIdle
        /\ DOMAIN usage_log' \subseteq DOMAIN usage_log
        /\ \A d \in DOMAIN usage_log' : usage_log'[d] = usage_log[d]
    <2>1. Release(r, usage_log)
      BY DEF Select
    <2> QED BY <1>1, <2>1, ReleaseKeeps DEF IInv
  <1>5. After(s) \in {"byResource", "byOperation", "done"}
    BY <1>1 DEF After, Selects
  <1>6. TypeOK'
    <2>1. pc' \in [Clients -> {"idle", "insert", "done", "failed"} \cup Selects]
      BY <1>1, <1>5 DEF IInv, TypeOK, Selects
    <2> QED BY <1>1, <1>2, <1>4, <2>1 DEF IInv, TypeOK
  <1>7. \A w : Stored(w) => Stored(w)'
    BY <1>1 DEF Stored, Row, Clients
  <1>8. Busy(r)' /\ \A q \in Reads : Busy(q)' => Busy(q)
    BY <1>1, <1>5 DEF Busy, Selects, Clients
  <1>9. \A q \in Reads : Busy(q) => Busy(q)'
    BY <1>1, <1>8 DEF Busy, Clients
  <1>10. RowsTrue' /\ Windows'
    BY <1>1, <1>4, <1>7, <1>8 DEF IInv, RowsTrue, Windows
  <1>11. Earlier'
    BY <1>1, <1>8 DEF IInv, Earlier, Clients
  <1>12. Main' = Main /\ OneDatabase' = OneDatabase
    BY <1>1, <1>4 DEF Main, OneDatabase
  <1>13. RowsKept' /\ CallsStamped'
    BY <1>1, <1>4, <1>12 DEF IInv, RowsKept, CallsStamped, Clients
  <1>14. Matching'
    BY <1>1, <1>2, <1>3, <1>7, <1>8, <1>9 DEF IInv, Matching
  <1>15. Answered'
    <2> SUFFICES ASSUME OneDatabase', NEW q \in Reads
                 PROVE  StatsKept(q)' /\ StatsNested(q)' /\ StatsComplete(q)'
      BY DEF Answered
    <2>1. CASE q # r
      <3>1. pc'[q] = pc[q] /\ \A t \in Selects : stats'[q][t] = stats[q][t]
        BY <1>1, <1>2, <2>1 DEF Clients
      <3>2. StatsKept(q)'
        BY <1>4, <1>12, <3>1 DEF IInv, Answered, StatsKept, Ran
      <3>3. StatsNested(q)'
        BY <1>12, <3>1 DEF IInv, Answered, StatsNested, Ran, Selects
      <3>4. StatsComplete(q)'
        BY <1>1, <1>12, <3>1 DEF IInv, Answered, StatsComplete, Ran
      <3> QED BY <3>2, <3>3, <3>4
    <2>2. CASE q = r
      <3>1. Database(conn[r]) = Main /\ Main \in DOMAIN usage_log
        BY <1>1, <1>12, MainDatabase
      <3>2. \A t \in Selects : Ran(r, t)' => t = s \/ Ran(r, t)
        BY <1>1 DEF Ran, After, Selects, Clients
      <3>3. \A t \in Selects : Ran(r, t) => /\ stats[r][t] \subseteq usage_log[Main]
                                         /\ \A w \in stats[r][t] : Fits(ask[r], w)
        BY <1>1, <1>12, <3>1 DEF IInv, Answered, StatsKept, Matching
      <3>4. StatsKept(r)'
        BY <1>2, <1>3, <1>4, <1>12, <3>1, <3>2, <3>3 DEF StatsKept
      <3>5. \A t \in Selects : Ran(r, t) => stats[r][t] \subseteq found
        BY <1>1, <3>1, <3>3 DEF Selected, Fits
      <3>6. StatsNested(r)'
        BY <1>1, <1>2, <1>12, <3>5 DEF IInv, Answered, StatsNested, Ran, After, Selects, Clients
      <3>7. \A w \in before[r] : Wanted(ask[r], w) => w \in found
        BY <1>1, <1>12, <3>1, RecordedBefore, WindowIsRight
           DEF IInv, Earlier, Windows, Selected, Fits
      <3>8. StatsComplete(r)'
        BY <1>1, <1>2, <1>12, <3>2, <3>7 DEF IInv, Answered, StatsComplete
      <3> QED BY <2>2, <3>4, <3>6, <3>8
    <2> QED BY <2>1, <2>2
  <1> QED BY <1>4, <1>6, <1>10, <1>11, <1>13, <1>14, <1>15 DEF IInv

-----------------------------------------------------------------------------

LEMMA NextIInv == IInv /\ Clock /\ [Next]_vars => IInv' /\ Clock'
  <1> SUFFICES ASSUME IInv, Clock, [Next]_vars PROVE IInv' /\ Clock'
    OBVIOUS
  <1>1. CASE Tick
    <2>1. Clock'
      BY <1>1 DEF Tick, Clock
    <2> QED BY <1>1, <2>1, TickIInv
  <1>2. CASE CloseMeter
    <2>1. Clock'
      BY <1>2 DEF CloseMeter, Clock
    <2> QED BY <1>2, <2>1, CloseIInv
  <1>3. ASSUME NEW c \in Calls, Stamp(c) \/ Insert(c) PROVE IInv' /\ Clock'
    <2>1. Clock'
      BY <1>3 DEF Stamp, Insert, Clock
    <2> QED BY <1>3, <2>1, StampIInv, InsertIInv
  <1>4. ASSUME NEW r \in Reads, AskUsage(r) \/ Select(r) PROVE IInv' /\ Clock'
    <2>1. Clock'
      BY <1>4 DEF AskUsage, Select, Clock
    <2> QED BY <1>4, <2>1, AskIInv, SelectIInv
  <1>5. ASSUME NEW c \in Clients,
               NoMeter(c) \/ Acquire(c) \/ NoSuchTable(c) \/ StatementFails(c) \/ MeterClosed(c)
        PROVE  IInv' /\ Clock'
    <2>1. Clock'
      BY <1>5 DEF NoMeter, Acquire, NoSuchTable, StatementFails, MeterClosed, Fail, Clock
    <2> QED BY <1>5, <2>1, NoMeterIInv, AcquireIInv, FailuresIInv
  <1>6. CASE UNCHANGED vars
    <2>1. UNCHANGED <<now, path, meter, usage_log, alone, idle, conn, pc, row, ask, before, stats>>
      BY <1>6 DEF vars, pool
    <2>2. TypeOK' /\ OneConnection' /\ Clock'
      BY <2>1 DEF IInv, TypeOK, OneConnection, Clock
    <2>3. /\ RowsTrue' /\ RowsKept' /\ Windows' /\ Earlier'
          /\ CallsStamped' /\ Answered' /\ Matching'
      BY <2>1, PoolStep DEF IInv, TypeOK
    <2> QED BY <2>2, <2>3 DEF IInv
  <1> QED BY <1>1, <1>2, <1>3, <1>4, <1>5, <1>6 DEF Next

LEMMA AlwaysIInv == Spec => []IInv
  <1>1. Init => IInv /\ Clock
    BY InitIInv, UsageAssumption DEF Init, Clock
  <1> QED BY <1>1, NextIInv, PTL DEF Spec

\* The state is well formed; a connection that is opened always has a free name.
\* (The pool of database/sql as metering.go uses it.)
THEOREM TypeCorrect == Spec => []TypeOK
  <1>1. IInv => TypeOK
    BY DEF IInv
  <1> QED BY <1>1, AlwaysIInv, PTL

\* The three statements of GetUsage run without a transaction, and still the total
\* is at most the sum by resource, and that at most the sum by operation.
THEOREM UsageIsNested == Spec => []UsageNested
  <1>1. IInv => UsageNested
    BY DEF IInv, Answered, StatsNested, UsageNested, Ran
  <1> QED BY <1>1, AlwaysIInv, PTL

\* Each statement of GetUsage counts every call of the user that was recorded
\* before get_usage was called, back to the start of the whole days asked for.
THEOREM UsageIsComplete == Spec => []UsageComplete
  <1>1. IInv => UsageComplete
    BY DEF IInv, Answered, StatsComplete, UsageComplete, Ran, Wanted
  <1> QED BY <1>1, AlwaysIInv, PTL

\* No statement of GetUsage counts another user's row, a row of a call that did
\* not get to Record, or one that is older than asked for.
THEOREM UsageIsTrue == Spec => []UsageTrue
  <1>1. ASSUME IInv, NEW r \in Reads, NEW s \in Selects, NEW w \in stats[r][s]
        PROVE  /\ w.user_id = ask[r].user_id
               /\ w = row[w.call] /\ pc[w.call] \in {"done", "failed"}
               /\ 0 <= ask[r].to - w.timestamp
               /\ 2 * (ask[r].to - w.timestamp) <=
                     (IF ask[r].days <= 0 THEN 2 * DefaultDays ELSE ask[r].days) * Day
    <2>1. Window(ask[r]) /\ Fits(ask[r], w) /\ Stored(w) /\ w \in Row
      BY <1>1 DEF IInv, Windows, Matching, Stored
    <2>2. 0 <= ask[r].to - w.timestamp
      BY <2>1 DEF Window, Fits, Row
    <2> QED BY <2>1, <2>2, WindowIsRight DEF Fits, Stored
  <1>2. IInv => UsageTrue
    BY <1>1 DEF UsageTrue
  <1> QED BY <1>2, AlwaysIInv, PTL

-----------------------------------------------------------------------------
(* The rows of a file                                                      *)

\* A file is one database, and stays.
FileStays == path = "file" => DOMAIN usage_log = {None}

\* No row of a file is ever taken out or changed, and a call that is recorded
\* stays so.
RowsLast ==
    /\ path = "file" => usage_log[None] \subseteq usage_log'[None]
    /\ \A c \in Calls : pc[c] = "done" => pc'[c] = "done" /\ row'[c] = row[c]

LEMMA ReleaseFile ==
    ASSUME FileStays, NEW c \in Clients, NEW log, Release(c, log),
           DOMAIN log = DOMAIN usage_log, path' = path, path = "file",
           usage_log[None] \subseteq log[None]
    PROVE  FileStays' /\ usage_log[None] \subseteq usage_log'[None]
  <1>1. CASE usage_log' = log
    BY <1>1 DEF FileStays
  <1>2. CASE usage_log' = Without(conn[c], log)
    <2>1. DOMAIN usage_log' = DOMAIN log /\ usage_log'[None] = log[None]
      BY <1>2 DEF Without, FileStays
    <2> QED BY <2>1 DEF FileStays
  <1> QED BY <1>1, <1>2 DEF Release

LEMMA StepFile ==
    IInv /\ FileStays /\ [Next]_vars => FileStays' /\ [RowsLast]_vars
  <1> SUFFICES ASSUME IInv, FileStays, [Next]_vars PROVE FileStays' /\ RowsLast
    OBVIOUS
  <1>1. path' = path
    BY DEF Next, Tick, CloseMeter, Stamp, Insert, AskUsage, Select, NoMeter, Acquire,
       NoSuchTable, StatementFails, MeterClosed, Fail, vars
  <1>2. ASSUME path = "file"
        PROVE  FileStays' /\ usage_log[None] \subseteq usage_log'[None]
    <2> USE <1>1, <1>2
    <2>1. \A c \in Clients : /\ DOMAIN WithRow(c) = DOMAIN usage_log
                             /\ usage_log[None] \subseteq WithRow(c)[None]
      BY DEF WithRow, FileStays, Database
    <2>2. CASE usage_log' = usage_log
      BY <2>2 DEF FileStays
    <2>3. CASE CloseMeter
      <3>1. DOMAIN usage_log' = DOMAIN usage_log /\ usage_log'[None] = usage_log[None]
        BY <2>3 DEF CloseMeter, FileStays
      <3> QED BY <3>1 DEF FileStays
    <2>4. ASSUME NEW c \in Clients, Release(c, usage_log) \/ Release(c, WithRow(c))
          PROVE  FileStays' /\ usage_log[None] \subseteq usage_log'[None]
      BY <2>1, <2>4, ReleaseFile
    <2>5. \/ usage_log' = usage_log \/ CloseMeter
          \/ \E c \in Clients : Release(c, usage_log) \/ Release(c, WithRow(c))
      BY DEF Next, Tick, Stamp, Insert, AskUsage, Select, NoMeter, Acquire,
         NoSuchTable, StatementFails, MeterClosed, vars, pool, Clients
    <2> QED BY <2>2, <2>3, <2>4, <2>5
  <1>3. ASSUME NEW c \in Calls, pc[c] = "done" PROVE pc'[c] = "done" /\ row'[c] = row[c]
    <2> USE <1>3 DEF IInv, TypeOK, Clients
    <2>1. c \notin Reads /\ \A d \in Clients : Waiting(d) \/ Holding(d) => c # d
      BY UsageAssumption DEF Waiting, Holding
    <2>2. ASSUME NEW d \in Calls, Stamp(d) \/ Insert(d)
          PROVE  pc'[c] = "done" /\ row'[c] = row[c]
      BY <2>2 DEF Stamp, Insert
    <2>3. ASSUME NEW r \in Reads, AskUsage(r) \/ Select(r)
          PROVE  pc'[c] = "done" /\ row'[c] = row[c]
      BY <2>1, <2>3 DEF AskUsage, Select
    <2>4. ASSUME NEW d \in Clients,
                 NoMeter(d) \/ NoSuchTable(d) \/ StatementFails(d) \/ MeterClosed(d)
          PROVE  pc'[c] = "done" /\ row'[c] = row[c]
      BY <2>1, <2>4 DEF NoMeter, NoSuchTable, StatementFails, MeterClosed, Fail
    <2>5. ASSUME NEW d \in Clients, Acquire(d)
          PROVE  pc'[c] = "done" /\ row'[c] = row[c]
      BY <2>5 DEF Acquire
    <2>6. CASE Tick \/ CloseMeter \/ UNCHANGED vars
      BY <2>6 DEF Tick, CloseMeter, vars
    <2> QED BY <2>2, <2>3, <2>4, <2>5, <2>6 DEF Next
  <1> QED BY <1>1, <1>2, <1>3 DEF FileStays, RowsLast

\* With a file as its database, what Record returned without an error for is there
\* for good: whatever the pool closes, whatever fails, and when the meter is closed
\* under its handlers.
FileKeepsRows ==
    path = "file" => \A c \in Calls : pc[c] = "done" => row[c] \in usage_log[None]

\* A row that Record has inserted into the file of the usage database is there for
\* every later get_usage, under any interleaving.
THEOREM RecordedForGood == Spec => []FileKeepsRows /\ [][RowsLast]_vars
  <1>1. Init => FileStays
    BY DEF Init, FileStays, Database
  <1>2. IInv /\ FileStays => FileKeepsRows
    BY DEF IInv, RowsKept, OneDatabase, Main, FileStays, FileKeepsRows
  <1> QED BY AlwaysIInv, StepFile, <1>1, <1>2, PTL DEF Spec

-----------------------------------------------------------------------------
(* The connections                                                         *)

\* A connection is used by one handler at a time, or lies in the pool once.
Exclusive ==
    /\ \A c, d \in Clients : conn[c] = conn[d] /\ conn[c] # None => c = d
    /\ \A c \in Clients, i \in DOMAIN idle : conn[c] # idle[i]
    /\ \A i, j \in DOMAIN idle : idle[i] = idle[j] => i = j

\* A database in memory is that of an open connection, so it is gone for good when
\* that is closed: a connection that is opened later finds no table.
MemoryIsOfOne ==
    path = ":memory:" =>
        \A d \in DOMAIN usage_log :
            /\ d # None
            /\ (\E c \in Clients : conn[c] = d) \/ (\E i \in DOMAIN idle : idle[i] = d)

LEMMA AcquireExclusive ==
    ASSUME IInv, Exclusive, NEW c \in Clients, Acquire(c)
    PROVE  Exclusive' /\ (MemoryIsOfOne => MemoryIsOfOne')
  <1>1. /\ idle \in Seq(Nat \ {None}) /\ conn \in [Clients -> Nat] /\ conn[c] = None
        /\ UNCHANGED <<usage_log, path>>
    BY DEF IInv, TypeOK, Acquire, Waiting
  <1>2. CASE idle # <<>>
    <2>1. Len(idle) \in Nat \ {0} /\ Len(idle) \in DOMAIN idle
      BY <1>1, <1>2, EmptySeq
    <2>2. /\ conn' = [conn EXCEPT ![c] = idle[Len(idle)]]
          /\ idle' = SubSeq(idle, 1, Len(idle) - 1)
      BY <1>2 DEF Acquire
    <2>3. /\ \A i \in DOMAIN idle' : i \in DOMAIN idle /\ idle'[i] = idle[i] /\ i # Len(idle)
          /\ \A i \in DOMAIN idle : i \in DOMAIN idle' \/ i = Len(idle)
          /\ idle[Len(idle)] # None
      BY <1>1, <2>1, <2>2
    <2>4. Exclusive'
      BY <1>1, <2>1, <2>2, <2>3 DEF Exclusive
    <2>5. ASSUME MemoryIsOfOne, path = ":memory:", NEW d \in DOMAIN usage_log
          PROVE  (\E b \in Clients : conn'[b] = d) \/ (\E i \in DOMAIN idle' : idle'[i] = d)
      <3>1. CASE \E b \in Clients : conn[b] = d
        <4>1. PICK b \in Clients : conn[b] = d
          BY <3>1
        <4>2. b # c \/ d = None
          BY <1>1, <4>1
        <4>3. d # None
          BY <2>5 DEF MemoryIsOfOne
        <4> QED BY <1>1, <2>2, <4>1, <4>2, <4>3
      <3>2. CASE \E i \in DOMAIN idle : idle[i] = d
        BY <1>1, <2>2, <2>3, <3>2
      <3> QED BY <2>5, <3>1, <3>2 DEF MemoryIsOfOne
    <2> QED BY <1>1, <2>4, <2>5 DEF MemoryIsOfOne
  <1>3. CASE idle = <<>>
    <2>1. /\ conn' = [conn EXCEPT ![c] = NewConn] /\ idle' = idle
          /\ NewConn \in Nat \ {None} /\ \A b \in Clients : conn[b] # NewConn
          /\ DOMAIN idle = {}
      BY <1>3, NewConnFree DEF Acquire, IInv
    <2> QED BY <1>1, <2>1 DEF Exclusive, MemoryIsOfOne
  <1> QED BY <1>2, <1>3

\* A connection that is given back goes to the pool or is closed, and with it the
\* database it had in memory.
LEMMA ReleaseExclusive ==
    ASSUME IInv, Exclusive, MemoryIsOfOne, NEW c \in Clients, Holding(c), NEW log,
           Release(c, log), DOMAIN log = DOMAIN usage_log, path' = path
    PROVE  Exclusive' /\ MemoryIsOfOne'
  <1>1. /\ idle \in Seq(Nat \ {None}) /\ conn \in [Clients -> Nat]
        /\ conn[c] \in Nat \ {None} /\ conn' = [conn EXCEPT ![c] = None]
    BY DEF IInv, TypeOK, Holding, Release
  <1>2. CASE idle' = Append(idle, conn[c]) /\ usage_log' = log
    <2>1. /\ Len(idle) \in Nat /\ DOMAIN idle = 1..Len(idle)
          /\ DOMAIN idle' = 1..(Len(idle) + 1) /\ idle'[Len(idle) + 1] = conn[c]
          /\ \A i \in DOMAIN idle : idle'[i] = idle[i]
      BY <1>1, <1>2
    <2>2. Exclusive'
      <3>1. \A i \in DOMAIN idle' : i \in DOMAIN idle \/ i = Len(idle) + 1
        BY <2>1
      <3>2. /\ \A i \in DOMAIN idle : idle[i] # conn[c] /\ idle[i] # None
            /\ \A b \in Clients \ {c} : conn'[b] = conn[b] /\ conn[b] # conn[c]
            /\ conn'[c] = None
        BY <1>1 DEF Exclusive
      <3>3. \A b \in Clients, i \in DOMAIN idle' : conn'[b] # idle'[i]
        BY <1>1, <2>1, <3>1, <3>2 DEF Exclusive
      <3>4. \A i, j \in DOMAIN idle' : idle'[i] = idle'[j] => i = j
        BY <2>1, <3>1, <3>2 DEF Exclusive
      <3>5. \A b, d \in Clients : conn'[b] = conn'[d] /\ conn'[b] # None => b = d
        BY <3>2 DEF Exclusive
      <3> QED BY <3>3, <3>4, <3>5 DEF Exclusive
    <2>3. ASSUME path = ":memory:", NEW d \in DOMAIN usage_log
          PROVE  (\E b \in Clients : conn'[b] = d) \/ (\E i \in DOMAIN idle' : idle'[i] = d)
      <3>1. CASE d = conn[c]
        BY <2>1, <3>1
      <3>2. CASE \E b \in Clients : conn[b] = d /\ b # c
        BY <1>1, <3>2
      <3>3. CASE \E i \in DOMAIN idle : idle[i] = d
        BY <2>1, <3>3
      <3> QED BY <2>3, <3>1, <3>2, <3>3 DEF MemoryIsOfOne
    <2> QED BY <1>2, <2>2, <2>3 DEF MemoryIsOfOne
  <1>3. CASE idle' = idle /\ usage_log' = Without(conn[c], log)
    <2>1. Exclusive'
      BY <1>1, <1>3 DEF Exclusive
    <2>2. ASSUME path = ":memory:", NEW d \in DOMAIN usage_log'
          PROVE  /\ d \in DOMAIN usage_log /\ d # None
                 /\ (\E b \in Clients : conn'[b] = d) \/ (\E i \in DOMAIN idle' : idle'[i] = d)
      <3>1. d \in DOMAIN usage_log /\ d # conn[c]
        BY <1>3, <2>2 DEF Without
      <3>2. \A b \in Clients : conn[b] = d => b # c
        BY <3>1
      <3> QED BY <1>1, <1>3, <2>2, <3>1, <3>2 DEF MemoryIsOfOne
    <2> QED BY <2>1, <2>2 DEF MemoryIsOfOne
  <1> QED BY <1>2, <1>3 DEF Release

LEMMA StepExclusive ==
    IInv /\ Exclusive /\ MemoryIsOfOne /\ [Next]_vars => Exclusive' /\ MemoryIsOfOne'
  <1> SUFFICES ASSUME IInv, Exclusive, MemoryIsOfOne, [Next]_vars
               PROVE  Exclusive' /\ MemoryIsOfOne'
    OBVIOUS
  <1>1. path' = path
    BY DEF Next, Tick, CloseMeter, Stamp, Insert, AskUsage, Select, NoMeter, Acquire,
       NoSuchTable, StatementFails, MeterClosed, Fail, vars
  <1>2. CASE UNCHANGED <<usage_log, idle, conn>>
    BY <1>1, <1>2 DEF Exclusive, MemoryIsOfOne
  <1>3. CASE CloseMeter
    <2>1. idle' = <<>> /\ DOMAIN idle' = {} /\ conn' = conn
      BY <1>3 DEF CloseMeter
    <2>2. Exclusive'
      BY <2>1 DEF Exclusive
    <2>3. MemoryIsOfOne'
      BY <1>1, <1>3, <2>1 DEF CloseMeter, MemoryIsOfOne
    <2> QED BY <2>2, <2>3
  <1>4. ASSUME NEW c \in Clients, Acquire(c) PROVE Exclusive' /\ MemoryIsOfOne'
    BY <1>4, AcquireExclusive
  <1>5. ASSUME NEW c \in Clients, Holding(c),
               Release(c, usage_log) \/ Release(c, WithRow(c))
        PROVE  Exclusive' /\ MemoryIsOfOne'
    <2>1. DOMAIN WithRow(c) = DOMAIN usage_log
      BY DEF WithRow
    <2> QED BY <1>1, <1>5, <2>1, ReleaseExclusive
  <1>6. \/ UNCHANGED <<usage_log, idle, conn>> \/ CloseMeter
        \/ \E c \in Clients :
              Acquire(c) \/ (Holding(c) /\ (Release(c, usage_log) \/ Release(c, WithRow(c))))
    BY DEF Next, Tick, Stamp, Insert, AskUsage, Select, NoMeter, NoSuchTable,
       StatementFails, MeterClosed, vars, pool, Clients
  <1> QED BY <1>2, <1>3, <1>4, <1>5, <1>6

\* No two handlers are ever at work on the same connection, and a database in memory
\* does not outlive its one connection.  (database/sql as NewSQLiteMeter sets it up:
\* with ":memory:" every other connection is to a database without the table.)
THEOREM ConnectionsAreExclusive == Spec => [](Exclusive /\ MemoryIsOfOne)
  <1>1. Init => Exclusive /\ MemoryIsOfOne
    <2> SUFFICES ASSUME Init PROVE Exclusive /\ MemoryIsOfOne
      OBVIOUS
    <2>1. idle = <<1>> /\ DOMAIN idle = {1} /\ idle[1] = 1
      BY DEF Init
    <2>2. \A c \in Clients : conn[c] = None
      BY DEF Init
    <2>3. path = ":memory:" => DOMAIN usage_log = {1}
      BY DEF Init, Database
    <2> QED BY <2>1, <2>2, <2>3 DEF Exclusive, MemoryIsOfOne
  <1> QED BY AlwaysIInv, StepExclusive, <1>1, PTL DEF Spec

=============================================================================
