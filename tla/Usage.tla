------------------------------- MODULE Usage -------------------------------
(***************************************************************************)
(* The usage database under concurrent handlers: query handlers that       *)
(* insert their row, get_usage handlers that read it back in three         *)
(* statements, and the connection pool of database/sql between them and    *)
(* SQLite.                                                                 *)
(*                                                                         *)
(*   internal/metering  NewSQLiteMeter, Record, GetUsage, Close            *)
(*   internal/mcp       makeGetUsageHandler, the entry of makeQueryHandler *)
(*                                                                         *)
(* Time is in seconds, to which timestamps are cut before they are stored  *)
(* or compared; days have 24 hours.  A count is represented by the set of  *)
(* the rows it counts: GROUP BY partitions that set, so the numbers in the *)
(* answer are the sizes of its parts.                                      *)
(***************************************************************************)
EXTENDS Integers, Sequences, FiniteSets

CONSTANTS
    Calls,          \* query handlers on their way to Record
    Reads,          \* get_usage handlers
    Subjects,       \* subjects of tokens
    Entries,        \* what a call may be about: [user_id, resource, operation]
    DaysArgs,       \* "days" arguments, in half days; 0 stands for none
    MaxDays,        \* the first number of days that an int cannot hold
    Instants,       \* what the clock may show
    Paths,          \* configured database paths: "file", ":memory:"
    StoreFaults     \* SQLite may fail a statement, a client cancel it

Entry == [user_id : Subjects, resource : STRING, operation : STRING]
Day == 86400
DefaultDays == 30
MaxIdle == 2
None == 0

\* The clock shows no time that is more days from its start than an int holds.
ASSUME UsageAssumption ==
    /\ Calls \cap Reads = {} /\ IsFiniteSet(Calls \cup Reads)
    /\ Entries \subseteq Entry
    /\ DaysArgs \subseteq Int /\ MaxDays \in Nat \ {0}
    /\ Instants \subseteq Nat /\ 0 \in Instants
    /\ \A t \in Instants : t <= MaxDays * Day
    /\ Paths \subseteq {"file", ":memory:"}
    /\ StoreFaults \in BOOLEAN

VARIABLES
    now,        \* the clock
    path,       \* metering.db_path
    meter,      \* "off" without metering, else open or closed
    usage_log,  \* the rows, for every database that has the table
    alone,      \* the pool has not opened a second connection
    idle,       \* the connections in the pool, the last used one last
    conn,       \* the connection a handler holds, or None
    pc,         \* the statement a handler is at
    row,        \* the entry of a call
    ask,        \* the user and the window of a read
    before,     \* the rows recorded before a read began (history)
    stats       \* what the three statements of a read returned

pool == <<usage_log, alone, idle, conn>>
vars == <<now, path, meter, pool, pc, row, ask, before, stats>>

Clients == Calls \cup Reads
Selects == {"totals", "byResource", "byOperation"}

Row == [call : Calls, user_id : Subjects, resource : STRING,
        operation : STRING, timestamp : Nat]

\* A file is one database for all connections; ":memory:" opens a new one for
\* each, which lasts as long as the connection.
Database(c) == IF path = ":memory:" THEN c ELSE None

NoRow == [call |-> None]
NoAsk == [user_id |-> None]
NoStats == [s \in Selects |-> {}]

\* NewSQLiteMeter has created the table over the pool's first connection.
Init ==
    /\ now = 0
    /\ path \in Paths
    /\ meter \in {"off", "open"}
    /\ alone = TRUE /\ idle = <<1>>
    /\ usage_log = [d \in {Database(1)} |-> {}]
    /\ conn = [c \in Clients |-> None]
    /\ pc = [c \in Clients |-> "idle"]
    /\ row = [c \in Calls |-> NoRow]
    /\ ask = [r \in Reads |-> NoAsk]
    /\ before = [r \in Reads |-> {}]
    /\ stats = [r \in Reads |-> NoStats]

-----------------------------------------------------------------------------

Tick ==
    /\ now' \in {t \in Instants : t > now}
    /\ UNCHANGED <<path, meter, pool, pc, row, ask, before, stats>>

\* makeQueryHandler: Execute returned and the entry is built, with the time of
\* that moment and not of the insert.
Stamp(c) ==
    /\ pc[c] = "idle" /\ meter # "off"
    /\ \E e \in Entries :
          row' = [row EXCEPT ![c] =
                     [call |-> c, user_id |-> e.user_id, resource |-> e.resource,
                      operation |-> e.operation, timestamp |-> now]]
    /\ pc' = [pc EXCEPT ![c] = "insert"]
    /\ UNCHANGED <<now, path, meter, pool, ask, before, stats>>

\* int(days): the fraction is cut off.
Whole(days) == days \div 2

\* A plausible bug in the window: the fraction is rounded up.
FromsRoundedUp(days, to) ==
    IF days <= 0 THEN {to - DefaultDays * Day}
    ELSE {to - ((days + 1) \div 2) * Day}

\* Where the window begins.  A missing, zero or negative "days" asks for 30; a
\* number that int cannot hold leaves open where AddDate ends up.
Froms(days, to) ==
    IF days <= 0 THEN {to - DefaultDays * Day}
    ELSE IF Whole(days) < MaxDays THEN {to - Whole(days) * Day}
    ELSE {0, to + 1}

\* makeGetUsageHandler up to the call of GetUsage, which reads the clock once.
AskUsage(r) ==
    /\ pc[r] = "idle" /\ meter # "off"
    /\ \E user \in Subjects, days \in DaysArgs : \E from \in Froms(days, now) :
          ask' = [ask EXCEPT ![r] = [user_id |-> user, days |-> days,
                                     from |-> from, to |-> now]]
    /\ before' = [before EXCEPT ![r] = {row[c] : c \in {d \in Calls : pc[d] = "done"}}]
    /\ pc' = [pc EXCEPT ![r] = "totals"]
    /\ UNCHANGED <<now, path, meter, pool, row, stats>>

\* A get_usage without a meter is an error, a query then records nothing.
NoMeter(c) ==
    /\ pc[c] = "idle" /\ meter = "off"
    /\ pc' = [pc EXCEPT ![c] = "failed"]
    /\ UNCHANGED <<now, path, meter, pool, row, ask, before, stats>>

-----------------------------------------------------------------------------
(* The connection pool                                                     *)

Waiting(c) == pc[c] \notin {"idle", "done", "failed"} /\ conn[c] = None
Holding(c) == pc[c] \notin {"idle", "done", "failed"} /\ conn[c] # None
HasTable(c) == Database(conn[c]) \in DOMAIN usage_log

\* The name of a connection that is neither in use nor in the pool.
NewConn ==
    CHOOSE k \in 1..(Cardinality(Clients) + 1) :
        /\ \A c \in Clients : conn[c] # k
        /\ \A i \in DOMAIN idle : idle[i] # k

\* A statement takes the connection that was used last, or opens one when all
\* are in use: SetMaxOpenConns is never called.
Acquire(c) ==
    /\ Waiting(c) /\ meter = "open"
    /\ IF idle # <<>>
       THEN /\ conn' = [conn EXCEPT ![c] = idle[Len(idle)]]
            /\ idle' = SubSeq(idle, 1, Len(idle) - 1)
            /\ UNCHANGED alone
       ELSE /\ conn' = [conn EXCEPT ![c] = NewConn]
            /\ alone' = FALSE
            /\ UNCHANGED idle
    /\ UNCHANGED <<now, path, meter, usage_log, pc, row, ask, before, stats>>

\* What is left of the databases when connection k is closed.
Without(k, log) ==
    [d \in {e \in DOMAIN log : path = "file" \/ e # k} |-> log[d]]

\* A plausible setting of the pool: every connection is kept.
ReleaseKeepsAll(c, log) ==
    /\ conn' = [conn EXCEPT ![c] = None]
    /\ idle' = Append(idle, conn[c]) /\ usage_log' = log
    /\ UNCHANGED alone

\* The statement of c is over and left log: the pool keeps two connections.
Release(c, log) ==
    /\ conn' = [conn EXCEPT ![c] = None]
    /\ IF meter = "open" /\ Len(idle) < MaxIdle
       THEN idle' = Append(idle, conn[c]) /\ usage_log' = log
       ELSE idle' = idle /\ usage_log' = Without(conn[c], log)
    /\ UNCHANGED alone

\* Record logs its error; GetUsage returns it and no statistics.
Fail(c) ==
    /\ pc' = [pc EXCEPT ![c] = "failed"]
    /\ stats' = [r \in Reads |-> IF r = c THEN NoStats ELSE stats[r]]
    /\ UNCHANGED <<now, path, meter, row, ask, before>>

WithRow(c) ==
    [usage_log EXCEPT ![Database(conn[c])] = @ \cup {row[c]}]

-----------------------------------------------------------------------------
(* The statements                                                          *)

\* Record.
Insert(c) ==
    /\ pc[c] = "insert" /\ Holding(c) /\ HasTable(c)
    /\ Release(c, WithRow(c))
    /\ pc' = [pc EXCEPT ![c] = "done"]
    /\ UNCHANGED <<now, path, meter, row, ask, before, stats>>

\* Two plausible bugs in the statements: each reads the clock anew, or the
\* window excludes its last second.
SelectedByNow(r) ==
    {w \in usage_log[Database(conn[r])] :
        /\ w.user_id = ask[r].user_id
        /\ ask[r].from + (now - ask[r].to) <= w.timestamp /\ w.timestamp <= now}
SelectedHalfOpen(r) ==
    {w \in usage_log[Database(conn[r])] :
        /\ w.user_id = ask[r].user_id
        /\ ask[r].from <= w.timestamp /\ w.timestamp < ask[r].to}

\* The WHERE clause the three statements share.
Selected(r) ==
    {w \in usage_log[Database(conn[r])] :
        /\ w.user_id = ask[r].user_id
        /\ ask[r].from <= w.timestamp /\ w.timestamp <= ask[r].to}

After(s) ==
    CASE s = "totals" -> "byResource"
      [] s = "byResource" -> "byOperation"
      [] s = "byOperation" -> "done"

\* One statement of GetUsage, with the loop over its rows, which gives the
\* connection back when it meets their end.
Select(r) ==
    /\ pc[r] \in Selects /\ Holding(r) /\ HasTable(r)
    /\ stats' = [stats EXCEPT ![r][pc[r]] = Selected(r)]
    /\ pc' = [pc EXCEPT ![r] = After(pc[r])]
    /\ Release(r, usage_log)
    /\ UNCHANGED <<now, path, meter, row, ask, before>>

\* "no such table".
NoSuchTable(c) ==
    /\ Holding(c) /\ ~HasTable(c)
    /\ Release(c, usage_log)
    /\ Fail(c)

\* The statement fails.  An insert that was cancelled may have done its work.
StatementFails(c) ==
    /\ StoreFaults /\ Holding(c) /\ HasTable(c)
    /\ \E log \in {usage_log} \cup (IF c \in Calls THEN {WithRow(c)} ELSE {}) :
          Release(c, log)
    /\ Fail(c)

\* "sql: database is closed".
MeterClosed(c) ==
    /\ Waiting(c) /\ meter = "closed"
    /\ Fail(c) /\ UNCHANGED pool

\* Close, when a drain timed out before the handlers were done: it closes the
\* idle connections, the others when they come back.
CloseMeter ==
    /\ meter = "open"
    /\ meter' = "closed"
    /\ idle' = <<>>
    /\ usage_log' = [d \in {e \in DOMAIN usage_log :
                              path = "file" \/ \E c \in Clients : conn[c] = e}
                        |-> usage_log[d]]
    /\ UNCHANGED <<now, path, alone, conn, pc, row, ask, before, stats>>

Next ==
    \/ Tick \/ CloseMeter
    \/ \E c \in Calls : Stamp(c) \/ Insert(c)
    \/ \E r \in Reads : AskUsage(r) \/ Select(r)
    \/ \E c \in Clients : \/ NoMeter(c) \/ Acquire(c) \/ NoSuchTable(c)
                          \/ StatementFails(c) \/ MeterClosed(c)

Spec == Init /\ [][Next]_vars

-----------------------------------------------------------------------------

\* The state is well formed.
TypeOK ==
    /\ now \in Nat /\ alone \in BOOLEAN
    /\ path \in {"file", ":memory:"} /\ meter \in {"off", "open", "closed"}
    /\ idle \in Seq(Nat \ {None}) /\ Len(idle) <= MaxIdle
    /\ \A d \in DOMAIN usage_log : usage_log[d] \subseteq Row
    /\ DOMAIN usage_log \subseteq Nat
    /\ conn \in [Clients -> Nat]
    /\ pc \in [Clients -> {"idle", "insert", "done", "failed"} \cup Selects]
    /\ row \in [Calls -> Row \cup {NoRow}]
    /\ ask \in [Reads -> [user_id : Subjects, days : Int, from : Int, to : Nat]
                            \cup {NoAsk}]
    /\ before \in [Reads -> SUBSET Row]
    /\ stats \in [Reads -> [Selects -> SUBSET Row]]

\* All rows are where every statement finds them: in a file, or in memory as
\* long as the pool never opened a second connection.
OneDatabase == path = "file" \/ alone

\* The three statements run without a transaction.  Still the answer is not
\* arbitrary: rows only come, so the total is at most the sum by resource, and
\* that at most the sum by operation.  (GetUsage.)
UsageNested ==
    \A r \in Reads : pc[r] = "done" /\ OneDatabase =>
        /\ stats[r].totals \subseteq stats[r].byResource
        /\ stats[r].byResource \subseteq stats[r].byOperation

\* Each of the three counts every call of the user that was recorded before
\* get_usage was called, and is no older than the whole days asked for.
UsageComplete ==
    \A r \in Reads : pc[r] = "done" /\ OneDatabase =>
        \A w \in before[r], s \in Selects :
            LET days == IF ask[r].days <= 0 THEN 2 * DefaultDays ELSE ask[r].days IN
            /\ w.user_id = ask[r].user_id
            /\ Whole(days) < MaxDays
            /\ ask[r].to - w.timestamp <= Whole(days) * Day
            => w \in stats[r][s]

\* And none counts anything else, whatever the database: another user's row, a
\* row of a call that did not get to Record before the answer, or one that is
\* older than the days asked for.
UsageTrue ==
    \A r \in Reads, s \in Selects : \A w \in stats[r][s] :
        /\ w.user_id = ask[r].user_id
        /\ w = row[w.call] /\ pc[w.call] \in {"done", "failed"}
        /\ 0 <= ask[r].to - w.timestamp
        /\ 2 * (ask[r].to - w.timestamp) <=
               (IF ask[r].days <= 0 THEN 2 * DefaultDays ELSE ask[r].days) * Day

=============================================================================
