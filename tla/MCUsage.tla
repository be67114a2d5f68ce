------------------------------ MODULE MCUsage ------------------------------
(***************************************************************************)
(* Two calls of two users and a get_usage for TLC.  The clock shows the    *)
(* start, a day after it, and a second more than thirty days.  The WHERE   *)
(* clause knows users and times, so one resource and one operation do.     *)
(***************************************************************************)
EXTENDS Usage, TLC

MCEntries ==
    [user_id : Subjects, resource : {"cache"}, operation : {"get"}]

\* None, half a day, a day and a half, and more than an int holds.
MCDaysArgs == {0, 1, 3, 200}
MCMaxDays == 100
MCInstants == {0, Day, 30 * Day + 1}

Symmetric == Permutations(Calls) \cup Permutations(Subjects)
=============================================================================
