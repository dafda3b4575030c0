------------------------------ MODULE Partitions ------------------------------
(***************************************************************************)
(* The monthly partitions of the table telemetry: the migration that makes *)
(* the first ones beside a DEFAULT partition (alembic 0001), and the job   *)
(* of the scheduler that makes the next ones                               *)
(* (server/scheduler/jobs/partition_manager.py).                           *)
(*                                                                         *)
(* A point in time is a month <<year, month>>, which is all that the       *)
(* partition bounds tell apart.  What PostgreSQL does with CREATE TABLE    *)
(* ... PARTITION OF is external: a table that exists is left alone, and a  *)
(* new partition is refused if the DEFAULT partition holds rows of its     *)
(* range.  The job is one step: from its first CREATE to its commit it     *)
(* locks the DEFAULT partition.                                            *)
(***************************************************************************)
EXTENDS Integers

CONSTANTS LOOKAHEAD_MONTHS,  \* months the job keeps ready, today's included
          InstallMonth,      \* month in which the migrations were run
          MaxMonths          \* bound: months that pass

Months == Nat \X (1..12)

ASSUME PartitionsAssumption ==
    /\ LOOKAHEAD_MONTHS \in Nat \ {0}
    /\ InstallMonth \in Months
    /\ MaxMonths \in Nat

VARIABLES
    today,  \* the current month
    parts,  \* months that have a partition of their own
    stray   \* months of which the DEFAULT partition holds rows

partitionVars == <<today, parts, stray>>

Before(a, b) == a[1] < b[1] \/ (a[1] = b[1] /\ a[2] < b[2])

\* Mutant of MonthEnd: the year is forgotten in December.
MonthEndSameYear(ym) == IF ym[2] < 12 THEN <<ym[1], ym[2] + 1>> ELSE <<ym[1], 1>>

\* Upper bound of a partition in _month_partition_sql.
MonthEnd(ym) == IF ym[2] < 12 THEN <<ym[1], ym[2] + 1>> ELSE <<ym[1] + 1, 1>>

\* The loop variables y and m of run, and of the migration, one pass later.
NextMonth(ym) == IF ym[2] + 1 > 12 THEN <<ym[1] + 1, 1>> ELSE <<ym[1], ym[2] + 1>>

\* The loop variables at the start of each pass, the first with ym.
Visited(ym) ==
    LET visited[i \in Nat] == IF i = 0 THEN ym ELSE NextMonth(visited[i - 1])
    IN  visited

\* The months that LOOKAHEAD_MONTHS passes visit, from ym on.
Window(ym) == LET v == Visited(ym) IN {v[i] : i \in 0..(LOOKAHEAD_MONTHS - 1)}

\* FOR VALUES FROM ... TO: the partition named after p takes rows of month t.
Covers(p, t) == ~Before(t, p) /\ Before(t, MonthEnd(p))

\* alembic 0001: the DEFAULT partition and the months from the current one on.
PartitionsInit ==
    /\ today = InstallMonth
    /\ parts = Window(InstallMonth)
    /\ stray = {}

\* A CREATE of the month p fails.
Refused(p) == \E t \in stray : Covers(p, t)

\* Mutant of RunPartitionManager: one pass only.
RunPartitionManagerOnce ==
    LET missing == {today} \ parts IN
    /\ parts' = IF \E p \in missing : Refused(p) THEN parts ELSE parts \cup missing
    /\ UNCHANGED <<today, stray>>

\* partition_manager.run: one transaction for all months, so that one CREATE
\* that fails undoes the others; _tick logs the error and goes on.
RunPartitionManager ==
    LET missing == Window(today) \ parts IN
    /\ parts' = IF \E p \in missing : Refused(p) THEN parts ELSE parts \cup missing
    /\ UNCHANGED <<today, stray>>

\* Rows of the months ts are inserted: those without a partition go to DEFAULT.
RouteRows(ts) ==
    /\ stray' = stray \cup {t \in ts : ~\E p \in parts : Covers(p, t)}
    /\ UNCHANGED <<today, parts>>

\* Months since 1 BC, a reference for the order of months.
Ordinal(ym) == 12 * ym[1] + ym[2]

MonthPasses ==
    /\ Ordinal(today) < Ordinal(InstallMonth) + MaxMonths
    /\ today' = NextMonth(today)
    /\ UNCHANGED <<parts, stray>>

PartitionsTypeOK ==
    /\ today \in Months
    /\ parts \subseteq Months
    /\ stray \subseteq Months
-------------------------------------------------------------------------------
\* Every month has one place for its rows: a month with a partition has none in
\* DEFAULT (no December row escapes the partition of December), and no two
\* partitions overlap.
OnePlacePerMonth ==
    /\ stray \cap parts = {}
    /\ \A p, q \in parts : Covers(p, q) => p = q

\* Some month of the window cannot get its partition any more, because rows
\* with timestamps of that month arrived before it did.
Blocked == \E p \in Window(today) \ parts : Refused(p)
===============================================================================
