------------------------------ MODULE LocalQueue ------------------------------
(***************************************************************************)
(* The store-and-forward queue of the gateway                              *)
(* (gateway/internal/localdb/sqlite.go) and the goroutines that fill it:   *)
(* one per sensor channel, whose pollOnce                                  *)
(* (gateway/internal/sensor/sensor.go) enqueues its telemetry when it      *)
(* cannot be published.                                                    *)
(*                                                                         *)
(* Enqueue is three statements on a shared database, COUNT, DELETE and     *)
(* INSERT, outside any transaction: three steps.  A row is its created_at, *)
(* a distinct number; all rows have the priority of telemetry, the only    *)
(* one a caller passes.  PeekBatch, Delete and PurgeOld have no caller in  *)
(* the agent and are no steps of it.                                       *)
(***************************************************************************)
EXTENDS Naturals, FiniteSets

CONSTANTS Writers,       \* sensor channels: one polling goroutine each
          MaxQueueRows,  \* max_queue_rows
          DropBatch,     \* LIMIT of the DELETE (1000 in the code)
          MaxMessages,   \* bound: messages that go through Enqueue
          MaxFaults      \* bound: failing statements and crashes

ASSUME QueueAssumption ==
    /\ IsFiniteSet(Writers)
    /\ MaxQueueRows \in Nat \ {0}
    /\ DropBatch \in Nat \ {0}
    /\ MaxMessages \in Nat
    /\ MaxFaults \in Nat

VARIABLES
    connected,      \* a publish made now is acknowledged in time
    rows,           \* created_at of the rows of queued_messages
    clock,          \* last created_at handed out
    pc,             \* [Writers -> Pcs]: where Enqueue is
    msg,            \* [Writers -> Nat]: created_at of the message in hand
    filled,         \* history: some Enqueue found the table full
    newestDropped,  \* history: newest row that a DELETE removed, 0 for none
    dropFailed,     \* history: some DELETE failed
    failures,       \* history: how many calls of Enqueue returned an error
    crashes         \* history: how often the process died

faults == <<failures, crashes>>
vars == <<connected, rows, clock, pc, msg, filled, newestDropped, dropFailed, faults>>

Pcs == {"idle", "count", "drop", "insert"}

Init ==
    /\ connected \in BOOLEAN
    /\ rows = {}
    /\ clock = 0
    /\ pc = [w \in Writers |-> "idle"]
    /\ msg = [w \in Writers |-> 0]
    /\ filled = FALSE
    /\ newestDropped = 0
    /\ dropFailed = FALSE
    /\ failures = 0
    /\ crashes = 0

\* The link to the broker comes and goes.
LinkChanges ==
    /\ connected' = ~connected
    /\ UNCHANGED <<rows, clock, pc, msg, filled, newestDropped, dropFailed, faults>>

\* A poll whose publish succeeds leaves the queue alone.  One whose publish
\* fails (not connected, or no PUBACK in 5 s) enters Enqueue.
PublishFails(w) ==
    /\ pc[w] = "idle"
    /\ ~connected
    /\ clock < MaxMessages
    /\ clock' = clock + 1
    /\ msg' = [msg EXCEPT ![w] = clock + 1]
    /\ pc' = [pc EXCEPT ![w] = "count"]
    /\ UNCHANGED <<connected, rows, filled, newestDropped, dropFailed, faults>>

\* Mutant of Full: an off-by-one, one row more than the limit is let in.
FullAbove == Cardinality(rows) > MaxQueueRows

\* cnt >= maxRows.
Full == Cardinality(rows) >= MaxQueueRows

\* SELECT COUNT(*).
CountRows(w) ==
    /\ pc[w] = "count"
    /\ pc' = [pc EXCEPT ![w] = IF Full THEN "drop" ELSE "insert"]
    /\ filled' = (filled \/ Full)
    /\ UNCHANGED <<connected, rows, clock, msg, newestDropped, dropFailed, faults>>

\* Mutants of OldestBatch: no LIMIT; ORDER BY created_at DESC.
WholeTable(D) == D = rows
NewestBatch(D) ==
    /\ Cardinality(D) = IF Cardinality(rows) < DropBatch THEN Cardinality(rows)
                                                         ELSE DropBatch
    /\ \A d \in D, r \in rows \ D : r < d

\* The rows that a DELETE ... ORDER BY created_at LIMIT DropBatch removes.
OldestBatch(D) ==
    /\ Cardinality(D) = IF Cardinality(rows) < DropBatch THEN Cardinality(rows)
                                                         ELSE DropBatch
    /\ \A d \in D, r \in rows \ D : d < r

DropOldest(w) ==
    /\ pc[w] = "drop"
    /\ pc' = [pc EXCEPT ![w] = "insert"]
    /\ \E D \in SUBSET rows :
        /\ OldestBatch(D)
        /\ rows' = rows \ D
        /\ newestDropped' \in D \cup {newestDropped}
        /\ \A d \in D \cup {newestDropped} : d <= newestDropped'
    /\ UNCHANGED <<connected, clock, msg, filled, dropFailed, faults>>

\* Mutant of DropFails: the error ends Enqueue.
DropFailsAndReturns(w) ==
    /\ pc[w] = "drop"
    /\ pc' = [pc EXCEPT ![w] = "idle"]
    /\ dropFailed' = TRUE
    /\ UNCHANGED <<connected, rows, clock, msg, filled, newestDropped, faults>>

\* The DELETE fails (database busy): logged, and the INSERT follows.
DropFails(w) ==
    /\ pc[w] = "drop"
    /\ pc' = [pc EXCEPT ![w] = "insert"]
    /\ dropFailed' = TRUE
    /\ UNCHANGED <<connected, rows, clock, msg, filled, newestDropped, faults>>

InsertRow(w) ==
    /\ pc[w] = "insert"
    /\ rows' = rows \cup {msg[w]}
    /\ pc' = [pc EXCEPT ![w] = "idle"]
    /\ UNCHANGED <<connected, clock, msg, filled, newestDropped, dropFailed, faults>>

\* COUNT or INSERT fails: Enqueue returns the error and pollOnce ignores it.
EnqueueFails(w) ==
    /\ pc[w] \in {"count", "insert"}
    /\ failures + crashes < MaxFaults
    /\ failures' = failures + 1
    /\ pc' = [pc EXCEPT ![w] = "idle"]
    /\ UNCHANGED <<connected, rows, clock, msg, filled, newestDropped, dropFailed, crashes>>

InHand == {w \in Writers : pc[w] # "idle"}

\* The process dies and is started again by systemd; the rows are on disk.
Restart ==
    /\ InHand # {}
    /\ failures + crashes < MaxFaults
    /\ crashes' = crashes + 1
    /\ pc' = [w \in Writers |-> "idle"]
    /\ UNCHANGED <<connected, rows, clock, msg, filled, newestDropped, dropFailed, failures>>

Next ==
    \/ LinkChanges
    \/ Restart
    \/ \E w \in Writers : \/ PublishFails(w) \/ CountRows(w) \/ DropOldest(w)
                          \/ DropFails(w) \/ InsertRow(w) \/ EnqueueFails(w)

Spec == Init /\ [][Next]_vars
-------------------------------------------------------------------------------
(* Properties *)

\* Type invariant; rows and messages carry numbers that were handed out.
TypeOK ==
    /\ connected \in BOOLEAN
    /\ clock \in 0..MaxMessages
    /\ rows \subseteq 1..clock
    /\ pc \in [Writers -> Pcs]
    /\ msg \in [Writers -> 0..clock]
    /\ \A w \in InHand : msg[w] > 0
    /\ filled \in BOOLEAN
    /\ newestDropped \in 0..clock
    /\ dropFailed \in BOOLEAN
    /\ failures \in Nat
    /\ crashes \in Nat

\* Writers that have passed the capacity check and not inserted yet.
Admitted == {w \in Writers : pc[w] = "insert"}

\* How far the unsynchronised check lets the table grow: with n writers it
\* exceeds max_queue_rows by at most n - 1, as long as no DELETE fails.
BoundedOvershoot ==
    ~dropFailed =>
        Cardinality(rows) + 1 <= MaxQueueRows + Cardinality(Writers)

\* The inductive form: rows, and writers that will add one without looking.
BoundedAdmission ==
    ~dropFailed =>
        Cardinality(rows) + Cardinality(Admitted) + 1
            <= MaxQueueRows + Cardinality(Writers)

\* How far it lets the table shrink: once full, the table loses at most one
\* batch for each writer, whatever overlaps, fails or is cut short.  In
\* particular n writers that find it full at the same time delete n batches,
\* and what the table has is there again after a crash.
BacklogKept ==
    filled => Cardinality(rows) + DropBatch * Cardinality(Writers) >= MaxQueueRows

\* What the table loses is what is old: at most n - 1 of its rows are older
\* than a row that was dropped.  (created_at is taken before COUNT, so a writer
\* that is overtaken may insert a row older than one that is already gone.)
Outdated == {r \in rows : r < newestDropped}
NewestKept == newestDropped > 0 => Cardinality(Outdated) < Cardinality(Writers)

\* Messages newer than all that was dropped, that no writer has in hand and that
\* are not in the table: what Enqueue lost.
Missing == {m \in newestDropped + 1 .. clock : m \notin rows \cup {msg[w] : w \in InHand}}

\* An Enqueue that fails costs its own message, a crash at most one message of
\* each writer; a DELETE that fails, or another writer's, costs none.
GapsBounded ==
    Cardinality(Missing) <= failures + Cardinality(Writers) * crashes
===============================================================================
