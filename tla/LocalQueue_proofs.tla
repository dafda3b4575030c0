-------------------------- MODULE LocalQueue_proofs --------------------------
(***************************************************************************)
(* How far the queue can outgrow max_queue_rows, how much of it a full     *)
(* table keeps, and which messages it may lose, for any finite number of   *)
(* writers, any limit and any batch size.                                  *)
(***************************************************************************)
EXTENDS LocalQueue, FiniteSetTheorems, TLAPS

\* The invariant that is inductive: the table together with the writers that
\* have passed the check.
QInv == TypeOK /\ BoundedAdmission

\* Types and no rows at the start.
LEMMA TypeInit == Init => TypeOK
<1> SUFFICES ASSUME Init PROVE TypeOK
  OBVIOUS
<1>1. clock = 0 /\ clock \in 0..MaxMessages
  BY QueueAssumption DEF Init
<1>2. /\ pc \in [Writers -> Pcs]
      /\ msg \in [Writers -> 0..clock]
      /\ InHand = {}
  BY <1>1 DEF Init, InHand, Pcs
<1>3. /\ newestDropped = clock /\ filled = FALSE /\ dropFailed = FALSE
      /\ rows = {} /\ failures \in Nat /\ crashes \in Nat
  BY <1>1 DEF Init
<1>4. newestDropped \in 0..clock /\ rows \subseteq 1..clock /\ connected \in BOOLEAN
  BY <1>1, <1>3 DEF Init
<1> QED
  BY <1>1, <1>2, <1>3, <1>4, Zenon DEF TypeOK

\* Every step keeps the types.
LEMMA TypeStep == TypeOK /\ [Next]_vars => TypeOK'
<1> SUFFICES ASSUME TypeOK, [Next]_vars PROVE TypeOK'
  OBVIOUS
<1> USE QueueAssumption DEF TypeOK, InHand, Pcs
<1>1. CASE LinkChanges \/ UNCHANGED vars
  BY <1>1 DEF LinkChanges, vars, faults
<1>2. CASE Restart
  BY <1>2 DEF Restart, faults
<1>3. ASSUME NEW w \in Writers, PublishFails(w) PROVE TypeOK'
  <2>1. clock' = clock + 1 /\ clock' \in 0..MaxMessages
    BY <1>3 DEF PublishFails
  <2>2. \A n \in 1..clock : n \in 1..clock'
    BY <2>1
  <2>3. rows' \subseteq 1..clock' /\ newestDropped' \in 0..clock'
    BY <1>3, <2>1, <2>2 DEF PublishFails
  <2>4. msg' \in [Writers -> 0..clock']
    BY <1>3, <2>1 DEF PublishFails
  <2>5. pc' \in [Writers -> Pcs] /\ \A v \in Writers : pc'[v] # "idle" => msg'[v] > 0
    BY <1>3, <2>1 DEF PublishFails
  <2> QED
    BY <1>3, <2>1, <2>3, <2>4, <2>5 DEF PublishFails, faults
<1>4. ASSUME NEW w \in Writers, CountRows(w) PROVE TypeOK'
  <2>1. pc' \in [Writers -> Pcs] /\ UNCHANGED <<connected, rows, clock, msg, newestDropped,
                                               dropFailed, faults>>
    BY <1>4 DEF CountRows
  <2>2. \A v \in Writers : pc'[v] # "idle" => msg'[v] > 0
    BY <1>4 DEF CountRows
  <2>3. filled' \in BOOLEAN
    BY <1>4, Zenon DEF CountRows
  <2> QED
    BY <2>1, <2>2, <2>3 DEF faults
<1>5. ASSUME NEW w \in Writers, DropOldest(w) \/ DropFails(w) PROVE TypeOK'
  <2>1. rows' \subseteq 1..clock /\ newestDropped' \in 0..clock
    <3>1. CASE DropFails(w)
      BY <3>1 DEF DropFails
    <3>2. CASE DropOldest(w)
      <4>1. PICK D \in SUBSET rows : /\ rows' = rows \ D
                                    /\ newestDropped' \in D \cup {newestDropped}
        BY <3>2 DEF DropOldest
      <4>2. \A m \in 1..clock : m \in 0..clock
        OBVIOUS
      <4> QED
        BY <4>1, <4>2
    <3> QED
      BY <1>5, <3>1, <3>2
  <2>2. dropFailed' \in BOOLEAN /\ pc' \in [Writers -> Pcs]
    BY <1>5 DEF DropOldest, DropFails
  <2>3. UNCHANGED <<connected, clock, msg, filled, faults>>
    BY <1>5 DEF DropOldest, DropFails
  <2>4. \A v \in Writers : pc'[v] # "idle" => msg'[v] > 0
    BY <1>5 DEF DropOldest, DropFails
  <2> QED
    BY <2>1, <2>2, <2>3, <2>4 DEF faults
<1>6. ASSUME NEW w \in Writers, InsertRow(w) \/ EnqueueFails(w) PROVE TypeOK'
  <2>1. CASE InsertRow(w)
    <3>1. msg[w] \in 1..clock
      BY <2>1 DEF InsertRow
    <3>2. rows' \subseteq 1..clock
      BY <2>1, <3>1 DEF InsertRow
    <3> QED
      BY <2>1, <3>2 DEF InsertRow, faults
  <2>2. CASE EnqueueFails(w)
    BY <2>2 DEF EnqueueFails
  <2> QED
    BY <1>6, <2>1, <2>2
<1> QED
  BY <1>1, <1>2, <1>3, <1>4, <1>5, <1>6 DEF Next

\* The table and the set of admitted writers are finite.
LEMMA Finite ==
    ASSUME TypeOK
    PROVE  /\ IsFiniteSet(rows) /\ Cardinality(rows) \in Nat
           /\ IsFiniteSet(Admitted) /\ Cardinality(Admitted) \in Nat
           /\ Cardinality(Writers) \in Nat
           /\ Cardinality(Admitted) <= Cardinality(Writers)
<1>1. IsFiniteSet(1..clock)
  BY FS_Interval, QueueAssumption DEF TypeOK
<1>2. IsFiniteSet(rows) /\ Cardinality(rows) \in Nat
  BY <1>1, FS_Subset, FS_CardinalityType DEF TypeOK
<1>3. Admitted \in SUBSET Writers /\ IsFiniteSet(Writers)
  BY QueueAssumption DEF Admitted
<1> QED
  BY <1>2, <1>3, FS_Subset, FS_CardinalityType

\* A writer that is admitted makes the set of admitted writers one larger.
LEMMA Admit ==
    ASSUME TypeOK, NEW w \in Writers, pc[w] # "insert",
           pc' = [pc EXCEPT ![w] = "insert"]
    PROVE  /\ Cardinality(Admitted') = Cardinality(Admitted) + 1
           /\ Cardinality(Admitted') <= Cardinality(Writers)
<1>1. Admitted' = Admitted \cup {w} /\ w \notin Admitted
  BY DEF Admitted, TypeOK
<1>2. Admitted' \in SUBSET Writers /\ IsFiniteSet(Writers)
  BY QueueAssumption DEF Admitted
<1> QED
  BY <1>1, <1>2, Finite, FS_AddElement, FS_Subset

\* A writer that inserts or fails is no longer admitted.
LEMMA Leave ==
    ASSUME TypeOK, NEW w \in Writers, pc[w] = "insert",
           pc' = [pc EXCEPT ![w] = "idle"]
    PROVE  /\ Cardinality(Admitted') = Cardinality(Admitted) - 1
           /\ Cardinality(Admitted) > 0
<1>1. Admitted' = Admitted \ {w} /\ w \in Admitted
  BY DEF Admitted, TypeOK
<1>2. Cardinality(Admitted) > 0
  BY <1>1, Finite, FS_EmptySet
<1> QED
  BY <1>1, <1>2, Finite, FS_RemoveElement

\* DELETE makes room for at least the writer that issued it.
LEMMA DropStep ==
    ASSUME QInv, NEW w \in Writers, DropOldest(w)
    PROVE  BoundedAdmission'
<1> USE QueueAssumption, Finite DEF QInv
<1>1. PICK D \in SUBSET rows : OldestBatch(D) /\ rows' = rows \ D
  BY DEF DropOldest
<1>2. IsFiniteSet(D) /\ Cardinality(D) \in Nat
  BY <1>1, FS_Subset, FS_CardinalityType
<1>3. Cardinality(rows') = Cardinality(rows) - Cardinality(D)
  <2>1. rows \cap D = D
    OBVIOUS
  <2> QED
    BY <1>1, <1>2, <2>1, FS_Difference
<1>4. \/ Cardinality(rows') = 0
      \/ Cardinality(rows') = Cardinality(rows) - DropBatch
  BY <1>1, <1>2, <1>3 DEF OldestBatch
<1>5. Cardinality(Admitted') = Cardinality(Admitted) + 1
      /\ Cardinality(Admitted') <= Cardinality(Writers)
  BY Admit DEF DropOldest
<1>6. UNCHANGED dropFailed
  BY DEF DropOldest
<1> QED
  BY <1>3, <1>4, <1>5, <1>6 DEF BoundedAdmission

\* Every step keeps the bound on rows and admitted writers.
LEMMA QInvStep == QInv /\ [Next]_vars => QInv'
<1> SUFFICES ASSUME QInv, [Next]_vars PROVE BoundedAdmission'
  BY TypeStep DEF QInv
<1> USE QueueAssumption, Finite DEF QInv
<1>1. CASE LinkChanges \/ UNCHANGED vars
  BY <1>1 DEF LinkChanges, vars, BoundedAdmission, Admitted
<1>2. CASE Restart
  <2>1. Admitted' = {}
    BY <1>2 DEF Restart, Admitted
  <2>2. Cardinality(Admitted') = 0
    BY <2>1, FS_EmptySet
  <2> QED
    BY <1>2, <2>2 DEF Restart, BoundedAdmission
<1>3. ASSUME NEW w \in Writers, PublishFails(w) PROVE BoundedAdmission'
  <2>1. Admitted' = Admitted
    BY <1>3 DEF PublishFails, Admitted, TypeOK
  <2> QED
    BY <1>3, <2>1 DEF PublishFails, BoundedAdmission
<1>4. ASSUME NEW w \in Writers, CountRows(w) PROVE BoundedAdmission'
  <2>1. CASE Cardinality(rows) >= MaxQueueRows
    <3>1. Admitted' = Admitted
      BY <1>4, <2>1 DEF CountRows, Full, Admitted, TypeOK
    <3> QED
      BY <1>4, <3>1 DEF CountRows, Full, BoundedAdmission
  <2>2. CASE ~(Cardinality(rows) >= MaxQueueRows)
    <3>1. Cardinality(Admitted') <= Cardinality(Writers)
          /\ Cardinality(Admitted') = Cardinality(Admitted) + 1
      BY <1>4, <2>2, Admit DEF CountRows, Full
    <3> QED
      BY <1>4, <2>2, <3>1 DEF CountRows, Full, BoundedAdmission
  <2> QED
    BY <2>1, <2>2
<1>5. ASSUME NEW w \in Writers, DropOldest(w) PROVE BoundedAdmission'
  BY <1>5, DropStep
<1>6. ASSUME NEW w \in Writers, DropFails(w) PROVE BoundedAdmission'
  BY <1>6 DEF DropFails, BoundedAdmission
<1>7. ASSUME NEW w \in Writers, InsertRow(w) PROVE BoundedAdmission'
  <2>1. Cardinality(Admitted') = Cardinality(Admitted) - 1
        /\ Cardinality(Admitted) > 0
    BY <1>7, Leave DEF InsertRow
  <2>2. Cardinality(rows') <= Cardinality(rows) + 1 /\ Cardinality(rows') \in Nat
    <3>1. IsFiniteSet(rows) /\ Cardinality(rows) \in Nat
      OBVIOUS
    <3>2. Cardinality(rows \cup {msg[w]}) =
            IF msg[w] \in rows THEN Cardinality(rows) ELSE Cardinality(rows) + 1
      BY <3>1, FS_AddElement
    <3> QED
      BY <1>7, <3>1, <3>2 DEF InsertRow
  <2> QED
    BY <1>7, <2>1, <2>2 DEF InsertRow, BoundedAdmission
<1>8. ASSUME NEW w \in Writers, EnqueueFails(w) PROVE BoundedAdmission'
  <2>1. CASE pc[w] = "insert"
    <3>1. Cardinality(Admitted') = Cardinality(Admitted) - 1
      BY <1>8, <2>1, Leave DEF EnqueueFails
    <3> QED
      BY <1>8, <3>1 DEF EnqueueFails, BoundedAdmission
  <2>2. CASE pc[w] # "insert"
    <3>1. Admitted' = Admitted
      BY <1>8, <2>2 DEF EnqueueFails, Admitted, TypeOK
    <3> QED
      BY <1>8, <3>1 DEF EnqueueFails, BoundedAdmission
  <2> QED
    BY <2>1, <2>2
<1> QED
  BY <1>1, <1>2, <1>3, <1>4, <1>5, <1>6, <1>7, <1>8 DEF Next

\* The types of the queue hold throughout.
THEOREM TypeCorrect == Spec => []TypeOK
  BY TypeInit, TypeStep, PTL DEF Spec

\* With any number of writers, rows and admitted writers together stay within
\* max_queue_rows plus the number of writers, less one.
THEOREM BoundedAdmissionHolds == Spec => []BoundedAdmission
<1>1. Init => QInv
  <2> SUFFICES ASSUME Init PROVE QInv
    OBVIOUS
  <2>1. TypeOK
    BY TypeInit
  <2>2. rows = {} /\ Admitted = {}
    BY DEF Init, Admitted
  <2>3. Cardinality(rows) = 0 /\ Cardinality(Admitted) = 0
    BY <2>2, FS_EmptySet
  <2> QED
    BY <2>1, <2>3, Finite, QueueAssumption DEF QInv, BoundedAdmission
<1>2. QInv => BoundedAdmission
  BY DEF QInv
<1> QED
  BY <1>1, <1>2, QInvStep, PTL DEF Spec

\* With any number n of writers the table exceeds max_queue_rows by at most
\* n - 1 rows, unless a DELETE failed.
THEOREM BoundedOvershootHolds == Spec => []BoundedOvershoot
<1>1. TypeOK /\ BoundedAdmission => BoundedOvershoot
  BY Finite, QueueAssumption DEF BoundedAdmission, BoundedOvershoot
<1> QED
  BY <1>1, TypeCorrect, BoundedAdmissionHolds, PTL


\* Writers that found the table full and have not deleted yet.
Dropping == {w \in Writers : pc[w] = "drop"}

\* The inductive form of BacklogKept: a batch for each writer that may have
\* deleted since the table was found full.
BacklogInv ==
    filled => Cardinality(rows) + DropBatch * Cardinality(Writers)
                 >= MaxQueueRows + DropBatch * Cardinality(Dropping)

\* What remains of a table after a step of the queue, in numbers.
LEMMA DroppingFinite ==
    ASSUME TypeOK
    PROVE  /\ IsFiniteSet(Dropping) /\ Cardinality(Dropping) \in Nat
           /\ Cardinality(Dropping) <= Cardinality(Writers)
<1>1. Dropping \in SUBSET Writers /\ IsFiniteSet(Writers)
  BY QueueAssumption DEF Dropping
<1> QED
  BY <1>1, FS_Subset, FS_CardinalityType

\* A writer that leaves "drop" makes the set of dropping writers one smaller.
LEMMA DropDone ==
    ASSUME TypeOK, NEW w \in Writers, pc[w] = "drop",
           pc' = [pc EXCEPT ![w] = "insert"]
    PROVE  Cardinality(Dropping') = Cardinality(Dropping) - 1
<1>1. Dropping' = Dropping \ {w} /\ w \in Dropping
  BY DEF Dropping, TypeOK
<1> QED
  BY <1>1, DroppingFinite, FS_RemoveElement

\* The numbers that the bound is about.
Counts ==
    /\ IsFiniteSet(rows) /\ Cardinality(rows) \in Nat
    /\ Cardinality(Dropping) \in Nat /\ Cardinality(Writers) \in Nat
    /\ Cardinality(Dropping) <= Cardinality(Writers)

LEMMA TypeCounts == TypeOK => Counts
BY Finite, DroppingFinite DEF Counts

LEMMA Times ==
    ASSUME NEW i \in Nat, NEW j \in Nat, i <= j
    PROVE  DropBatch * i <= DropBatch * j /\ DropBatch * i \in Nat /\ DropBatch * j \in Nat
BY QueueAssumption

\* A larger or equal table and no more dropping writers keep the bound.
LEMMA BacklogEasier ==
    ASSUME NEW r \in Nat, NEW s \in Nat, NEW d \in Nat, NEW e \in Nat, NEW n \in Nat,
           s >= r, e <= d, r + DropBatch * n >= MaxQueueRows + DropBatch * d
    PROVE  s + DropBatch * n >= MaxQueueRows + DropBatch * e
<1>1. DropBatch * e <= DropBatch * d /\ DropBatch * e \in Nat /\ DropBatch * d \in Nat
  BY Times
<1>2. DropBatch * n \in Nat
  BY Times
<1> QED
  BY <1>1, <1>2, QueueAssumption

\* Every step keeps the bound from below.
LEMMA BacklogStep == TypeOK /\ BacklogInv /\ [Next]_vars => BacklogInv'
<1> SUFFICES ASSUME TypeOK, BacklogInv, [Next]_vars PROVE BacklogInv'
  OBVIOUS
<1> DEFINE n == Cardinality(Writers)
           r == Cardinality(rows)
           d == Cardinality(Dropping)
<1>0. TypeOK'
  BY TypeStep
<1>1. r \in Nat /\ r' \in Nat /\ d \in Nat /\ d' \in Nat /\ n \in Nat /\ n' = n
      /\ d <= n /\ d' <= n
  <2>1. r \in Nat /\ n \in Nat /\ d \in Nat /\ d <= n
    BY Finite, DroppingFinite
  <2>2. r' \in Nat /\ d' \in Nat /\ d' <= n
    <3>1. Counts'
      BY <1>0, TypeCounts, PTL
    <3> QED
      BY <3>1 DEF Counts
  <2> QED
    BY <2>1, <2>2
<1>2. filled => r + DropBatch * n >= MaxQueueRows + DropBatch * d
  BY DEF BacklogInv
<1>3. SUFFICES ASSUME filled' PROVE r' + DropBatch * n >= MaxQueueRows + DropBatch * d'
  BY DEF BacklogInv
<1>4. ASSUME filled, r' >= r, d' <= d
      PROVE  r' + DropBatch * n >= MaxQueueRows + DropBatch * d'
  <2> HIDE DEF n, r, d
  <2> QED
    BY <1>1, <1>2, <1>4, BacklogEasier
<1>5. CASE LinkChanges \/ UNCHANGED vars
  <2>1. r' = r /\ Dropping' = Dropping /\ filled
    BY <1>3, <1>5 DEF LinkChanges, vars, Dropping
  <2> QED
    BY <1>1, <1>4, <2>1
<1>6. CASE Restart
  <2>1. Dropping' = {} /\ r' = r /\ filled
    BY <1>3, <1>6 DEF Restart, Dropping
  <2>2. d' = 0
    BY <2>1, FS_EmptySet
  <2> QED
    BY <1>1, <1>4, <2>1, <2>2
<1>7. ASSUME NEW w \in Writers, PublishFails(w) \/ EnqueueFails(w)
      PROVE  r' + DropBatch * n >= MaxQueueRows + DropBatch * d'
  <2>1. r' = r /\ Dropping' = Dropping /\ filled
    BY <1>3, <1>7 DEF PublishFails, EnqueueFails, Dropping, TypeOK
  <2> QED
    BY <1>1, <1>4, <2>1
<1>8. ASSUME NEW w \in Writers, CountRows(w)
      PROVE  r' + DropBatch * n >= MaxQueueRows + DropBatch * d'
  <2>1. CASE Full
    <3>1. r' = r /\ r >= MaxQueueRows
      BY <1>8, <2>1 DEF CountRows, Full
    <3> HIDE DEF n, r, d
    <3>2. DropBatch * d' <= DropBatch * n /\ DropBatch * d' \in Nat /\ DropBatch * n \in Nat
      BY <1>1, Times
    <3> DEFINE x == DropBatch * n
               y == DropBatch * d'
    <3>3. y <= x /\ y \in Nat /\ x \in Nat
      BY <3>2
    <3> HIDE DEF x, y
    <3>4. r' + x >= MaxQueueRows + y
      BY <1>1, <3>1, <3>3, QueueAssumption
    <3> QED
      BY <3>4 DEF x, y
  <2>2. CASE ~Full
    <3>1. r' = r /\ Dropping' = Dropping /\ filled
      BY <1>3, <1>8, <2>2 DEF CountRows, Dropping, TypeOK
    <3> QED
      BY <1>1, <1>4, <3>1
  <2> QED
    BY <2>1, <2>2
<1>9. ASSUME NEW w \in Writers, DropOldest(w)
      PROVE  r' + DropBatch * n >= MaxQueueRows + DropBatch * d'
  <2>1. PICK D \in SUBSET rows : OldestBatch(D) /\ rows' = rows \ D
    BY <1>9 DEF DropOldest
  <2>2. IsFiniteSet(D) /\ Cardinality(D) \in Nat
    BY <2>1, Finite, FS_Subset, FS_CardinalityType
  <2>3. Cardinality(D) <= DropBatch
    BY <2>1, <2>2, Finite, QueueAssumption DEF OldestBatch
  <2>4. r' = r - Cardinality(D)
    <3>1. rows \cap D = D
      OBVIOUS
    <3> QED
      BY <2>1, <2>2, <3>1, Finite, FS_Difference
  <2>5. d' = d - 1 /\ filled
    BY <1>3, <1>9, DropDone DEF DropOldest
  <2> HIDE DEF n, r, d
  <2>6. DropBatch * d' = DropBatch * d - DropBatch
    BY <1>1, <2>5, QueueAssumption
  <2>7. DropBatch * d \in Nat /\ DropBatch * n \in Nat
    BY <1>1, QueueAssumption
  <2> QED
    BY <1>1, <1>2, <2>2, <2>3, <2>4, <2>5, <2>6, <2>7, QueueAssumption
<1>10. ASSUME NEW w \in Writers, DropFails(w)
       PROVE  r' + DropBatch * n >= MaxQueueRows + DropBatch * d'
  <2>1. d' = d - 1 /\ r' = r /\ filled
    BY <1>3, <1>10, DropDone DEF DropFails
  <2> QED
    BY <1>1, <1>4, <2>1
<1>11. ASSUME NEW w \in Writers, InsertRow(w)
       PROVE  r' + DropBatch * n >= MaxQueueRows + DropBatch * d'
  <2>1. Dropping' = Dropping /\ filled
    BY <1>3, <1>11 DEF InsertRow, Dropping, TypeOK
  <2>2. r' >= r
    <3>1. rows \in SUBSET rows'
      BY <1>11 DEF InsertRow
    <3>2. IsFiniteSet(rows')
      <4>1. Counts'
        BY <1>0, TypeCounts, PTL
      <4> QED
        BY <4>1 DEF Counts
    <3> QED
      BY <1>1, <3>1, <3>2, FS_Subset
  <2> QED
    BY <1>1, <1>4, <2>1, <2>2
<1> QED
  BY <1>5, <1>6, <1>7, <1>8, <1>9, <1>10, <1>11 DEF Next

\* With any number of writers, any limit and any batch, a table that was full keeps all
\* but one batch per writer, through overlaps, errors and crashes.
THEOREM BacklogKeptHolds == Spec => []BacklogKept
<1>1. Init => BacklogInv
  BY DEF Init, BacklogInv
<1>2. TypeOK /\ BacklogInv => BacklogKept
  <2> SUFFICES ASSUME TypeOK, BacklogInv PROVE BacklogKept
    OBVIOUS
  <2>1. DropBatch * Cardinality(Dropping) \in Nat /\ DropBatch * Cardinality(Writers) \in Nat
    BY Finite, DroppingFinite, QueueAssumption
  <2> QED
    BY <2>1, Finite, QueueAssumption DEF BacklogInv, BacklogKept
<1> QED
  BY <1>1, <1>2, BacklogStep, TypeCorrect, PTL DEF Spec

\* Writers that carry a message older than one that was dropped.
Late == {w \in InHand : msg[w] < newestDropped}

\* Of the writers, the one that inserted a row has gone on to a newer message, if to any;
\* so never do all of them carry a message that is older than a row.
Overtaken(m) == \E w \in Writers : w \in InHand => msg[w] > m
KeptInv ==
    /\ \A r \in rows : Overtaken(r)
    /\ newestDropped > 0 => Cardinality(Outdated) + Cardinality(Late) < Cardinality(Writers)

\* The sets that are counted are finite.
LEMMA KeptFinite ==
    ASSUME TypeOK
    PROVE  /\ IsFiniteSet(Outdated) /\ Cardinality(Outdated) \in Nat
           /\ IsFiniteSet(Late) /\ Cardinality(Late) \in Nat
           /\ IsFiniteSet(Writers) /\ Cardinality(Writers) \in Nat
<1>1. Outdated \in SUBSET rows /\ Late \in SUBSET Writers
  BY DEF Outdated, Late, InHand
<1> QED
  BY <1>1, Finite, QueueAssumption, FS_Subset, FS_CardinalityType

\* Fewer outdated rows and late writers.
LEMMA KeptEasier ==
    ASSUME TypeOK, KeptInv, newestDropped' = newestDropped,
           Outdated' \subseteq Outdated, Late' \subseteq Late
    PROVE  newestDropped' > 0 => Cardinality(Outdated') + Cardinality(Late')
                                    < Cardinality(Writers)
<1>1. /\ Cardinality(Outdated') \in Nat /\ Cardinality(Outdated') <= Cardinality(Outdated)
      /\ Cardinality(Late') \in Nat /\ Cardinality(Late') <= Cardinality(Late)
  BY KeptFinite, FS_Subset, FS_CardinalityType
<1> QED
  BY <1>1, KeptFinite DEF KeptInv

\* A row that is deleted leaves no writer that carries an older message, or not all.
LEMMA NotAllLate ==
    ASSUME TypeOK, TypeOK', newestDropped' \in rows, Overtaken(newestDropped'),
           InHand' = InHand, msg' = msg
    PROVE  Cardinality(Late') < Cardinality(Writers) /\ Cardinality(Late') \in Nat
<1>1. PICK w \in Writers : w \in InHand => msg[w] > newestDropped'
  BY DEF Overtaken
<1>2. newestDropped' \in Nat /\ \A v \in Writers : msg[v] \in Nat
  BY DEF TypeOK
<1>3. Late' \subseteq Writers /\ w \notin Late'
  BY <1>1, <1>2 DEF Late, InHand
<1>4. Late' \in SUBSET (Writers \ {w})
  BY <1>3
<1>5. /\ Cardinality(Writers \ {w}) = Cardinality(Writers) - 1
      /\ IsFiniteSet(Writers \ {w})
  BY FS_RemoveElement, QueueAssumption
<1> QED
  BY <1>4, <1>5, KeptFinite, FS_Subset, FS_CardinalityType

\* Every step keeps what is newest, as counted.
LEMMA KeptStep == TypeOK /\ KeptInv /\ [Next]_vars => KeptInv'
<1> SUFFICES ASSUME TypeOK, KeptInv, [Next]_vars PROVE KeptInv'
  OBVIOUS
<1>0. TypeOK'
  BY TypeStep
<1>1. \A r \in rows : Overtaken(r)
  BY DEF KeptInv
<1>2. \A w \in Writers : msg[w] \in Nat
  BY DEF TypeOK
<1>3. clock \in Nat /\ newestDropped \in 0..clock /\ \A r \in rows : r \in 1..clock
  BY QueueAssumption DEF TypeOK
<1>4. ASSUME rows' \subseteq rows, InHand' \subseteq InHand, msg' = msg,
             newestDropped' = newestDropped
      PROVE  KeptInv'
  <2>1. \A r \in rows' : Overtaken(r)'
    BY <1>1, <1>4 DEF Overtaken
  <2>2. Outdated' \subseteq Outdated /\ Late' \subseteq Late
    BY <1>4 DEF Outdated, Late
  <2>3. newestDropped' > 0 => Cardinality(Outdated') + Cardinality(Late')
                                 < Cardinality(Writers)
    BY <1>4, <2>2, KeptEasier
  <2> QED
    BY <2>1, <2>3 DEF KeptInv
<1>5. CASE LinkChanges \/ UNCHANGED vars
  BY <1>4, <1>5 DEF LinkChanges, vars, InHand
<1>6. CASE Restart
  BY <1>4, <1>6 DEF Restart, InHand
<1>7. ASSUME NEW w \in Writers, PublishFails(w) PROVE KeptInv'
  <2>1. InHand' = InHand \cup {w} /\ rows' = rows /\ newestDropped' = newestDropped
    BY <1>7 DEF PublishFails, InHand, TypeOK
  <2>2. msg'[w] = clock + 1 /\ \A v \in Writers : v # w => msg'[v] = msg[v]
    BY <1>7 DEF PublishFails, TypeOK
  <2>3. \A r \in rows' : Overtaken(r)'
    <3> SUFFICES ASSUME NEW r \in rows PROVE Overtaken(r)'
      BY <2>1
    <3>1. PICK v \in Writers : v \in InHand => msg[v] > r
      BY <1>1 DEF Overtaken
    <3>2. v \in InHand' => msg'[v] > r
      BY <1>3, <2>1, <2>2, <3>1
    <3> QED
      BY <3>2 DEF Overtaken
  <2>4. Outdated' \subseteq Outdated /\ Late' \subseteq Late
    BY <1>3, <2>1, <2>2 DEF Outdated, Late, InHand
  <2>5. newestDropped' > 0 => Cardinality(Outdated') + Cardinality(Late')
                                 < Cardinality(Writers)
    BY <2>1, <2>4, KeptEasier
  <2> QED
    BY <2>3, <2>5 DEF KeptInv
<1>8. ASSUME NEW w \in Writers, CountRows(w) \/ DropFails(w) \/ EnqueueFails(w)
      PROVE  KeptInv'
  <2>1. InHand' \subseteq InHand /\ rows' = rows /\ msg' = msg /\ newestDropped' = newestDropped
    BY <1>8 DEF CountRows, DropFails, EnqueueFails, InHand, TypeOK
  <2> QED
    BY <1>4, <2>1
<1>9. ASSUME NEW w \in Writers, DropOldest(w) PROVE KeptInv'
  <2>1. InHand' = InHand /\ msg' = msg
    BY <1>9 DEF DropOldest, InHand, TypeOK
  <2>2. PICK D \in SUBSET rows : /\ OldestBatch(D) /\ rows' = rows \ D
                                 /\ newestDropped' \in D \cup {newestDropped}
    BY <1>9 DEF DropOldest
  <2>3. CASE newestDropped' = newestDropped
    BY <1>4, <2>1, <2>2, <2>3
  <2>4. CASE newestDropped' \in D
    <3>1. \A r \in rows' : newestDropped' < r /\ r \in Nat
      BY <1>3, <2>2, <2>4 DEF OldestBatch
    <3>2. newestDropped' \in Nat
      BY <1>3, <2>4
    <3>3. Outdated' = {}
      BY <3>1, <3>2 DEF Outdated
    <3>4. Cardinality(Outdated') = 0
      BY <3>3, FS_EmptySet
    <3>5. Cardinality(Late') < Cardinality(Writers) /\ Cardinality(Late') \in Nat
      <4>1. newestDropped' \in rows /\ Overtaken(newestDropped')
        BY <1>1, <2>4
      <4> QED
        BY <1>0, <2>1, <4>1, NotAllLate
    <3>6. \A r \in rows' : Overtaken(r)'
      BY <1>1, <2>1, <2>2 DEF Overtaken
    <3> QED
      BY <3>4, <3>5, <3>6, KeptFinite DEF KeptInv
  <2> QED
    BY <2>2, <2>3, <2>4
<1>10. ASSUME NEW w \in Writers, InsertRow(w) PROVE KeptInv'
  <2>1. InHand' = InHand \ {w} /\ w \in InHand /\ w \notin InHand'
    BY <1>10 DEF InsertRow, InHand, TypeOK
  <2>2. rows' = rows \cup {msg[w]} /\ msg' = msg /\ newestDropped' = newestDropped
    BY <1>10 DEF InsertRow
  <2>3. \A r \in rows' : Overtaken(r)'
    BY <1>1, <2>1, <2>2 DEF Overtaken
  <2>4. CASE msg[w] < newestDropped
    <3>1. Outdated' = Outdated \cup {msg[w]}
      BY <2>2, <2>4 DEF Outdated
    <3>2. Late' = Late \ {w} /\ w \in Late
      BY <2>1, <2>2, <2>4 DEF Late
    <3>3. Cardinality(Outdated') <= Cardinality(Outdated) + 1 /\ Cardinality(Outdated') \in Nat
      <4>1. Cardinality(Outdated \cup {msg[w]}) =
              IF msg[w] \in Outdated THEN Cardinality(Outdated) ELSE Cardinality(Outdated) + 1
        BY KeptFinite, FS_AddElement
      <4> QED
        BY <3>1, <4>1, KeptFinite
    <3>4. Cardinality(Late') = Cardinality(Late) - 1
      BY <3>2, KeptFinite, FS_RemoveElement
    <3>5. Cardinality(Outdated') + Cardinality(Late') <= Cardinality(Outdated) + Cardinality(Late)
      BY <3>3, <3>4, KeptFinite
    <3> QED
      BY <2>2, <2>3, <3>3, <3>4, <3>5, KeptFinite DEF KeptInv
  <2>5. CASE ~(msg[w] < newestDropped)
    <3>1. Outdated' \subseteq Outdated /\ Late' \subseteq Late
      BY <2>1, <2>2, <2>5 DEF Outdated, Late
    <3>2. newestDropped' > 0 => Cardinality(Outdated') + Cardinality(Late')
                                   < Cardinality(Writers)
      BY <2>2, <3>1, KeptEasier
    <3> QED
      BY <2>3, <3>2 DEF KeptInv
  <2> QED
    BY <2>4, <2>5
<1> QED
  BY <1>5, <1>6, <1>7, <1>8, <1>9, <1>10 DEF Next

\* With any number n of writers, at most n - 1 rows are older than a row that was dropped.
THEOREM NewestKeptHolds == Spec => []NewestKept
<1>1. Init => KeptInv
  BY DEF Init, KeptInv
<1>2. TypeOK /\ KeptInv => NewestKept
  BY KeptFinite DEF KeptInv, NewestKept
<1> QED
  BY <1>1, <1>2, KeptStep, TypeCorrect, PTL DEF Spec

\* The messages in the hands of writers.
Carried == {msg[w] : w \in InHand}

\* There are no more of them than writers, and Missing is about them.
LEMMA GapFinite ==
    ASSUME TypeOK
    PROVE  /\ IsFiniteSet(Carried) /\ Cardinality(Carried) <= Cardinality(Writers)
           /\ Cardinality(Carried) \in Nat /\ Cardinality(Writers) \in Nat
           /\ IsFiniteSet(Missing) /\ Cardinality(Missing) \in Nat
           /\ Missing = {m \in newestDropped + 1 .. clock : m \notin rows \cup Carried}
<1>1. Missing = {m \in newestDropped + 1 .. clock : m \notin rows \cup Carried}
  BY DEF Missing, Carried
<1>2. IsFiniteSet(newestDropped + 1 .. clock)
  BY FS_Interval, QueueAssumption DEF TypeOK
<1>3. IsFiniteSet(Missing) /\ Cardinality(Missing) \in Nat
  BY <1>1, <1>2, FS_Subset, FS_CardinalityType
<1>4. InHand \in SUBSET Writers
  BY DEF InHand
<1>5. /\ IsFiniteSet(InHand) /\ Cardinality(InHand) <= Cardinality(Writers)
      /\ Cardinality(InHand) \in Nat /\ Cardinality(Writers) \in Nat
  BY <1>4, QueueAssumption, FS_Subset, FS_CardinalityType
<1>6. IsFiniteSet(Carried) /\ Cardinality(Carried) <= Cardinality(InHand)
  <2> DEFINE f == [w \in InHand |-> msg[w]]
  <2>1. f \in Surjection(InHand, Carried)
    BY DEF Carried, Surjection
  <2> QED
    BY <1>5, <2>1, FS_Surjection
<1> QED
  BY <1>1, <1>3, <1>5, <1>6, FS_CardinalityType

LEMMA Above ==
    ASSUME NEW i \in Nat, NEW j \in Nat, NEW k \in Nat, i <= j
    PROVE  \A m \in j + 1 .. k : m \in i + 1 .. k /\ m > j
OBVIOUS

\* A step after which no more is missing, and no fault is forgotten.
LEMMA GapEasier ==
    ASSUME TypeOK, GapsBounded, Missing' \subseteq Missing, UNCHANGED faults
    PROVE  GapsBounded'
<1>1. IsFiniteSet(Missing) /\ Cardinality(Missing) \in Nat
  BY GapFinite
<1>2. Cardinality(Missing') <= Cardinality(Missing) /\ Cardinality(Missing') \in Nat
  BY <1>1, FS_Subset, FS_CardinalityType
<1>3. failures' = failures /\ crashes' = crashes
  BY DEF faults
<1> DEFINE x == failures + Cardinality(Writers) * crashes
<1>4. x \in Nat
  <2>1. Cardinality(Writers) \in Nat /\ failures \in Nat /\ crashes \in Nat
    BY GapFinite DEF TypeOK
  <2> QED
    BY <2>1
<1>5. Cardinality(Missing) <= x /\ x' = x
  BY <1>3 DEF GapsBounded
<1> HIDE DEF x
<1>6. Cardinality(Missing') <= x'
  BY <1>1, <1>2, <1>4, <1>5
<1> QED
  BY <1>6 DEF x, GapsBounded

\* Every step loses no more than the faults that it counts.
LEMMA GapStep == TypeOK /\ GapsBounded /\ [Next]_vars => GapsBounded'
<1> SUFFICES ASSUME TypeOK, GapsBounded, [Next]_vars PROVE GapsBounded'
  OBVIOUS
<1>1. Missing = {m \in newestDropped + 1 .. clock : m \notin rows \cup Carried}
  BY GapFinite
<1>2. Missing' = {m \in newestDropped' + 1 .. clock' : m \notin rows' \cup Carried'}
  BY DEF Missing, Carried
<1>3. ASSUME newestDropped' >= newestDropped, newestDropped' \in Nat, clock' = clock,
             UNCHANGED faults,
             \A m \in rows \cup Carried : m > newestDropped' => m \in rows' \cup Carried'
      PROVE  GapsBounded'
  <2>1. newestDropped \in Nat /\ clock \in Nat
    BY QueueAssumption DEF TypeOK
  <2>2. \A m \in newestDropped' + 1 .. clock' :
            m \in newestDropped + 1 .. clock /\ m > newestDropped'
    <3>1. newestDropped' \in Nat /\ newestDropped <= newestDropped' /\ clock' = clock
      BY <1>3, <2>1
    <3>2. PICK b : b = newestDropped'
      OBVIOUS
    <3>3. \A m \in b + 1 .. clock : m \in newestDropped + 1 .. clock /\ m > b
      BY <2>1, <3>1, <3>2, Above
    <3> QED
      BY <3>1, <3>2, <3>3
  <2>3. Missing' \subseteq Missing
    BY <1>1, <1>2, <1>3, <2>2
  <2> QED
    BY <1>3, <2>3, GapEasier
<1>4. newestDropped \in Nat /\ clock \in Nat /\ newestDropped <= newestDropped
  BY QueueAssumption DEF TypeOK
<1>5. CASE LinkChanges \/ UNCHANGED vars
  <2>1. /\ rows' = rows /\ Carried' = Carried /\ clock' = clock
        /\ newestDropped' = newestDropped /\ UNCHANGED faults
    BY <1>5 DEF LinkChanges, vars, Carried, InHand
  <2> QED
    BY <1>3, <1>4, <2>1
<1>6. CASE Restart
  <2>1. Missing' \subseteq Missing \cup Carried
    <3>1. clock' = clock /\ rows' = rows /\ newestDropped' = newestDropped
      BY <1>6 DEF Restart
    <3> QED
      BY <1>1, <1>2, <3>1
  <2>2. IsFiniteSet(Missing) /\ IsFiniteSet(Carried)
    BY GapFinite
  <2>3. /\ IsFiniteSet(Missing \cup Carried)
        /\ Cardinality(Missing \cup Carried) <= Cardinality(Missing) + Cardinality(Carried)
    <3>1. /\ IsFiniteSet(Missing \cup Carried)
          /\ Cardinality(Missing \cup Carried) =
               Cardinality(Missing) + Cardinality(Carried) - Cardinality(Missing \cap Carried)
      BY <2>2, FS_Union
    <3>2. Cardinality(Missing \cap Carried) \in Nat
      BY <2>2, FS_Intersection, FS_CardinalityType
    <3> QED
      BY <3>1, <3>2, GapFinite
  <2>4. Cardinality(Missing') <= Cardinality(Missing) + Cardinality(Carried)
        /\ Cardinality(Missing') \in Nat
    <3>1. Cardinality(Missing') <= Cardinality(Missing \cup Carried)
          /\ Cardinality(Missing') \in Nat
      BY <2>1, <2>3, FS_Subset, FS_CardinalityType
    <3>2. Cardinality(Missing \cup Carried) \in Nat
      BY <2>3, FS_CardinalityType
    <3> QED
      BY <2>3, <3>1, <3>2, GapFinite
  <2>5. failures' = failures /\ crashes' = crashes + 1 /\ failures \in Nat /\ crashes \in Nat
    BY <1>6 DEF Restart, TypeOK
  <2> DEFINE n == Cardinality(Writers)
             x == n * crashes
  <2>6. n \in Nat /\ Cardinality(Carried) <= n /\ Cardinality(Carried) \in Nat
        /\ Cardinality(Missing) \in Nat
    BY GapFinite
  <2>7. x \in Nat /\ n * crashes' = x + n
    <3> HIDE DEF n
    <3> QED
      BY <2>5, <2>6
  <2>8. Cardinality(Missing) <= failures + x
    BY DEF GapsBounded
  <2> HIDE DEF n, x
  <2>9. Cardinality(Missing') <= failures' + (x + n)
    BY <2>4, <2>5, <2>6, <2>7, <2>8
  <2> QED
    BY <2>7, <2>9 DEF n, GapsBounded
<1>7. ASSUME NEW w \in Writers, PublishFails(w) PROVE GapsBounded'
  <2>1. InHand' = InHand \cup {w} /\ w \notin InHand /\ clock' = clock + 1
        /\ rows' = rows /\ newestDropped' = newestDropped /\ UNCHANGED faults
    BY <1>7 DEF PublishFails, InHand, TypeOK, faults
  <2>2. msg'[w] = clock + 1 /\ \A v \in InHand : msg'[v] = msg[v]
    BY <1>7, <2>1 DEF PublishFails, InHand, TypeOK
  <2>3. Carried' = Carried \cup {clock + 1}
    BY <2>1, <2>2 DEF Carried
  <2>4. \A m \in newestDropped' + 1 .. clock' :
            m \in newestDropped + 1 .. clock \/ m = clock + 1
    BY <1>4, <2>1
  <2>5. Missing' \subseteq Missing
    BY <1>1, <1>2, <2>1, <2>3, <2>4
  <2> QED
    BY <2>1, <2>5, GapEasier
<1>8. ASSUME NEW w \in Writers, CountRows(w) \/ DropFails(w) PROVE GapsBounded'
  <2>1. /\ rows' = rows /\ Carried' = Carried /\ clock' = clock
        /\ newestDropped' = newestDropped /\ UNCHANGED faults
    BY <1>8 DEF CountRows, DropFails, InHand, Carried, TypeOK
  <2> QED
    BY <1>3, <1>4, <2>1
<1>9. ASSUME NEW w \in Writers, DropOldest(w) PROVE GapsBounded'
  <2>1. Carried' = Carried /\ clock' = clock /\ UNCHANGED faults
    BY <1>9 DEF DropOldest, InHand, Carried, TypeOK
  <2>2. PICK D \in SUBSET rows :
            /\ rows' = rows \ D /\ newestDropped' \in D \cup {newestDropped}
            /\ \A d \in D \cup {newestDropped} : d <= newestDropped'
    BY <1>9 DEF DropOldest
  <2>3. \A d \in D : d \in Nat
    BY <2>2 DEF TypeOK
  <2>4. newestDropped' \in Nat /\ newestDropped' >= newestDropped
    BY <1>4, <2>2, <2>3
  <2>5. \A m \in rows \cup Carried : m > newestDropped' => m \in rows' \cup Carried'
    BY <2>1, <2>2, <2>3, <2>4
  <2> QED
    BY <1>3, <2>1, <2>4, <2>5
<1>10. ASSUME NEW w \in Writers, InsertRow(w) PROVE GapsBounded'
  <2>1. InHand' = InHand \ {w} /\ w \in InHand
    BY <1>10 DEF InsertRow, InHand, TypeOK
  <2>2. /\ rows' = rows \cup {msg[w]} /\ msg' = msg /\ clock' = clock
        /\ newestDropped' = newestDropped /\ UNCHANGED faults
    BY <1>10 DEF InsertRow
  <2>3. rows \cup Carried \subseteq rows' \cup Carried'
    BY <2>1, <2>2 DEF Carried
  <2> QED
    BY <1>3, <1>4, <2>2, <2>3
<1>11. ASSUME NEW w \in Writers, EnqueueFails(w) PROVE GapsBounded'
  <2>1. InHand' = InHand \ {w}
    BY <1>11 DEF EnqueueFails, InHand, TypeOK
  <2>2. /\ rows' = rows /\ msg' = msg /\ clock' = clock /\ newestDropped' = newestDropped
        /\ failures' = failures + 1 /\ crashes' = crashes
    BY <1>11 DEF EnqueueFails
  <2>3. Carried \subseteq Carried' \cup {msg[w]}
    BY <2>1, <2>2 DEF Carried
  <2>4. Missing' \subseteq Missing \cup {msg[w]}
    BY <1>1, <1>2, <2>2, <2>3
  <2>5. IsFiniteSet(Missing) /\ Cardinality(Missing) \in Nat
    BY GapFinite
  <2>6. /\ IsFiniteSet(Missing \cup {msg[w]})
        /\ Cardinality(Missing \cup {msg[w]}) <= Cardinality(Missing) + 1
        /\ Cardinality(Missing \cup {msg[w]}) \in Nat
    <3>1. /\ IsFiniteSet(Missing \cup {msg[w]})
          /\ Cardinality(Missing \cup {msg[w]}) =
               IF msg[w] \in Missing THEN Cardinality(Missing) ELSE Cardinality(Missing) + 1
      BY <2>5, FS_AddElement
    <3> QED
      BY <2>5, <3>1
  <2>7. Cardinality(Missing') <= Cardinality(Missing) + 1 /\ Cardinality(Missing') \in Nat
    <3>1. /\ Cardinality(Missing') <= Cardinality(Missing \cup {msg[w]})
          /\ Cardinality(Missing') \in Nat
      BY <2>4, <2>6, FS_Subset, FS_CardinalityType
    <3> QED
      BY <2>5, <2>6, <3>1
  <2> DEFINE x == Cardinality(Writers) * crashes
  <2>8. x \in Nat
    <3>1. Cardinality(Writers) \in Nat /\ crashes \in Nat
      BY GapFinite DEF TypeOK
    <3> QED
      BY <3>1
  <2>9. Cardinality(Missing) <= failures + x /\ failures \in Nat
    BY DEF GapsBounded, TypeOK
  <2>10. x' = x
    BY <2>2
  <2> HIDE DEF x
  <2>11. Cardinality(Missing') <= failures' + x'
    BY <2>2, <2>5, <2>7, <2>8, <2>9, <2>10
  <2> QED
    BY <2>11 DEF x, GapsBounded
<1> QED
  BY <1>5, <1>6, <1>7, <1>8, <1>9, <1>10, <1>11 DEF Next

\* With any number of writers, a failing Enqueue costs one message, a crash one for each
\* writer, and nothing else costs any that is newer than what was dropped.
THEOREM GapsBoundedHolds == Spec => []GapsBounded
<1>1. Init => GapsBounded
  <2> SUFFICES ASSUME Init PROVE GapsBounded
    OBVIOUS
  <2>1. TypeOK
    BY TypeInit
  <2>2. Missing = {}
    BY DEF Init, Missing
  <2>3. Cardinality(Missing) = 0
    BY <2>2, FS_EmptySet
  <2>4. Cardinality(Writers) \in Nat
    BY <2>1, GapFinite
  <2> QED
    BY <2>3, <2>4 DEF Init, GapsBounded
<1> QED
  BY <1>1, GapStep, TypeCorrect, PTL DEF Spec
===============================================================================
