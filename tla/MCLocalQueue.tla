----------------------------- MODULE MCLocalQueue -----------------------------
(* Small instances of LocalQueue for TLC. *)
EXTENDS LocalQueue, TLC

\* The writers are interchangeable.
WriterSymmetry == Permutations(Writers)
===============================================================================
