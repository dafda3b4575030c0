---------------------------- MODULE LatestRegister ----------------------------
(***************************************************************************)
(* What a dashboard relies on when it reads telemetry_latest: one reading  *)
(* per key, which stays there once it is shown and is only ever replaced   *)
(* by a later one, although messages are repeated and out of order.        *)
(***************************************************************************)
EXTENDS Integers

VARIABLE shown  \* set of readings [key, at, value]

Init == shown = {}

Advance ==
    /\ \A x \in shown : \E y \in shown' : y.key = x.key /\ (y = x \/ x.at < y.at)
    /\ \A x, y \in shown' : x.key = y.key => x = y

Spec == Init /\ [][Advance]_shown
===============================================================================
