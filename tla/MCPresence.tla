------------------------------ MODULE MCPresence ------------------------------
(* Small instances of Presence for TLC: the values are in the .cfg files. *)
EXTENDS Presence
===============================================================================
