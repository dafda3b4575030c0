----------------------------- MODULE MCProvision ------------------------------
(* A small instance of Provision for TLC. *)
EXTENDS Provision
===============================================================================
