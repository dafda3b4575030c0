------------------------------ MODULE MCServices ------------------------------
(* Instances of Services for TLC. *)
EXTENDS Services
===============================================================================
