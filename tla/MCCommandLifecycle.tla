-------------------------- MODULE MCCommandLifecycle --------------------------
(* Small instances of CommandLifecycle for TLC. *)
EXTENDS CommandLifecycle

MCGatewayOf == [c \in Commands |-> "gwA"]
===============================================================================
