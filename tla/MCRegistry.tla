------------------------------ MODULE MCRegistry ------------------------------
(* Small instances of Registry for TLC. *)
EXTENDS Registry, TLC

CapFew == [companies |-> 1, sites |-> 1, gateways |-> 2, sensor_profiles |-> 1,
           sensor_channels |-> 1, actuator_channels |-> 1, commands |-> 1]

\* Users and requests are interchangeable.
Interchangeable == Permutations(Users) \cup Permutations(Clients)
===============================================================================
