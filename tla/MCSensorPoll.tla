----------------------------- MODULE MCSensorPoll -----------------------------
(* A small bus for TLC: one slave with two registers, one with one register,  *)
(* each polled by a channel of its own, as in deploy/sample-config.yaml.      *)
EXTENDS SensorPoll

CONSTANTS th, co2   \* the two channels

MCSlaveOf == [c \in {th, co2} |-> IF c = th THEN 1 ELSE 4]
MCRegsOf  == [c \in {th, co2} |-> IF c = th THEN <<0, 1>> ELSE <<0>>]
===============================================================================
