----------------------------- MODULE MCTelemetry ------------------------------
(* Small instances of TelemetryStore for TLC. *)
EXTENDS TelemetryStore

November == <<1, 11>>
Value(s, k, v) == [slug |-> s, key |-> k, value |-> v]
TwoPayloads == {<<Value("s1", "k1", 1)>>,
                <<Value("s1", "k1", 2), Value("s1", "k1", 1)>>}
===============================================================================
