------------------------------ MODULE MCActuator ------------------------------
(* Small instances of Actuator for TLC. *)
EXTENDS Actuator

Request(id, gw, exp, ch, act, ack) ==
    [command_id |-> id, gateway_id |-> gw, expires_at |-> exp,
     actuator_channel_id |-> ch, action |-> act, require_ack |-> ack]

\* One relay, an ON that expires and is acknowledged, an OFF, and one request for
\* every check of execute().
OneChannel == {"vent"}
OnePin == {17}
OneChannelPin == [c \in OneChannel |-> 17]
CheckedRequests ==
    {Request("on", "own", "set", "vent", "ON", TRUE),
     Request("off", "empty", "empty", "vent", "OFF", FALSE),
     Request("", "own", "set", "vent", "ON", TRUE),
     Request("gw", "other", "set", "vent", "ON", TRUE),
     Request("exp", "own", "unparsable", "vent", "ON", TRUE),
     Request("chan", "own", "empty", "nowhere", "ON", TRUE),
     Request("act", "own", "empty", "vent", "invalid", FALSE)}

\* Three relays, on by default, two of them configured on the same pin.
TwoPins == {17, 27}
ThreeChannels == {"vent", "spray", "lamp"}
SharedPins == [c \in ThreeChannels |-> IF c = "lamp" THEN 27 ELSE 17]
===============================================================================
