------------------------------- MODULE Actuator -------------------------------
(***************************************************************************)
(* The actuator manager of the gateway agent                               *)
(* (gateway/internal/actuator/actuator.go) inside the life of its process  *)
(* (gateway/cmd/gateway-agent/main.go).                                    *)
(*                                                                         *)
(* Concurrent actors:                                                      *)
(*   - main: boots, waits for a signal, then runs its deferred calls;      *)
(*   - Handlers: the goroutines in which paho runs handleCommand.  The     *)
(*     client is built with SetOrderMatters(false), so several run at      *)
(*     once, and Disconnect does not wait for them;                        *)
(*   - timer callbacks, one goroutine per expired time.AfterFunc.          *)
(*                                                                         *)
(* execute() writes the pin BEFORE it takes m.mu and records the value and *)
(* the timer under m.mu afterwards: two steps here, GpioStep and           *)
(* RecordStep.  The same holds of the callback.  assertAllOff does both    *)
(* under m.mu and is one step.                                             *)
(***************************************************************************)
EXTENDS HalGpio

CONSTANTS Channels,       \* the enabled actuator channels of the configuration
          PinOf,          \* [Channels -> Pins]: gpio_pin
          DefaultOn,      \* channels whose default_state is "on"
          HasMaxOn,       \* channels whose max_on_duration_sec is positive
          Handlers,       \* goroutines that may run handleCommand at once
          Requests,       \* the command requests the broker may deliver
          Simulation,     \* simulation.enabled: no GPIO call is made
          MaxDeliveries   \* bound: messages delivered in one behaviour

CommandIds == {r.command_id : r \in Requests}

ASSUME ActuatorAssumption ==
    /\ PinOf \in [Channels -> Pins]
    /\ DefaultOn \subseteq Channels
    /\ HasMaxOn \subseteq Channels
    /\ Simulation \in BOOLEAN
    /\ MaxDeliveries \in Nat
    /\ \A r \in Requests :
          /\ r.gateway_id \in {"own", "other", "empty"}
          /\ r.expires_at \in {"empty", "set", "unparsable"}
          /\ r.action \in {"ON", "OFF", "invalid"}
          /\ r.require_ack \in BOOLEAN

VARIABLES
    phase,         \* how far main has come
    channels,      \* keys of m.channels: the channels whose pin is reserved
    subscribed,    \* "no", "yes" or "failed": the Subscribe of Run
    currentValue,  \* [Channels -> {0, 1}]
    maxOnTimer,    \* [Channels -> BOOLEAN]: a timer that has not fired is pending
    pc,            \* [Handlers -> Pcs]: where handleCommand is
    req,           \* [Handlers -> Requests \cup {NoReq}]: its request
    firing,        \* [Channels -> Nat]: callbacks about to write the pin
    fired,         \* [Channels -> Nat]: callbacks about to record the value
    delivered,     \* messages delivered so far
    expired        \* ids whose expires_at lies in the past
\* History, read by no action of the code: what the properties speak about.
VARIABLES
    commanded,     \* channels whose pin a command has written
    gaveUp,        \* channels on which a write of 0 failed and is not retried
    raced,         \* channels written by one handler while another was recording
    late,          \* channels raised after the last assert_safe_state
    executions,    \* [CommandIds -> Nat]: times a command took effect
    responses      \* [id, status] of the responses that were published

mgrVars  == <<channels, currentValue, maxOnTimer>>
histVars == <<commanded, gaveUp, raced, late, executions, responses>>
vars == <<halVars, phase, subscribed, mgrVars, pc, req, firing, fired,
          delivered, expired, histVars>>

NoReq == [command_id |-> "none"]

\* The order in which main passes through its phases.
Phases == {"start", "booting", "running", "cancelled", "stopped",
           "disconnected", "asserted", "cleaning", "cleaned", "exited"}

\* The last three: the response is ready and about to be published.
Pcs == {"idle", "gpio", "record", "executed", "failed", "rejected"}

Value(r) == IF r.action = "ON" THEN 1 ELSE 0

Recording(h, c) == pc[h] = "record" /\ req[h].actuator_channel_id = c
-------------------------------------------------------------------------------
Init ==
    /\ HalInit
    /\ phase = "start"
    /\ subscribed = "no"
    /\ channels = {}
    /\ currentValue = [c \in Channels |-> 0]
    /\ maxOnTimer = [c \in Channels |-> FALSE]
    /\ pc = [h \in Handlers |-> "idle"]
    /\ req = [h \in Handlers |-> NoReq]
    /\ firing = [c \in Channels |-> 0]
    /\ fired = [c \in Channels |-> 0]
    /\ delivered = 0
    /\ expired = {}
    /\ commanded = {}
    /\ gaveUp = {}
    /\ raced = {}
    /\ late = {}
    /\ executions = [i \in CommandIds |-> 0]
    /\ responses = {}

\* hal.GPIOSet unless the manager simulates.
SetPin(c, v, rc) ==
    IF Simulation THEN rc = "OK" /\ UNCHANGED halVars
                  ELSE gw_gpio_set(PinOf[c], v, rc)

SetResults == {"OK", "NOT_INIT", "INVALID", "IO"}
-------------------------------------------------------------------------------
(* main, from hal.Init to the start of the goroutines *)

HalInitStep ==
    /\ phase = "start"
    /\ \E rc \in {"OK", "PERM"} :
         /\ gw_gpio_init(rc)
         /\ phase' = IF rc = "OK" THEN "booting" ELSE "exited"
    /\ UNCHANGED <<subscribed, mgrVars, pc, req, firing, fired, delivered,
                   expired, histVars>>

\* One turn of NewManager's loop, in any order of the configuration.  An
\* error makes run() return: its deferred calls follow.
ReserveChannel(c) ==
    /\ phase = "booting"
    /\ c \notin channels
    /\ LET initial == IF c \in DefaultOn THEN 1 ELSE 0 IN
       \E rc \in {"OK", "NOT_INIT", "INVALID", "BUSY", "IO"} :
         /\ IF Simulation THEN rc = "OK" /\ UNCHANGED halVars
            ELSE gw_gpio_request_output(PinOf[c], initial, rc)
         /\ IF rc = "OK"
            THEN /\ channels' = channels \cup {c}
                 /\ currentValue' = [currentValue EXCEPT ![c] = initial]
                 /\ UNCHANGED phase
            ELSE /\ phase' = "stopped"
                 /\ UNCHANGED <<channels, currentValue>>
    /\ UNCHANGED <<subscribed, maxOnTimer, pc, req, firing, fired, delivered,
                   expired, histVars>>

\* The local database, the MQTT client or the sensor manager fails to start.
BootFails ==
    /\ phase = "booting"
    /\ channels = {}
    /\ phase' = "stopped"
    /\ UNCHANGED <<halVars, subscribed, mgrVars, pc, req, firing, fired,
                   delivered, expired, histVars>>

StartGoroutines ==
    /\ phase = "booting"
    /\ channels = Channels
    /\ phase' = "running"
    /\ UNCHANGED <<halVars, subscribed, mgrVars, pc, req, firing, fired,
                   delivered, expired, histVars>>

\* Run's only Subscribe; a failure is logged and not retried.
Subscribe ==
    /\ phase \in {"running", "cancelled"}
    /\ subscribed = "no"
    /\ subscribed' \in {"yes", "failed"}
    /\ UNCHANGED <<halVars, phase, mgrVars, pc, req, firing, fired, delivered,
                   expired, histVars>>
-------------------------------------------------------------------------------
(* handleCommand *)

\* The checks of execute() that reject; the first that holds names the
\* reason, the effect is the same for all.
Rejects(r) ==
    \/ r.command_id = ""
    \/ r.gateway_id = "other"
    \/ r.expires_at = "unparsable"
    \/ r.expires_at = "set" /\ r.command_id \in expired
    \/ r.actuator_channel_id \notin channels
    \/ r.action = "invalid"

\* A message arrives and is checked.  QoS 1 may deliver the same request
\* again, at any later time.
Receive(h, r) ==
    /\ subscribed = "yes"
    /\ phase \in {"running", "cancelled", "stopped"}
    /\ delivered < MaxDeliveries
    /\ pc[h] = "idle"
    /\ delivered' = delivered + 1
    /\ pc' = [pc EXCEPT ![h] = IF Rejects(r) THEN "rejected" ELSE "gpio"]
    /\ req' = [req EXCEPT ![h] = r]
    /\ UNCHANGED <<halVars, phase, subscribed, mgrVars, firing, fired, expired,
                   histVars>>

\* Mutant of AfterSet: the error of GPIOSet is dropped.
AfterSetIgnoring(rc) == "record"

\* "failed" is the early return of execute() when GPIOSet returns an error.
AfterSet(rc) == IF rc = "OK" THEN "record" ELSE "failed"

\* hal.GPIOSet, outside m.mu.
GpioStep(h) ==
    LET r == req[h]
        c == r.actuator_channel_id IN
    /\ pc[h] = "gpio"
    /\ phase # "exited"
    /\ \E rc \in SetResults :
         /\ SetPin(c, Value(r), rc)
         /\ pc' = [pc EXCEPT ![h] = AfterSet(rc)]
         /\ IF rc = "OK"
            THEN /\ executions' = [executions EXCEPT ![r.command_id] = @ + 1]
                 /\ commanded' = commanded \cup {c}
                 /\ raced' = IF \E g \in Handlers \ {h} : Recording(g, c)
                             THEN raced \cup {c} ELSE raced
                 /\ late' = IF Value(r) = 1 /\ phase = "cleaning"
                            THEN late \cup {c} ELSE late
            ELSE UNCHANGED <<executions, commanded, raced, late>>
    /\ UNCHANGED <<phase, subscribed, mgrVars, req, firing, fired, delivered,
                   expired, gaveUp, responses>>

\* Mutant of ArmsTimer: the old timer is stopped after the new one is stored.
ArmsTimerThenStops(c, v) == v = 1 /\ c \in HasMaxOn /\ ~maxOnTimer[c]

\* Whether a command that writes v leaves a pending timer behind.
ArmsTimer(c, v) == v = 1 /\ c \in HasMaxOn

\* The section under m.mu: the value, the old timer stopped, a new one for ON.
RecordStep(h) ==
    LET r == req[h]
        c == r.actuator_channel_id IN
    /\ pc[h] = "record"
    /\ phase # "exited"
    /\ currentValue' = [currentValue EXCEPT ![c] = Value(r)]
    /\ maxOnTimer' = [maxOnTimer EXCEPT ![c] = ArmsTimer(c, Value(r))]
    /\ pc' = [pc EXCEPT ![h] = "executed"]
    /\ UNCHANGED <<halVars, phase, subscribed, channels, req, firing, fired,
                   delivered, expired, histVars>>

\* The response is published if an ack is wanted; a failure is only logged.
Respond(h) ==
    /\ pc[h] \in {"executed", "failed", "rejected"}
    /\ phase # "exited"
    /\ \/ /\ req[h].require_ack
          /\ responses' = responses \cup
                 {[command_id |-> req[h].command_id, status |-> pc[h]]}
       \/ UNCHANGED responses
    /\ pc' = [pc EXCEPT ![h] = "idle"]
    /\ req' = [req EXCEPT ![h] = NoReq]
    /\ UNCHANGED <<halVars, phase, subscribed, mgrVars, firing, fired,
                   delivered, expired, commanded, gaveUp, raced, late,
                   executions>>

\* The gateway's clock passes the expires_at of a command.
Expire(i) ==
    /\ i \notin expired
    /\ \E r \in Requests : r.command_id = i /\ r.expires_at = "set"
    /\ expired' = expired \cup {i}
    /\ UNCHANGED <<halVars, phase, subscribed, mgrVars, pc, req, firing, fired,
                   delivered, histVars>>
-------------------------------------------------------------------------------
(* the max_on timer *)

TimerFires(c) ==
    /\ phase # "exited"
    /\ maxOnTimer[c]
    /\ maxOnTimer' = [maxOnTimer EXCEPT ![c] = FALSE]
    /\ firing' = [firing EXCEPT ![c] = @ + 1]
    /\ UNCHANGED <<halVars, phase, subscribed, channels, currentValue, pc, req,
                   fired, delivered, expired, histVars>>

\* The callback lowers the pin, outside m.mu; on an error it returns.
CallbackGpio(c) ==
    /\ phase # "exited"
    /\ firing[c] > 0
    /\ firing' = [firing EXCEPT ![c] = @ - 1]
    /\ \E rc \in SetResults :
         /\ SetPin(c, 0, rc)
         /\ IF rc = "OK"
            THEN /\ fired' = [fired EXCEPT ![c] = @ + 1]
                 /\ UNCHANGED gaveUp
            ELSE /\ gaveUp' = gaveUp \cup {c}
                 /\ UNCHANGED fired
    /\ UNCHANGED <<phase, subscribed, mgrVars, pc, req, delivered, expired,
                   commanded, raced, late, executions, responses>>

CallbackRecord(c) ==
    /\ phase # "exited"
    /\ fired[c] > 0
    /\ fired' = [fired EXCEPT ![c] = @ - 1]
    /\ currentValue' = [currentValue EXCEPT ![c] = 0]
    /\ UNCHANGED <<halVars, phase, subscribed, channels, maxOnTimer, pc, req,
                   firing, delivered, expired, histVars>>
-------------------------------------------------------------------------------
(* shutdown *)

\* SIGTERM or SIGINT: main cancels the context and waits for the goroutines.
Signal ==
    /\ phase = "running"
    /\ phase' = "cancelled"
    /\ UNCHANGED <<halVars, subscribed, mgrVars, pc, req, firing, fired,
                   delivered, expired, histVars>>

\* The pins that assertAllOff drives low when the writes on F are refused.
Lowered(F) == {PinOf[c] : c \in channels \ F}

\* Run returns: assertAllOff, with the write on the channels of F refused.
\* The timers are stopped whether or not the write succeeds.
AssertAllOff ==
    /\ phase = "cancelled"
    /\ subscribed # "no"
    /\ phase' = "stopped"
    /\ maxOnTimer' = [c \in Channels |-> FALSE]
    /\ currentValue' = [c \in Channels |-> 0]
    /\ \E F \in SUBSET channels :
         IF Simulation THEN F = {} /\ UNCHANGED <<halVars, gaveUp>>
         ELSE /\ level' = [p \in Pins |->
                             IF p \in Lowered(F) THEN 0 ELSE level[p]]
              /\ gaveUp' = gaveUp \cup F
              /\ UNCHANGED <<g_gpio_initialized, mode>>
    /\ UNCHANGED <<subscribed, channels, pc, req, firing, fired, delivered,
                   expired, commanded, raced, late, executions, responses>>

\* The deferred mqClient.Disconnect: no handler starts any more, the running
\* ones go on.
Disconnect ==
    /\ phase = "stopped"
    /\ phase' = "disconnected"
    /\ UNCHANGED <<halVars, subscribed, mgrVars, pc, req, firing, fired,
                   delivered, expired, histVars>>

\* assert_safe_state with the writes on the pins of F refused.
SafeState(from, to) ==
    /\ phase = from
    /\ phase' = to
    /\ \E F \in SUBSET Pins :
         /\ gw_gpio_assert_safe_state(F)
         /\ gaveUp' = gaveUp \cup {c \in channels : PinOf[c] \in F}
    /\ UNCHANGED <<subscribed, mgrVars, pc, req, firing, fired, delivered,
                   expired, commanded, raced, late, executions, responses>>

\* hal.AssertSafeState, deferred by run().
DeferredSafeState == SafeState("disconnected", "asserted")

\* Mutant of CleanupSafeState: gw_hal_cleanup only releases the lines.
CleanupWithoutSafeState ==
    /\ phase = "asserted"
    /\ phase' = "cleaning"
    /\ UNCHANGED <<halVars, subscribed, mgrVars, pc, req, firing, fired,
                   delivered, expired, histVars>>

\* gw_hal_cleanup: assert_safe_state, then, in a second critical section,
\* gw_gpio_cleanup.
CleanupSafeState == SafeState("asserted", "cleaning")

CleanupGpio ==
    /\ phase = "cleaning"
    /\ phase' = "cleaned"
    /\ gw_gpio_cleanup
    /\ UNCHANGED <<subscribed, mgrVars, pc, req, firing, fired, delivered,
                   expired, histVars>>

\* run() and then main return; every goroutine ends with the process.
Exit ==
    /\ phase = "cleaned"
    /\ phase' = "exited"
    /\ UNCHANGED <<halVars, subscribed, mgrVars, pc, req, firing, fired,
                   delivered, expired, histVars>>
-------------------------------------------------------------------------------
HandlerStep(h) == GpioStep(h) \/ RecordStep(h) \/ Respond(h)

Callback(c) == CallbackGpio(c) \/ CallbackRecord(c)

Next ==
    \/ HalInitStep \/ BootFails \/ StartGoroutines \/ Subscribe \/ Signal
    \/ AssertAllOff \/ Disconnect \/ DeferredSafeState
    \/ CleanupSafeState \/ CleanupGpio \/ Exit
    \/ \E c \in Channels : ReserveChannel(c) \/ TimerFires(c)
                             \/ CallbackGpio(c) \/ CallbackRecord(c)
    \/ \E h \in Handlers : \/ \E r \in Requests : Receive(h, r)
                           \/ GpioStep(h) \/ RecordStep(h) \/ Respond(h)
    \/ \E i \in CommandIds : Expire(i)

\* Goroutines that can run are run, and a timer that is pending fires.
Fairness ==
    /\ \A h \in Handlers : WF_vars(HandlerStep(h))
    /\ \A c \in Channels : WF_vars(TimerFires(c)) /\ WF_vars(Callback(c))

Spec == Init /\ [][Next]_vars

FairSpec == Spec /\ Fairness
-------------------------------------------------------------------------------
(* Properties *)

\* Type invariant: every variable keeps its type; in particular a handler that
\* is past the checks of execute() works on a channel that NewManager
\* registered.
TypeOK ==
    /\ HalTypeOK
    /\ phase \in Phases
    /\ subscribed \in {"no", "yes", "failed"}
    /\ channels \subseteq Channels
    /\ currentValue \in [Channels -> {0, 1}]
    /\ maxOnTimer \in [Channels -> BOOLEAN]
    /\ pc \in [Handlers -> Pcs]
    /\ req \in [Handlers -> Requests \cup {NoReq}]
    /\ \A h \in Handlers :
          /\ pc[h] # "idle" => req[h] \in Requests
          /\ pc[h] \in {"gpio", "record"} =>
                req[h].actuator_channel_id \in channels
    /\ firing \in [Channels -> Nat]
    /\ fired \in [Channels -> Nat]
    /\ delivered \in 0..MaxDeliveries
    /\ expired \subseteq CommandIds
    /\ commanded \subseteq Channels
    /\ gaveUp \subseteq Channels
    /\ raced \subseteq Channels
    /\ late \subseteq Channels
    /\ executions \in [CommandIds -> Nat]
    /\ responses \subseteq [command_id : CommandIds,
                            status : {"executed", "failed", "rejected"}]

\* Something will lower the pin of c: a pending timer, a callback that has
\* started, or a handler that is about to arm the timer.
Timed(c) ==
    \/ maxOnTimer[c]
    \/ firing[c] > 0
    \/ \E h \in Handlers : Recording(h, c) /\ Value(req[h]) = 1

\* A relay that a command switched on, on a channel with a positive
\* max_on_duration_sec, is always about to be switched off again.  The two
\* exceptions are the ones the code has: a write of 0 that the kernel refused
\* (nobody tries again), and two handlers that overlapped between the GPIOSet
\* of execute() and its section under m.mu.
PinOnIsTimed ==
    \A c \in channels \cap HasMaxOn :
        level[PinOf[c]] = 1 /\ c \in commanded
            => Timed(c) \/ c \in gaveUp \/ c \in raced

\* "shutdown: all actuators OFF": once the lines are released a relay is on
\* only if a write of 0 was refused or a handler that was still running raised
\* it between the two halves of gw_hal_cleanup.
ExitHotOnlyLate ==
    phase \in {"cleaned", "exited"} =>
        \A c \in channels : level[PinOf[c]] = 1 => c \in gaveUp \cup late

\* Once gw_gpio_cleanup has run, no handler and no timer callback that is still
\* in flight can move a relay.
ReleasedPinsFrozen ==
    [][(phase \in {"cleaned", "exited"}) => UNCHANGED level]_vars

\* A response "executed" is published only for a command whose pin write
\* succeeded.
ExecutedResponseIsReal ==
    \A x \in responses : x.status = "executed" => executions[x.command_id] > 0

\* The value and the timer that m.mu protects never disagree, however many
\* handlers run: a channel recorded as on by a command has a pending timer or a
\* callback on its way, unless the callback's write was refused.
RecordedOnIsTimed ==
    \A c \in HasMaxOn \ DefaultOn :
        currentValue[c] = 1 => \/ maxOnTimer[c]
                               \/ firing[c] + fired[c] > 0
                               \/ c \in gaveUp

\* Two channels configured on one pin are never both registered: the second
\* RequestOutput is refused and the agent does not start.
PinsExclusive ==
    \A c, d \in channels : ~Simulation /\ PinOf[c] = PinOf[d] => c = d

-------------------------------------------------------------------------------
(* The inductive invariant behind PinOnIsTimed and ExitHotOnlyLate. *)

\* The pin of a registered channel is an output until gw_gpio_cleanup, and only
\* registered channels are ever written.
PinsReserved ==
    /\ commanded \subseteq channels
    /\ phase = "start" => channels = {}
    /\ phase \in {"start", "cleaned", "exited"} => ~g_gpio_initialized
    /\ ~Simulation /\ phase \notin {"cleaned", "exited"} =>
          \A c \in channels : mode[PinOf[c]] = "output"
    /\ Simulation => \A p \in Pins : level[p] = 0

\* Between GPIOSet and m.mu a handler has the channel to itself, and an OFF
\* that is not recorded yet has left the pin low, unless a race was noted.
RecordersAlone ==
    \A c \in channels \ raced :
        /\ \A g, h \in Handlers : Recording(g, c) /\ Recording(h, c) => g = h
        /\ \A h \in Handlers : Recording(h, c) /\ Value(req[h]) = 0
                               => level[PinOf[c]] = 0

\* From the last assert_safe_state on, a high pin is accounted for.
HotIsLate ==
    phase \in {"cleaning", "cleaned", "exited"} =>
        \A c \in channels : level[PinOf[c]] = 1 => c \in gaveUp \cup late

\* Why a commanded relay is timed and exits low: the pins of the channels are
\* distinct reserved outputs, unrecorded writes do not overlap unnoticed, and
\* what is high at the end was raised late.
IInv ==
    /\ TypeOK
    /\ PinsReserved
    /\ PinsExclusive
    /\ RecordersAlone
    /\ PinOnIsTimed
    /\ HotIsLate
-------------------------------------------------------------------------------
(* Liveness, and what the comments of the code promise. *)

\* max_on_duration_sec: a relay that a command switched on is eventually
\* switched off (or the process ends, or the write of 0 was refused), unless two
\* handlers raced on its channel.
AutoOffUnlessRaced ==
    \A c \in HasMaxOn :
        c \in commanded /\ level[PinOf[c]] = 1
            ~> \/ level[PinOf[c]] = 0
               \/ c \in gaveUp \cup raced
               \/ phase = "exited"
===============================================================================
