--------------------------- MODULE Actuator_proofs ---------------------------
(***************************************************************************)
(* Safety of the actuator manager, for every set of channels, pins,        *)
(* handlers and requests.                                                  *)
(***************************************************************************)
EXTENDS Actuator, TLAPS

(* A step of one action leaves most variables alone; these names keep the *)
(* proofs short.                                                           *)
USE DEF halVars, mgrVars, histVars

\* The part of the assumption on the constants that the steps need.
LEMMA ConstTypes ==
    /\ PinOf \in [Channels -> Pins]
    /\ DefaultOn \subseteq Channels
    /\ HasMaxOn \subseteq Channels
    /\ Simulation \in BOOLEAN
    /\ MaxDeliveries \in Nat
  BY ActuatorAssumption

\* The initial state has the types that TypeOK gives.
LEMMA TypeInit == Init => TypeOK
<1> SUFFICES ASSUME Init PROVE TypeOK
  OBVIOUS
<1>1. HalTypeOK
  BY DEF Init, HalInit, HalTypeOK, Modes
<1>2. delivered \in 0..MaxDeliveries
  BY ConstTypes DEF Init
<1>3. /\ pc \in [Handlers -> Pcs]
      /\ req \in [Handlers -> Requests \cup {NoReq}]
      /\ \A h \in Handlers : pc[h] = "idle"
  BY DEF Init, Pcs
<1> QED
  BY <1>1, <1>2, <1>3 DEF Init, TypeOK, Phases

\* Every step of the agent keeps the types.
LEMMA TypeStep == TypeOK /\ [Next]_vars => TypeOK'
<1> SUFFICES ASSUME TypeOK, [Next]_vars PROVE TypeOK'
  OBVIOUS
<1> USE ConstTypes
<1>1. CASE UNCHANGED vars
  BY <1>1 DEF vars, TypeOK, HalTypeOK
<1>2. CASE HalInitStep
  BY <1>2 DEF HalInitStep, gw_gpio_init, TypeOK, HalTypeOK, Phases, Modes
<1>3. CASE BootFails \/ StartGoroutines \/ Subscribe \/ Signal \/ Disconnect \/ Exit
  BY <1>3 DEF BootFails, StartGoroutines, Subscribe, Signal, Disconnect,
     Exit, TypeOK, HalTypeOK, Phases
<1>4. CASE AssertAllOff
  BY <1>4 DEF AssertAllOff, Lowered, TypeOK, HalTypeOK, Phases
<1>5. CASE DeferredSafeState \/ CleanupSafeState
  BY <1>5 DEF DeferredSafeState, CleanupSafeState, SafeState,
     gw_gpio_assert_safe_state, TypeOK, HalTypeOK, Phases
<1>6. CASE CleanupGpio
  BY <1>6 DEF CleanupGpio, gw_gpio_cleanup, TypeOK, HalTypeOK, Phases, Modes
<1>7. ASSUME NEW c \in Channels, ReserveChannel(c) PROVE TypeOK'
  BY <1>7 DEF ReserveChannel, gw_gpio_request_output, RequestError, Allocatable,
     TypeOK, HalTypeOK, Phases, Modes
<1>8. ASSUME NEW c \in Channels, TimerFires(c) PROVE TypeOK'
  BY <1>8 DEF TimerFires, TypeOK, HalTypeOK
<1>9. ASSUME NEW c \in Channels, CallbackGpio(c) PROVE TypeOK'
  BY <1>9 DEF CallbackGpio, SetPin, gw_gpio_set, TypeOK, HalTypeOK
<1>10. ASSUME NEW c \in Channels, CallbackRecord(c) PROVE TypeOK'
  BY <1>10 DEF CallbackRecord, TypeOK, HalTypeOK
<1>11. ASSUME NEW h \in Handlers, NEW r \in Requests, Receive(h, r)
       PROVE  TypeOK'
  <2>1. delivered' \in 0..MaxDeliveries
    BY <1>11 DEF Receive, TypeOK
  <2>2. /\ pc' \in [Handlers -> Pcs]
        /\ req' \in [Handlers -> Requests \cup {NoReq}]
        /\ \A g \in Handlers :
              /\ pc'[g] # "idle" => req'[g] \in Requests
              /\ pc'[g] \in {"gpio", "record"} =>
                    req'[g].actuator_channel_id \in channels
    BY <1>11 DEF Receive, Rejects, TypeOK, Pcs
  <2> QED
    BY <1>11, <2>1, <2>2 DEF Receive, TypeOK, HalTypeOK
<1>12. ASSUME NEW h \in Handlers, GpioStep(h) PROVE TypeOK'
  BY <1>12 DEF GpioStep, AfterSet, SetPin, gw_gpio_set, Value, TypeOK, HalTypeOK, Pcs
<1>13. ASSUME NEW h \in Handlers, RecordStep(h) PROVE TypeOK'
  BY <1>13 DEF RecordStep, ArmsTimer, Value, TypeOK, HalTypeOK, Pcs
<1>14. ASSUME NEW h \in Handlers, Respond(h) PROVE TypeOK'
  BY <1>14 DEF Respond, TypeOK, HalTypeOK, Pcs, CommandIds
<1>15. ASSUME NEW i \in CommandIds, Expire(i) PROVE TypeOK'
  BY <1>15 DEF Expire, TypeOK, HalTypeOK
<1> QED
  BY <1>1, <1>2, <1>3, <1>4, <1>5, <1>6, <1>7, <1>8, <1>9, <1>10, <1>11,
     <1>12, <1>13, <1>14, <1>15 DEF Next

\* The type invariant holds in every state of every behaviour of the agent.
THEOREM TypeCorrect == Spec => []TypeOK
  BY TypeInit, TypeStep, PTL DEF Spec
-------------------------------------------------------------------------------
(* IInv is TypeOK and the five conjuncts of Parts. *)

Parts == PinsReserved /\ PinsExclusive /\ RecordersAlone /\ PinOnIsTimed
           /\ HotIsLate

\* No channel is registered and no pin is high at the start.
LEMMA IInvInit == Init => IInv
  BY TypeInit, ConstTypes
  DEF IInv, Init, HalInit, PinsReserved, PinsExclusive, RecordersAlone,
      PinOnIsTimed, HotIsLate

\* Steps of main that touch neither a pin nor a timer.
LEMMA MainSteps ==
    ASSUME IInv,
           \/ UNCHANGED vars \/ HalInitStep \/ BootFails \/ StartGoroutines
           \/ Subscribe \/ Signal \/ Disconnect \/ Exit
    PROVE  Parts'
<1> USE DEF IInv, TypeOK, HalTypeOK, Parts
<1>1. CASE UNCHANGED vars
  BY <1>1 DEF vars, PinsReserved, PinsExclusive, RecordersAlone, PinOnIsTimed,
     HotIsLate, Recording, Timed, Value
<1>2. CASE HalInitStep
  BY <1>2 DEF HalInitStep, gw_gpio_init, PinsReserved, PinsExclusive,
     RecordersAlone, PinOnIsTimed, HotIsLate, Recording, Timed, Value
<1>3. CASE BootFails \/ StartGoroutines \/ Subscribe \/ Signal \/ Disconnect
             \/ Exit
  BY <1>3 DEF BootFails, StartGoroutines, Subscribe, Signal, Disconnect, Exit,
     PinsReserved, PinsExclusive, RecordersAlone, PinOnIsTimed, HotIsLate,
     Recording, Timed, Value
<1> QED
  BY <1>1, <1>2, <1>3

\* NewManager registers a channel: its pin was free, so it is no other
\* channel's pin.
LEMMA ReserveStep ==
    ASSUME IInv, NEW c \in Channels, ReserveChannel(c)
    PROVE  Parts'
<1> USE ConstTypes DEF IInv, TypeOK, HalTypeOK, Parts
<1>1. /\ \A d \in channels : level'[PinOf[d]] = level[PinOf[d]]
      /\ channels \subseteq channels' /\ channels' \subseteq channels \cup {c}
      /\ phase = "booting" /\ phase' \in {"booting", "stopped"}
  BY DEF ReserveChannel, gw_gpio_request_output, RequestError, Allocatable, PinsReserved
<1>2. PinsReserved'
  BY <1>1 DEF ReserveChannel, gw_gpio_request_output, RequestError, Allocatable, PinsReserved
<1>3. PinsExclusive'
  BY <1>1 DEF ReserveChannel, gw_gpio_request_output, RequestError, Allocatable,
     PinsReserved, PinsExclusive
<1>4. RecordersAlone'
  BY <1>1 DEF ReserveChannel, RecordersAlone, Recording, Value
<1>5. PinOnIsTimed'
  BY <1>1 DEF ReserveChannel, PinOnIsTimed, PinsReserved, Recording, Timed, Value
<1>6. HotIsLate'
  BY <1>1 DEF HotIsLate
<1> QED
  BY <1>2, <1>3, <1>4, <1>5, <1>6

\* A message is received or answered, or a command expires: no handler enters
\* or leaves its recording section.
LEMMA MessageSteps ==
    ASSUME IInv,
           \/ \E h \in Handlers, r \in Requests : Receive(h, r)
           \/ \E h \in Handlers : Respond(h)
           \/ \E i \in CommandIds : Expire(i)
    PROVE  Parts'
<1> USE DEF IInv, TypeOK, HalTypeOK, Parts
<1>1. UNCHANGED <<level, mode, g_gpio_initialized, phase, channels, maxOnTimer,
                  firing, commanded, gaveUp, raced, late>>
  BY DEF Receive, Respond, Expire
<1>2. \A g \in Handlers : /\ (pc[g] = "record") <=> (pc'[g] = "record")
                          /\ pc[g] = "record" => req'[g] = req[g]
  BY DEF Receive, Respond, Expire
<1> QED
  BY <1>1, <1>2 DEF PinsReserved, PinsExclusive, RecordersAlone, PinOnIsTimed,
     HotIsLate, Recording, Timed, Value

\* A handler writes its pin.  Writing a channel on which another handler is
\* recording is a race and noted as one.
LEMMA GpioStepKeeps ==
    ASSUME IInv, NEW h \in Handlers, GpioStep(h)
    PROVE  Parts'
<1> USE ConstTypes DEF IInv, TypeOK, HalTypeOK, Parts
<1> DEFINE r == req[h]
           c == r.actuator_channel_id
<1>1. /\ c \in channels /\ c \in Channels
      /\ pc[h] = "gpio"
      /\ UNCHANGED <<mode, g_gpio_initialized, phase, channels, maxOnTimer,
                     req, firing, gaveUp>>
      /\ \A g \in Handlers \ {h} : pc'[g] = pc[g]
      /\ commanded \subseteq commanded' /\ raced \subseteq raced'
      /\ commanded' \subseteq commanded \cup {c}
      /\ late \subseteq late'
  BY DEF GpioStep, AfterSet, SetPin, gw_gpio_set
<1>2. \A d \in channels \ {c} : level'[PinOf[d]] = level[PinOf[d]]
  BY <1>1 DEF GpioStep, AfterSet, SetPin, gw_gpio_set, PinsExclusive
<1>3. CASE pc'[h] = "record"
  <2>1. /\ IF Simulation THEN level' = level ELSE level'[PinOf[c]] = Value(r)
        /\ \A g \in Handlers \ {h} : Recording(g, c) => c \in raced'
        /\ Value(r) = 1 /\ phase = "cleaning" => c \in late'
        /\ ~Simulation => g_gpio_initialized
    BY <1>1, <1>3 DEF GpioStep, AfterSet, SetPin, gw_gpio_set, Value
  <2>2. PinsReserved'
    BY <1>1, <2>1 DEF PinsReserved
  <2>3. PinsExclusive'
    BY <1>1 DEF PinsExclusive
  <2>4. RecordersAlone'
    BY <1>1, <1>2, <2>1 DEF RecordersAlone, Recording, Value, PinsReserved
  <2>5. PinOnIsTimed'
    BY <1>1, <1>2, <1>3, <2>1 DEF PinOnIsTimed, Recording, Timed, Value,
       PinsReserved
  <2>6. HotIsLate'
    BY <1>1, <1>2, <2>1 DEF HotIsLate, PinsReserved, Value
  <2> QED
    BY <2>2, <2>3, <2>4, <2>5, <2>6
<1>4. CASE pc'[h] # "record"
  <2>1. UNCHANGED <<level, commanded, raced, late>>
    BY <1>1, <1>4 DEF GpioStep, AfterSet, SetPin, gw_gpio_set
  <2> QED
    BY <1>1, <1>4, <2>1 DEF PinsReserved, PinsExclusive, RecordersAlone,
       PinOnIsTimed, HotIsLate, Recording, Timed, Value
<1> QED
  BY <1>3, <1>4

\* A handler records: an ON arms the timer; an OFF that nobody raced with
\* stops the timer of a pin that is low.
LEMMA RecordStepKeeps ==
    ASSUME IInv, NEW h \in Handlers, RecordStep(h)
    PROVE  Parts'
<1> USE ConstTypes DEF IInv, TypeOK, HalTypeOK, Parts
<1> DEFINE r == req[h]
           c == r.actuator_channel_id
<1>1. /\ c \in channels /\ c \in Channels
      /\ pc[h] = "record" /\ pc'[h] = "executed"
      /\ UNCHANGED <<level, mode, g_gpio_initialized, phase, channels, req,
                     firing, commanded, gaveUp, raced, late>>
      /\ \A g \in Handlers \ {h} : pc'[g] = pc[g]
      /\ \A d \in Channels \ {c} : maxOnTimer'[d] = maxOnTimer[d]
      /\ Value(r) = 1 /\ c \in HasMaxOn => maxOnTimer'[c]
      /\ Value(r) \in {0, 1}
  BY DEF RecordStep, ArmsTimer, Value
<1>2. PinsReserved' /\ PinsExclusive' /\ HotIsLate'
  BY <1>1 DEF PinsReserved, PinsExclusive, HotIsLate
<1>3. RecordersAlone'
  BY <1>1 DEF RecordersAlone, Recording, Value
<1>4. PinOnIsTimed'
  BY <1>1 DEF PinOnIsTimed, RecordersAlone, Recording, Timed, Value
<1> QED
  BY <1>2, <1>3, <1>4

\* A timer fires or its callback works: the pin goes low, or is given up.
LEMMA TimerSteps ==
    ASSUME IInv, NEW c \in Channels,
           TimerFires(c) \/ CallbackGpio(c) \/ CallbackRecord(c)
    PROVE  Parts'
<1> USE ConstTypes DEF IInv, TypeOK, HalTypeOK, Parts
<1>1. /\ UNCHANGED <<mode, g_gpio_initialized, phase, channels, pc, req,
                     commanded, raced, late>>
      /\ \A p \in Pins : level'[p] = level[p] \/ level'[p] = 0
      /\ gaveUp \subseteq gaveUp'
  BY DEF TimerFires, CallbackGpio, CallbackRecord, SetPin, gw_gpio_set
<1>2. PinsReserved' /\ PinsExclusive' /\ HotIsLate' /\ RecordersAlone'
  BY <1>1 DEF PinsReserved, PinsExclusive, HotIsLate, RecordersAlone,
     Recording, Value
<1>3. CASE TimerFires(c)
  BY <1>2, <1>3 DEF TimerFires, PinOnIsTimed, Recording, Timed, Value
<1>4. CASE CallbackGpio(c)
  BY <1>1, <1>2, <1>4 DEF CallbackGpio, SetPin, gw_gpio_set, PinOnIsTimed,
     PinsReserved, Recording, Timed, Value
<1>5. CASE CallbackRecord(c)
  BY <1>2, <1>5 DEF CallbackRecord, PinOnIsTimed, Recording, Timed, Value
<1> QED
  BY <1>3, <1>4, <1>5

\* Shutdown lowers pins; assertAllOff drops the timers of pins that it lowered
\* or gave up.
LEMMA ShutdownSteps ==
    ASSUME IInv,
           \/ AssertAllOff \/ DeferredSafeState \/ CleanupSafeState
           \/ CleanupGpio
    PROVE  Parts'
<1> USE ConstTypes DEF IInv, TypeOK, HalTypeOK, Parts
<1>1. CASE AssertAllOff
  BY <1>1 DEF AssertAllOff, Lowered, PinsReserved, PinsExclusive, RecordersAlone,
     PinOnIsTimed, HotIsLate, Recording, Timed, Value
<1>2. CASE DeferredSafeState
  BY <1>2 DEF DeferredSafeState, SafeState, gw_gpio_assert_safe_state,
     Outputs, PinsReserved, PinsExclusive, RecordersAlone, PinOnIsTimed,
     HotIsLate, Recording, Timed, Value
<1>3. CASE CleanupSafeState
  BY <1>3 DEF CleanupSafeState, SafeState, gw_gpio_assert_safe_state,
     Outputs, PinsReserved, PinsExclusive, RecordersAlone, PinOnIsTimed,
     HotIsLate, Recording, Timed, Value
<1>4. CASE CleanupGpio
  BY <1>4 DEF CleanupGpio, gw_gpio_cleanup, PinsReserved, PinsExclusive,
     RecordersAlone, PinOnIsTimed, HotIsLate, Recording, Timed, Value
<1> QED
  BY <1>1, <1>2, <1>3, <1>4

\* IInv is inductive.
LEMMA IInvStep == IInv /\ [Next]_vars => IInv'
<1> SUFFICES ASSUME IInv, [Next]_vars PROVE IInv'
  OBVIOUS
<1>1. TypeOK'
  BY TypeStep DEF IInv
<1>2. Parts'
  BY MainSteps, ReserveStep, MessageSteps, GpioStepKeeps, RecordStepKeeps,
     TimerSteps, ShutdownSteps DEF Next
<1> QED
  BY <1>1, <1>2 DEF IInv, Parts

\* The inductive invariant holds throughout.
THEOREM InductiveInvariant == Spec => []IInv
  BY IInvInit, IInvStep, PTL DEF Spec

\* For any number of handlers, channels and commands: a relay that a command
\* switched on is about to be switched off, unless a write of 0 was refused or
\* two handlers overlapped on its channel.
THEOREM PinOnIsTimedHolds == Spec => []PinOnIsTimed
  BY InductiveInvariant, PTL DEF IInv

\* For any number of handlers, channels and commands: what is on after the
\* shutdown was raised inside gw_hal_cleanup or could not be lowered.
THEOREM ExitHotOnlyLateHolds == Spec => []ExitHotOnlyLate
<1>1. IInv => ExitHotOnlyLate
  BY DEF IInv, HotIsLate, ExitHotOnlyLate
<1> QED
  BY <1>1, InductiveInvariant, PTL

\* Two registered channels never share a pin, whatever the configuration says.
THEOREM PinsExclusiveHolds == Spec => []PinsExclusive
  BY InductiveInvariant, PTL DEF IInv

\* Once gw_gpio_cleanup has run no actor that is still in flight moves a relay.
THEOREM ReleasedPinsFrozenHolds == Spec => ReleasedPinsFrozen
<1>1. IInv /\ [Next]_vars =>
        [(phase \in {"cleaned", "exited"}) => UNCHANGED level]_vars
  <2> SUFFICES ASSUME IInv, Next, phase \in {"cleaned", "exited"}
               PROVE  UNCHANGED level
    BY DEF vars
  <2>1. ~g_gpio_initialized
    BY DEF IInv, PinsReserved
  <2>2. ASSUME NEW h \in Handlers,
               \/ \E r \in Requests : Receive(h, r)
               \/ GpioStep(h) \/ RecordStep(h) \/ Respond(h)
        PROVE  UNCHANGED level
    BY <2>1, <2>2 DEF Receive, GpioStep, AfterSet, RecordStep, ArmsTimer, Respond, SetPin, gw_gpio_set
  <2>3. ASSUME NEW c \in Channels,
               \/ ReserveChannel(c) \/ TimerFires(c)
               \/ CallbackGpio(c) \/ CallbackRecord(c)
        PROVE  UNCHANGED level
    BY <2>1, <2>3 DEF ReserveChannel, TimerFires, CallbackGpio, CallbackRecord,
       SetPin, gw_gpio_set
  <2>4. ASSUME NEW i \in CommandIds, Expire(i) PROVE UNCHANGED level
    BY <2>4 DEF Expire
  <2>5. CASE \/ HalInitStep \/ BootFails \/ StartGoroutines \/ Subscribe
             \/ Signal \/ AssertAllOff \/ Disconnect \/ DeferredSafeState
             \/ CleanupSafeState \/ CleanupGpio \/ Exit
    BY <2>5 DEF HalInitStep, BootFails, StartGoroutines, Subscribe, Signal,
       AssertAllOff, Lowered, Disconnect, DeferredSafeState, CleanupSafeState, SafeState,
       CleanupGpio, Exit
  <2> QED
    BY <2>2, <2>3, <2>4, <2>5 DEF Next
<1> QED
  BY <1>1, InductiveInvariant, PTL DEF Spec, ReleasedPinsFrozen

\* The value and the timer under m.mu agree for any number of handlers, with no
\* exception for races.
THEOREM RecordedOnIsTimedHolds == Spec => []RecordedOnIsTimed
<1>1. Init => RecordedOnIsTimed
  BY ConstTypes DEF Init, RecordedOnIsTimed
<1>2. TypeOK /\ RecordedOnIsTimed /\ [Next]_vars => RecordedOnIsTimed'
  <2> SUFFICES ASSUME TypeOK, RecordedOnIsTimed, [Next]_vars
               PROVE  RecordedOnIsTimed'
    OBVIOUS
  <2> USE ConstTypes DEF RecordedOnIsTimed, TypeOK
  <2>1. ASSUME NEW h \in Handlers,
               \/ \E r \in Requests : Receive(h, r)
               \/ GpioStep(h) \/ Respond(h)
        PROVE  RecordedOnIsTimed'
    BY <2>1 DEF Receive, GpioStep, AfterSet, Respond
  <2>2. ASSUME NEW h \in Handlers, RecordStep(h) PROVE RecordedOnIsTimed'
    BY <2>2 DEF RecordStep, ArmsTimer, Value
  <2>3. ASSUME NEW c \in Channels, ReserveChannel(c) PROVE RecordedOnIsTimed'
    BY <2>3 DEF ReserveChannel
  <2>4. ASSUME NEW c \in Channels, TimerFires(c) PROVE RecordedOnIsTimed'
    BY <2>4 DEF TimerFires
  <2>5. ASSUME NEW c \in Channels, CallbackGpio(c) PROVE RecordedOnIsTimed'
    BY <2>5 DEF CallbackGpio
  <2>6. ASSUME NEW c \in Channels, CallbackRecord(c) PROVE RecordedOnIsTimed'
    BY <2>6 DEF CallbackRecord
  <2>7. ASSUME NEW i \in CommandIds, Expire(i) PROVE RecordedOnIsTimed'
    BY <2>7 DEF Expire
  <2>8. CASE \/ UNCHANGED vars \/ HalInitStep \/ BootFails
             \/ StartGoroutines \/ Subscribe \/ Signal \/ Disconnect
             \/ CleanupGpio \/ Exit
    BY <2>8 DEF vars, HalInitStep, BootFails, StartGoroutines, Subscribe,
       Signal, Disconnect, CleanupGpio, Exit
  <2>9. CASE AssertAllOff \/ DeferredSafeState \/ CleanupSafeState
    BY <2>9 DEF AssertAllOff, Lowered, DeferredSafeState, CleanupSafeState, SafeState
  <2> QED
    BY <2>1, <2>2, <2>3, <2>4, <2>5, <2>6, <2>7, <2>8, <2>9 DEF Next
<1> QED
  BY <1>1, <1>2, TypeCorrect, PTL DEF Spec

\* What makes ExecutedResponseIsReal inductive: a handler past its GPIOSet has
\* counted the execution that its response will report.
ResponseBacked ==
    /\ ExecutedResponseIsReal
    /\ \A h \in Handlers : pc[h] \in {"record", "executed"} =>
          executions[req[h].command_id] > 0

\* A step that leaves the handlers and the history of executions alone keeps
\* ResponseBacked.
LEMMA BackedKept ==
    ASSUME ResponseBacked, UNCHANGED <<pc, req, executions, responses>>
    PROVE  ResponseBacked'
  BY DEF ResponseBacked, ExecutedResponseIsReal

\* The four steps of a handler keep ResponseBacked: only a GPIOSet that returned
\* OK leads to "record", and no execution is ever taken back.
LEMMA BackedHandler ==
    ASSUME TypeOK, ResponseBacked, NEW h \in Handlers,
           \/ \E r \in Requests : Receive(h, r)
           \/ GpioStep(h) \/ RecordStep(h) \/ Respond(h)
    PROVE  ResponseBacked'
<1> USE DEF ResponseBacked, ExecutedResponseIsReal, TypeOK
<1>1. ASSUME NEW r \in Requests, Receive(h, r) PROVE ResponseBacked'
  BY <1>1 DEF Receive
<1>2. CASE GpioStep(h)
  <2>1. /\ req[h] \in Requests /\ req[h].command_id \in CommandIds
        /\ pc[h] = "gpio" /\ UNCHANGED <<req, responses>>
    BY <1>2 DEF GpioStep, CommandIds
  <2>2. PICK rc \in SetResults :
          /\ pc' = [pc EXCEPT ![h] = AfterSet(rc)]
          /\ IF rc = "OK"
             THEN executions' =
                    [executions EXCEPT ![req[h].command_id] = @ + 1]
             ELSE UNCHANGED executions
    BY <1>2 DEF GpioStep
  <2>3. /\ executions' \in [CommandIds -> Nat]
        /\ \A i \in CommandIds : executions'[i] >= executions[i]
        /\ rc = "OK" => executions'[req[h].command_id] > 0
    BY <2>1, <2>2
  <2>4. ExecutedResponseIsReal'
    <3> SUFFICES ASSUME NEW x \in responses, x.status = "executed"
                 PROVE  executions'[x.command_id] > 0
      BY <2>1
    <3>1. x.command_id \in CommandIds
      OBVIOUS
    <3> QED
      BY <2>3, <3>1
  <2>5. ASSUME NEW g \in Handlers, pc'[g] \in {"record", "executed"}
        PROVE  executions'[req'[g].command_id] > 0
    <3>1. req[g] \in Requests /\ req[g].command_id \in CommandIds
      BY <2>1, <2>2, <2>5 DEF CommandIds
    <3> QED
      BY <2>1, <2>2, <2>3, <2>5, <3>1 DEF AfterSet
  <2> QED
    BY <2>4, <2>5
<1>3. CASE RecordStep(h)
  BY <1>3 DEF RecordStep
<1>4. CASE Respond(h)
  BY <1>4 DEF Respond
<1> QED
  BY <1>1, <1>2, <1>3, <1>4

\* For any number of handlers, redeliveries and refused writes: a response
\* "executed" reports a command whose GPIOSet succeeded.
THEOREM ExecutedResponseIsRealHolds == Spec => []ExecutedResponseIsReal
<1>1. Init => ResponseBacked
  BY DEF Init, ResponseBacked, ExecutedResponseIsReal
<1>2. TypeOK /\ ResponseBacked /\ [Next]_vars => ResponseBacked'
  <2> SUFFICES ASSUME TypeOK, ResponseBacked, [Next]_vars
               PROVE  ResponseBacked'
    OBVIOUS
  <2>1. ASSUME NEW c \in Channels,
               \/ ReserveChannel(c) \/ TimerFires(c)
               \/ CallbackGpio(c) \/ CallbackRecord(c)
        PROVE  ResponseBacked'
    BY <2>1, BackedKept DEF ReserveChannel, TimerFires, CallbackGpio,
       CallbackRecord
  <2>2. ASSUME NEW i \in CommandIds, Expire(i) PROVE ResponseBacked'
    BY <2>2, BackedKept DEF Expire
  <2>3. CASE \/ UNCHANGED vars \/ HalInitStep \/ BootFails
             \/ StartGoroutines \/ Subscribe \/ Signal \/ Disconnect
             \/ CleanupGpio \/ Exit
    BY <2>3, BackedKept DEF vars, HalInitStep, BootFails, StartGoroutines,
       Subscribe, Signal, Disconnect, CleanupGpio, Exit
  <2>4. CASE AssertAllOff \/ DeferredSafeState \/ CleanupSafeState
    BY <2>4, BackedKept DEF AssertAllOff, DeferredSafeState,
       CleanupSafeState, SafeState
  <2> QED
    BY <2>1, <2>2, <2>3, <2>4, BackedHandler DEF Next
<1>3. ResponseBacked => ExecutedResponseIsReal
  BY DEF ResponseBacked
<1> QED
  BY <1>1, <1>2, <1>3, TypeCorrect, PTL DEF Spec
===============================================================================
