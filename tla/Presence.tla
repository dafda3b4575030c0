------------------------------- MODULE Presence -------------------------------
(***************************************************************************)
(* Whether a gateway is online, as the server sees it: the MQTT client and *)
(* the health agent of the gateway (gateway/internal/mqtt/client.go,       *)
(* gateway/internal/health/health.go), the broker with its retained state  *)
(* message and last will, the worker's handlers of state, heartbeat and    *)
(* telemetry (server/worker), and the scheduler's offline_detector.        *)
(*                                                                         *)
(* Time is kept as ages: a tick makes every timestamp one older, and Old   *)
(* is "longer ago than offline_threshold_sec" (and NULL, which the         *)
(* detector treats alike).  Gateway and server clocks agree.               *)
(*                                                                         *)
(* paho runs OnConnect and OnConnectionLost in goroutines of their own, so *)
(* the flag cl.connected lags behind the link; it does not retry an        *)
(* initial Connect that failed.                                            *)
(***************************************************************************)
EXTENDS Naturals, Sequences

CONSTANTS Old,        \* ages stop here: offline_threshold_sec has passed
          Sensors,    \* BOOLEAN: the gateway has an enabled sensor channel
          MaxWire,    \* bound: messages between broker and worker
          MaxFaults,  \* bound: restarts and failures of the worker
          MaxPending  \* bound: paho callbacks of one kind that wait to run

ASSUME PresenceAssumption ==
    /\ Old \in Nat \ {0}
    /\ Sensors \in BOOLEAN
    /\ MaxWire \in Nat
    /\ MaxFaults \in Nat
    /\ MaxPending \in Nat

VARIABLES
    agent,      \* the gateway process: "off" (also before Connect), "setup"
                \* (after Connect), "running", "stopping" (context cancelled),
                \* "draining" (health.Run is over, or none was started) or
                \* "closing" (inside Disconnect)
    link,       \* paho's connection: "none", "up" or "down" (reconnecting)
    connected,  \* BOOLEAN: the flag cl.connected
    hook,       \* BOOLEAN: health.Run has set cl.OnConnect
    callbacks,  \* [Callbacks -> Nat]: paho goroutines that have not run yet
    session,    \* BOOLEAN: the broker believes the gateway is connected
    retained,   \* the retained message of gw/{id}/state, or NoMsg
    wire,       \* messages on their way to the worker
    worker,     \* "up" or "zombie": the consumer task has died, _main waits
    job,        \* NoJob, or a message and the status its handler has read
    status,     \* column status of the gateway's row
    last_seen,  \* age of column last_seen_at
    faults      \* restarts and failures of the worker so far
\* History, read by no action of the code.
VARIABLES
    contact,    \* age of the last moment the broker held a session
    byWill,     \* last_seen_at was written for a last will
    crossed     \* the flag was cleared by the callback of an older loss

agentVars  == <<agent, link, connected, hook, callbacks>>
brokerVars == <<session, retained, wire>>
serverVars == <<worker, job, status, last_seen, faults>>
histVars   == <<contact, byWill, crossed>>
vars == <<agentVars, brokerVars, serverVars, histVars>>

\* What is published: heartbeat and telemetry, and the five state messages.
Stamped   == {"heartbeat", "telemetry", "online"}
Unstamped == {"lwt", "graceful", "shutdown"}
Msgs == [kind : Stamped, age : 0..Old] \cup [kind : Unstamped, age : {0}]

NoMsg == [kind |-> "none"]
NoJob == [kind |-> "idle"]

Statuses == {"online", "offline", "shutdown"}

Jobs == [kind : Stamped, age : 0..Old, seen : Statuses]
            \cup [kind : Unstamped, age : {0}, seen : Statuses]

Callbacks == {"connect", "online", "lost"}

Older(a) == IF a < Old THEN a + 1 ELSE Old

Init ==
    /\ agent = "off"
    /\ link = "none"
    /\ connected = FALSE
    /\ hook = FALSE
    /\ callbacks = [k \in Callbacks |-> 0]
    /\ session = FALSE
    /\ retained = NoMsg
    /\ wire = <<>>
    /\ worker = "up"
    /\ job = NoJob
    /\ status = "offline"
    /\ last_seen = Old
    /\ faults = 0
    /\ contact = Old
    /\ byWill = FALSE
    /\ crossed = FALSE
-------------------------------------------------------------------------------
(* the broker *)

Msg(k) == [kind |-> k, age |-> 0]

\* A message is routed to the worker if that is subscribed.
Route(m) ==
    IF worker = "up" THEN Len(wire) < MaxWire /\ wire' = Append(wire, m)
                     ELSE UNCHANGED wire

PublishRetained(m) == retained' = m /\ Route(m)

\* cl.IsConnected.
IsConnected == connected /\ link = "up"

\* A publish of the agent: an error without effect unless IsConnected.
PublishState(k) ==
    IF IsConnected THEN PublishRetained(Msg(k)) ELSE UNCHANGED <<retained, wire>>

\* paho starts the goroutine of a callback.
Spawn(k) ==
    /\ callbacks[k] < MaxPending
    /\ callbacks' = [callbacks EXCEPT ![k] = @ + 1]

\* CONNECT is accepted.  A session the broker still holds for this client id is
\* taken over, which publishes its last will.
Accept ==
    /\ link' = "up"
    /\ session' = TRUE
    /\ contact' = 0
    /\ Spawn("connect")
    /\ IF session THEN PublishRetained(Msg("lwt")) ELSE UNCHANGED <<retained, wire>>

\* The keepalive of a lost connection runs out.
BrokerDetectsLoss ==
    /\ session
    /\ link # "up"
    /\ session' = FALSE
    /\ PublishRetained(Msg("lwt"))
    /\ UNCHANGED <<agentVars, serverVars, histVars>>
-------------------------------------------------------------------------------
(* the gateway process *)

\* main calls Connect, and goes on whether it succeeds or not ...
ConnectOK ==
    /\ agent = "off"
    /\ agent' = "setup"
    /\ Accept
    /\ UNCHANGED <<connected, hook, serverVars, byWill, crossed>>

ConnectFails ==
    /\ agent = "off"
    /\ agent' = "setup"
    /\ UNCHANGED <<link, connected, hook, callbacks, brokerVars, serverVars,
                   histVars>>

\* ... then creates the managers and starts the goroutines, or gives up.
StartGoroutines ==
    /\ agent = "setup"
    /\ agent' \in {"running", "draining"}
    /\ UNCHANGED <<link, connected, hook, callbacks, brokerVars, serverVars,
                   histVars>>

LinkLost ==
    /\ link = "up"
    /\ link' = "down"
    /\ Spawn("lost")
    /\ UNCHANGED <<agent, connected, hook, brokerVars, serverVars, histVars>>

\* paho's auto-reconnect.
Reconnect ==
    /\ link = "down"
    /\ Accept
    /\ UNCHANGED <<agent, connected, hook, serverVars, byWill, crossed>>

\* OnConnect: the flag, then the hook if there is one.
ConnectCallback ==
    /\ callbacks["connect"] > 0
    /\ callbacks["online"] < MaxPending
    /\ connected' = TRUE
    /\ crossed' = FALSE
    /\ callbacks' = [callbacks EXCEPT
                       !["connect"] = @ - 1,
                       !["online"] = IF hook THEN @ + 1 ELSE @]
    /\ UNCHANGED <<agent, link, hook, brokerVars, serverVars, contact,
                   byWill>>

PublishOnline ==
    /\ callbacks["online"] > 0
    /\ callbacks' = [callbacks EXCEPT !["online"] = @ - 1]
    /\ PublishState("online")
    /\ UNCHANGED <<agent, link, connected, hook, session, serverVars, histVars>>

LostCallback ==
    /\ callbacks["lost"] > 0
    /\ callbacks' = [callbacks EXCEPT !["lost"] = @ - 1]
    /\ connected' = FALSE
    /\ crossed' = (link = "up")
    /\ UNCHANGED <<agent, link, hook, brokerVars, serverVars, contact,
                   byWill>>

\* health.Run starts, at some time after Connect.
SetHook ==
    /\ agent \in {"running", "stopping"}
    /\ ~hook
    /\ hook' = TRUE
    /\ UNCHANGED <<agent, link, connected, callbacks, brokerVars, serverVars,
                   histVars>>

\* A tick of the health agent, or a poll of a sensor channel, which may end later
\* than health.Run; a publish that fails is not repeated (telemetry goes to the
\* module LocalQueue).
Heartbeat ==
    /\ agent \in {"running", "stopping"}
    /\ hook
    /\ IsConnected
    /\ Route(Msg("heartbeat"))
    /\ UNCHANGED <<agentVars, session, retained, serverVars, histVars>>

Telemetry ==
    /\ Sensors
    /\ agent \in {"running", "stopping"} \/ (agent = "draining" /\ hook)
    /\ IsConnected
    /\ Route(Msg("telemetry"))
    /\ UNCHANGED <<agentVars, session, retained, serverVars, histVars>>

Signal ==
    /\ agent = "running"
    /\ agent' = "stopping"
    /\ UNCHANGED <<link, connected, hook, callbacks, brokerVars, serverVars,
                   histVars>>

\* health.Run sees the cancelled context.
HealthStops ==
    /\ agent = "stopping"
    /\ hook
    /\ agent' = "draining"
    /\ PublishState("shutdown")
    /\ UNCHANGED <<link, connected, hook, callbacks, session, serverVars,
                   histVars>>

\* main's wait is over, and Disconnect publishes the offline message ...
DisconnectPublishes ==
    /\ agent = "draining"
    /\ agent' = "closing"
    /\ PublishState("graceful")
    /\ UNCHANGED <<link, connected, hook, callbacks, session, serverVars,
                   histVars>>

\* The process ends, and with it whatever paho was about to run.
Gone ==
    /\ agent' = "off"
    /\ link' = "none"
    /\ connected' = FALSE
    /\ hook' = FALSE
    /\ callbacks' = [k \in Callbacks |-> 0]

\* ... then the DISCONNECT packet, which discards the last will.
DisconnectCloses ==
    /\ agent = "closing"
    /\ Gone
    /\ session' = (session /\ link # "up")
    /\ UNCHANGED <<retained, wire, serverVars, histVars>>

\* SIGKILL, a panic, or the power fails.
Crash ==
    /\ agent # "off"
    /\ Gone
    /\ UNCHANGED <<brokerVars, serverVars, histVars>>
-------------------------------------------------------------------------------
(* the worker *)

\* The handler reads the row.
WorkerReads ==
    /\ worker = "up"
    /\ job = NoJob
    /\ wire # <<>>
    /\ job' = [kind |-> Head(wire).kind, age |-> Head(wire).age, seen |-> status]
    /\ wire' = Tail(wire)
    /\ UNCHANGED <<agentVars, session, retained, worker, status, last_seen,
                   faults, histVars>>

\* Mutant of NewStatus: telemetry, like a heartbeat, revives only "offline".
NewStatusFromOffline(k, seen) ==
    CASE k \in {"heartbeat", "telemetry"} ->
                                      IF seen = "offline" THEN "online" ELSE seen
      [] k = "online"              -> "online"
      [] k \in {"lwt", "graceful"} -> "offline"
      [] k = "shutdown"            -> "shutdown"

\* The status that the handler assigns.
NewStatus(k, seen) ==
    CASE k = "heartbeat"           -> IF seen = "offline" THEN "online" ELSE seen
      [] k \in {"telemetry", "online"} -> "online"
      [] k \in {"lwt", "graceful"} -> "offline"
      [] k = "shutdown"            -> "shutdown"

\* Mutant of NewLastSeen: the time of the commit instead of the message's own.
NewLastSeenNow == IF job.kind \in Stamped \cup {"lwt"} THEN 0 ELSE last_seen

\* last_seen_at: the message's timestamp, or the server's for a last will.
NewLastSeen ==
    CASE job.kind \in Stamped -> job.age
      [] job.kind = "lwt"     -> 0
      [] OTHER                -> last_seen

\* Assignments and commit; a status equal to the one read is not written.
WorkerCommits ==
    /\ job # NoJob
    /\ LET new == NewStatus(job.kind, job.seen) IN
       status' = IF new # job.seen THEN new ELSE status
    /\ last_seen' = NewLastSeen
    /\ byWill' = (job.kind = "lwt" \/ (byWill /\ job.kind \notin Stamped))
    /\ job' = NoJob
    /\ UNCHANGED <<agentVars, brokerVars, worker, faults, contact, crossed>>

\* The handler raises: the error is logged and the message is gone.
WorkerFails ==
    /\ job # NoJob
    /\ faults < MaxFaults
    /\ faults' = faults + 1
    /\ job' = NoJob
    /\ UNCHANGED <<agentVars, brokerVars, worker, status, last_seen, histVars>>

\* The connection to the broker breaks: client.messages raises, the consumer
\* task ends and nothing awaits it; the watchdog task goes on.
WorkerLosesBroker ==
    /\ worker = "up"
    /\ job = NoJob
    /\ faults < MaxFaults
    /\ faults' = faults + 1
    /\ worker' = "zombie"
    /\ wire' = <<>>
    /\ UNCHANGED <<agentVars, session, retained, job, status, last_seen, histVars>>

\* The worker process is restarted; its subscription delivers the retained
\* message.
WorkerRestarts ==
    /\ faults < MaxFaults
    /\ faults' = faults + 1
    /\ worker' = "up"
    /\ job' = NoJob
    /\ wire' = IF retained = NoMsg THEN <<>> ELSE <<retained>>
    /\ UNCHANGED <<agentVars, session, retained, status, last_seen, histVars>>
-------------------------------------------------------------------------------
(* the scheduler, and time *)

\* Mutant of Stale: the comparison with the threshold is turned round.
Fresh == last_seen < Old

\* last_seen_at < now - offline_threshold_sec, or NULL.
Stale == last_seen = Old

OfflineDetector ==
    /\ status = "online"
    /\ Stale
    /\ status' = "offline"
    /\ UNCHANGED <<agentVars, brokerVars, worker, job, last_seen, faults, histVars>>

Aged(m) == IF m.kind \in Stamped THEN [m EXCEPT !.age = Older(@)] ELSE m

Tick ==
    /\ retained' = Aged(retained)
    /\ wire' = [i \in 1..Len(wire) |-> Aged(wire[i])]
    /\ job' = Aged(job)
    /\ last_seen' = Older(last_seen)
    /\ contact' = IF session THEN 0 ELSE Older(contact)
    /\ UNCHANGED <<agentVars, session, worker, status, faults, byWill, crossed>>
-------------------------------------------------------------------------------
Next ==
    \/ ConnectOK \/ ConnectFails \/ StartGoroutines
    \/ LinkLost \/ Reconnect
    \/ ConnectCallback \/ PublishOnline \/ LostCallback \/ SetHook
    \/ Heartbeat \/ Telemetry \/ Signal \/ HealthStops
    \/ DisconnectPublishes \/ DisconnectCloses \/ Crash
    \/ BrokerDetectsLoss
    \/ WorkerReads \/ WorkerCommits \/ WorkerFails
    \/ WorkerLosesBroker \/ WorkerRestarts
    \/ OfflineDetector \/ Tick

Spec == Init /\ [][Next]_vars

\* The least the liveness of the status needs: paho's OnConnect goroutines run,
\* sensors are polled, the worker and the scheduler go on, and time passes.  The
\* link owes nothing, nor does anybody have to start or stop the gateway.
\* Publishing is strongly fair because MaxWire disables it at times.
Fairness ==
    /\ WF_vars(ConnectCallback) /\ SF_vars(PublishOnline) /\ SF_vars(Telemetry)
    /\ WF_vars(WorkerReads) /\ WF_vars(WorkerCommits)
    /\ WF_vars(OfflineDetector) /\ WF_vars(Tick)

FairSpec == Spec /\ Fairness
-------------------------------------------------------------------------------
(* Properties *)

AgentTypeOK ==
    /\ agent \in {"off", "setup", "running", "stopping", "draining", "closing"}
    /\ link \in {"none", "up", "down"}
    /\ connected \in BOOLEAN
    /\ hook \in BOOLEAN
    /\ callbacks \in [Callbacks -> Nat]

BrokerTypeOK ==
    /\ session \in BOOLEAN
    /\ retained \in Msgs \cup {NoMsg}
    /\ wire \in Seq(Msgs)

ServerTypeOK ==
    /\ worker \in {"up", "zombie"}
    /\ job \in Jobs \cup {NoJob}
    /\ status \in Statuses
    /\ last_seen \in 0..Old
    /\ faults \in 0..MaxFaults

\* Type invariant.
TypeOK ==
    /\ AgentTypeOK
    /\ BrokerTypeOK
    /\ ServerTypeOK
    /\ contact \in 0..Old
    /\ byWill \in BOOLEAN
    /\ crossed \in BOOLEAN

\* last_seen_at is never later than the last moment the gateway was connected,
\* whatever is delayed, replayed to a restarted worker or committed late, unless
\* its value comes from a last will, which the server stamps itself.
LastSeenIsContact == ~byWill => last_seen >= contact

\* No timestamp that is stored, under way or in a handler's hands is younger than
\* the last moment the broker held a session.
NoYounger ==
    /\ retained.kind \in Stamped => retained.age >= contact
    /\ \A i \in 1..Len(wire) : wire[i].kind \in Stamped => wire[i].age >= contact
    /\ job.kind \in Stamped => job.age >= contact

\* The inductive invariant behind LastSeenIsContact: a connected agent has a
\* session at the broker, a session is a contact now, and everything that a
\* handler may still write into last_seen_at is old enough.
IInv ==
    /\ TypeOK
    /\ link = "up" => session
    /\ session => contact = 0
    /\ NoYounger
    /\ LastSeenIsContact

\* A gateway that has been stopped or has crashed for good is in the end not
\* shown as online, whatever it left behind: late telemetry, a retained
\* "online", a handler that read the row before the detector wrote it.
DeadNotOnline == <>[](agent = "off") => <>[](status # "online")

\* A gateway with sensors that is connected for good, to a worker that lives,
\* is again and again shown as online, whatever last will, "shutdown" or lost
\* update preceded, unless the callback of an older connection loss cleared its
\* flag after the reconnect.
LiveShownOnline ==
    Sensors /\ <>[](agent = "running" /\ link = "up" /\ worker = "up" /\ ~crossed)
        => []<>(status = "online")
===============================================================================
