------------------------------- MODULE Services -------------------------------
(***************************************************************************)
(* The three processes of the server under systemd: how they come up, what *)
(* they do when the broker or the database is away, and when systemd gives *)
(* up on them (server/app/main.py, mqtt_publisher.py, worker/main.py,      *)
(* scheduler/main.py, app/utils/sd.py, server/deploy/systemd).             *)
(*                                                                         *)
(* The units do not meet, so a behaviour is about one of them.  Time is    *)
(* counted in ticks of 5 seconds.  External: systemd, which counts starts  *)
(* within StartLimitIntervalSec, and aiomqtt, which never reconnects and   *)
(* gives up a connection attempt after 10 seconds.                         *)
(***************************************************************************)
EXTENDS Integers

CONSTANTS Units,        \* the units looked at
          READY_TICKS,  \* wait_for(ready_event.wait(), timeout=60) of the worker
          MaxKills      \* bound: times a process is killed or restarted by hand

ASSUME ServicesAssumption ==
    /\ Units \subseteq {"backend", "worker", "scheduler"}
    /\ READY_TICKS \in Nat /\ READY_TICKS >= 12
    /\ MaxKills \in Nat

\* The unit files: RestartSec and StartLimitBurst.
RestartTicks  == [backend |-> 1, worker |-> 1, scheduler |-> 2]
StartLimit    == [backend |-> 5, worker |-> 5, scheduler |-> 3]
ConnectTicks  == 2

VARIABLES
    unit,     \* the unit this behaviour is about
    honoured, \* StartLimitIntervalSec=300, which the units of backend and worker
              \* give under [Service]: systemd reads it under [Unit] only
    state,   \* "waiting" for a restart, "starting", "active", "failed" for good
    timer,    \* ticks in this state, as far as they matter
    window,   \* start limit: ticks since its first start, starts
    broker,   \* the broker is up
    database, \* the database is up
    link,     \* MQTT connection: "none", "trying", "up", "gone"
    jobs      \* the scheduler's jobs: "none", "run" or "fail" when they last ran
\* History: kills so far, and whether an active process lost its connection.
VARIABLES kills, lost

world == <<broker, database>>
servicesVars == <<unit, honoured, state, timer, window, world, link, jobs, kills, lost>>

\* StartLimitIntervalSec, which is 10 seconds unless it is given.
LimitTicks == IF honoured /\ unit # "scheduler" THEN 60 ELSE 2

ServicesInit ==
    /\ unit \in Units
    /\ honoured \in BOOLEAN
    /\ state = "waiting"
    /\ timer = RestartTicks[unit]
    /\ window = [age |-> LimitTicks + 1, starts |-> 0]
    /\ broker \in BOOLEAN
    /\ database \in BOOLEAN
    /\ link = "none"
    /\ jobs = "none"
    /\ kills = 0
    /\ lost = FALSE

\* The process ends; Restart=always.
Exit ==
    /\ state' = "waiting"
    /\ timer' = 0
    /\ link' = "none"
    /\ jobs' = "none"
    /\ lost' = FALSE

\* systemd starts the process, unless it was started too often.
StartUnit ==
    /\ state = "waiting"
    /\ timer >= RestartTicks[unit]
    /\ LET over == window.age > LimitTicks IN
       \/ /\ over \/ window.starts < StartLimit[unit]
          /\ window' = IF over THEN [age |-> 0, starts |-> 1]
                       ELSE [window EXCEPT !.starts = @ + 1]
          /\ state' = "starting"
          /\ link' = IF unit = "scheduler" THEN "none" ELSE "trying"
       \/ /\ ~over /\ window.starts >= StartLimit[unit]
          /\ state' = "failed"
          /\ UNCHANGED <<window, link>>
    /\ timer' = 0
    /\ UNCHANGED <<unit, honoured, world, jobs, kills, lost>>
-------------------------------------------------------------------------------
(* the backend: lifespan and mqtt_lifespan *)

\* READY=1 is sent inside mqtt_lifespan, when the client is connected.
BackendReady ==
    /\ unit = "backend" /\ state = "starting" /\ link = "trying"
    /\ broker
    /\ state' = "active"
    /\ link' = "up"
    /\ timer' = 0
    /\ UNCHANGED <<unit, honoured, window, world, jobs, kills, lost>>

\* The connection is refused, or not answered: the exception ends the process.
BackendFails ==
    /\ unit = "backend" /\ state = "starting" /\ link = "trying"
    /\ ~broker
    /\ Exit
    /\ UNCHANGED <<unit, honoured, window, world, kills>>
-------------------------------------------------------------------------------
(* the worker: _main and _consume *)

\* Mutant of WorkerReady: READY=1 is sent before the consumer has subscribed.
WorkerReadyEarly ==
    /\ unit = "worker" /\ state = "starting"
    /\ state' = "active"
    /\ timer' = 0
    /\ UNCHANGED <<unit, honoured, window, world, link, jobs, kills, lost>>

\* The consumer has subscribed and sets ready_event.
WorkerReady ==
    /\ unit = "worker" /\ state = "starting" /\ link = "trying"
    /\ broker
    /\ state' = "active"
    /\ link' = "up"
    /\ timer' = 0
    /\ UNCHANGED <<unit, honoured, window, world, jobs, kills, lost>>

\* The consumer's exception stays in its task: nothing awaits it.
ConsumerEnds ==
    /\ unit = "worker" /\ state = "starting" /\ link = "trying"
    /\ ~broker
    /\ link' = "gone"
    /\ UNCHANGED <<unit, honoured, state, timer, window, world, jobs, kills, lost>>

\* Mutant of WorkerGivesUp: a timeout of 50 seconds.
WorkerGivesUpSooner ==
    /\ unit = "worker" /\ state = "starting"
    /\ timer >= READY_TICKS - 2
    /\ Exit
    /\ UNCHANGED <<unit, honoured, window, world, kills>>

\* Mutant of WorkerGivesUp: it waits for ready_event without a timeout.
WorkerWaits ==
    /\ unit = "worker" /\ state = "starting" /\ link = "up"
    /\ timer >= READY_TICKS
    /\ Exit
    /\ UNCHANGED <<unit, honoured, window, world, kills>>

\* ready_event is not set within 60 seconds: _main returns.
WorkerGivesUp ==
    /\ unit = "worker" /\ state = "starting"
    /\ timer >= READY_TICKS
    /\ Exit
    /\ UNCHANGED <<unit, honoured, window, world, kills>>
-------------------------------------------------------------------------------
(* the scheduler: _main and _tick *)

\* The first run of partition_manager may fail: the others go on.
SchedulerReady ==
    /\ unit = "scheduler" /\ state = "starting"
    /\ state' = "active"
    /\ jobs' = IF database THEN "run" ELSE "fail"
    /\ timer' = 0
    /\ UNCHANGED <<unit, honoured, window, world, link, kills, lost>>

\* _tick: a new session each time; every error is logged and the loop goes on.
JobRuns ==
    /\ unit = "scheduler" /\ state = "active"
    /\ jobs' = IF database THEN "run" ELSE "fail"
    /\ UNCHANGED <<unit, honoured, state, timer, window, world, link, kills, lost>>
-------------------------------------------------------------------------------
(* all of them *)

\* An active process is killed, or restarted by hand: SIGTERM sends STOPPING=1,
\* cancels the tasks and ends.  The watchdog loop does not end before (Auth has it).
Killed ==
    /\ state \in {"starting", "active"}
    /\ kills < MaxKills
    /\ kills' = kills + 1
    /\ Exit
    /\ UNCHANGED <<unit, honoured, window, world>>

\* The broker or the database goes or comes back.  A connection that breaks is
\* not made again: the backend answers 503 to commands and the worker stops
\* consuming, while both send WATCHDOG=1 as before.
BrokerChanges ==
    /\ broker' = ~broker
    /\ link' = IF link = "up" THEN "gone" ELSE link
    /\ lost' = (lost \/ link = "up")
    /\ UNCHANGED <<unit, honoured, state, timer, window, database, jobs, kills>>

DatabaseChanges ==
    /\ database' = ~database
    /\ UNCHANGED <<unit, honoured, state, timer, window, broker, link, jobs, kills, lost>>

\* Ticks do not pass a deadline.
Urgent ==
    \/ state = "waiting" /\ timer >= RestartTicks[unit]
    \/ unit = "worker" /\ state = "starting" /\ timer >= READY_TICKS
    \/ link = "trying" /\ timer >= ConnectTicks
    \/ unit = "scheduler" /\ state = "starting"

Tick ==
    /\ state # "failed"
    /\ ~Urgent
    /\ timer' = IF state = "active" THEN 0 ELSE timer + 1
    /\ window' = [window EXCEPT !.age = IF @ > LimitTicks THEN @ ELSE @ + 1]
    /\ UNCHANGED <<unit, honoured, state, world, link, jobs, kills, lost>>

Step ==
    \/ StartUnit \/ BackendReady \/ BackendFails \/ WorkerReady \/ ConsumerEnds
    \/ WorkerGivesUp \/ SchedulerReady \/ JobRuns \/ Tick

ServicesNext == Step \/ Killed \/ BrokerChanges \/ DatabaseChanges

ServicesSpec == ServicesInit /\ [][ServicesNext]_servicesVars

\* systemd, the event loops and the clock go on.
ServicesFairSpec ==
    /\ ServicesSpec
    /\ WF_servicesVars(StartUnit) /\ WF_servicesVars(BackendReady) /\ WF_servicesVars(BackendFails)
    /\ WF_servicesVars(WorkerReady) /\ WF_servicesVars(ConsumerEnds) /\ WF_servicesVars(WorkerGivesUp)
    /\ WF_servicesVars(SchedulerReady) /\ WF_servicesVars(JobRuns) /\ WF_servicesVars(Tick)
-------------------------------------------------------------------------------
\* The variables have their types; a process that has not been started holds no
\* connection.
ServicesTypeOK ==
    /\ unit \in Units /\ honoured \in BOOLEAN
    /\ state \in {"waiting", "starting", "active", "failed"}
    /\ timer \in Nat
    /\ window.starts \in 0..StartLimit[unit]
    /\ window.age \in 0..(LimitTicks + 1)
    /\ broker \in BOOLEAN /\ database \in BOOLEAN
    /\ link \in {"none", "trying", "up", "gone"}
    /\ jobs \in {"none", "run", "fail"}
    /\ kills \in 0..MaxKills
    /\ lost \in BOOLEAN
    /\ state \in {"waiting", "failed"} => link = "none" /\ jobs = "none"

\* A backend or worker that has told systemd READY=1 has, or had, its connection:
\* one that is active without it lost it afterwards.
ReadyMeansConnected ==
    state = "active" /\ unit # "scheduler" => link = "up" \/ (link = "gone" /\ lost)

\* However long the broker is away, systemd does not give up on the worker, whose
\* starts are 65 seconds apart, nor on the scheduler, nor on the backend, unless its
\* StartLimitIntervalSec=300 is honoured or the process is killed besides.
NeverGivenUp ==
    kills = 0 /\ (unit = "backend" => ~honoured) => state # "failed"

\* What a unit needs is back for good: a worker that is not killed consumes again,
\* unless it had lost a connection that it thought was its own; the scheduler's jobs
\* work again; systemd has brought the backend up again, as lifespan counts on.
WorkResumes ==
    /\ <>[](unit = "worker" /\ kills = 0 /\ broker) =>
           <>[](state = "active" /\ (link = "up" \/ lost))
    /\ <>[](unit = "scheduler" /\ state # "failed" /\ database) => []<>(jobs = "run")
    /\ <>[](unit = "backend" /\ ~honoured /\ kills = 0 /\ broker) => <>[](state = "active")
===============================================================================
