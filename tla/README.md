# Formal model of the IoT gateway and its server

TLA+ modules, TLC configurations and TLAPS proofs for the Raspberry Pi gateway
agent (`gateway/`, Go), its hardware library (`hal/`, C), the server behind it
(`server/`, Python), its deployment (`deploy/`) and the generator of the plan
document. Paths below are relative to the repository.

    tlc -config MCActuator.cfg MCActuator           # one of the runs below
    tlapm Actuator_proofs.tla                       # one of the proof modules

## 1. Inventory

### 1.1 The parts

| Part | Code | State it keeps | Operations |
|---|---|---|---|
| HAL GPIO | `hal/src/platform_pi4.c`, `common.c` | table of 32 lines under `g_mu`, `g_gpio_initialized` | init, request_output, set, assert_safe_state, cleanup |
| HAL RS485 | `hal/src/rs485.c` | none of its own; the tty's input buffer | open, modbus_read, modbus_write, close |
| Actuator manager | `gateway/internal/actuator` | per channel `currentValue`, `maxOnTimer` under `m.mu` | `handleCommand`/`execute`, timer callback, `assertAllOff` |
| Sensor manager | `gateway/internal/sensor` | one goroutine per channel | `pollOnce`: read registers, record health, publish or enqueue |
| MQTT client | `gateway/internal/mqtt` | `connected` flag, `OnConnect` hook, paho's connection | connect, callbacks, publish, retained state, disconnect |
| Health agent | `gateway/internal/health` | none | heartbeat, online and shutdown messages |
| Local database | `gateway/internal/localdb` | SQLite: queue, sensor health, command log | `Enqueue`, `SetSensorHealth`; others without a caller |
| Agent process | `gateway/cmd/gateway-agent/main.go` | phase of boot and shutdown, the context | boot, signal, deferred shutdown |
| API | `server/app/routers`, `schemas.py` | PostgreSQL rows | `issue_command`; create, read, update, delete of companies, sites, gateways, profiles, channels; telemetry queries (section 6) |
| Authentication | `server/app/auth.py`, `utils/jwks.py` | cache of Keycloak's keys | `get_current_user`, `get_key` |
| Worker | `server/worker` | one consumer task, a 60 s cache of ids | handlers of state, heartbeat, telemetry, command response |
| Scheduler | `server/scheduler` | none | `offline_detector`, `command_timeout`, `partition_manager` |
| Schema | `server/app/models.py`, `server/alembic` | tables, keys, references, partitions | migrations up and down |
| Server processes | `*/main.py`, `utils/sd.py`, `server/deploy/systemd` | starts within the limit's interval | start, READY, WATCHDOG, fail, restart |
| Seed | `deploy/scripts/sim-seed.py` | rows of the demo | one run, statement by statement |
| Plan document | `build_plan_hwpx.py` | two id counters, the paragraphs | headings, text, code blocks, tables |
| Others | section 6 | | configuration, simulation, installation, slides |

### 1.2 How they interact

* User to relay: `issue_command` inserts a row `pending`, publishes
  `gw/{serial}/command/request` (QoS 1), commits `published`; paho runs
  `handleCommand` in a goroutine of its own (`SetOrderMatters(false)`); `execute`
  writes the pin through the HAL, then records it under `m.mu`; the response goes
  to `gw/{serial}/command/response`; the worker commits it; every 10 s the
  scheduler turns expired rows into `timeout`.
* Sensor to database: each channel's goroutine reads the shared serial bus and
  publishes telemetry, or puts it in the SQLite queue when it cannot. The worker
  turns serial and slugs into ids through its cache, inserts into the monthly
  partition of `telemetry` and upserts `telemetry_latest`.
* Presence: retained `gw/{serial}/state`, the last will, heartbeat and telemetry
  all write `status` and `last_seen_at` of the gateway's row through the worker,
  while `offline_detector` updates the same row in SQL.
* API requests interleave at every `await` on one event loop, which also sends
  the watchdog's messages and fetches Keycloak's keys with a blocking call.

### 1.3 What is hard here, and what correctness means

* **Atomicity.** `execute` writes the pin outside the mutex that guards the value
  and the timer. *A relay that a command switched on must have something on its
  way to switch it off, and be off when the process ends.*
* **Shutdown with goroutines in flight.** Nothing waits for paho's handlers and
  for `time.AfterFunc` callbacks. *The last word must be OFF.*
* **Rows read, then written.** Backend and worker hold rows across an `await`.
  *A command is never shown as executed when it was not; every command is settled;
  a request writes only what its user may write when it does, and leaves history alone.*
* **Unreliable delivery.** QoS 1 repeats, clean sessions lose, the retained
  message is replayed. *A dead gateway is not shown as online for ever, a live one
  comes back, the newest reading is the one shown.*
* **Caches.** Ids for 60 s, keys for an hour, filled after an `await` or a blocking
  fetch. *A stale entry does harm for the time to live and the time of one read at
  most, whatever is looked up between.*
* **A shared bus without a lock.** *No reading of one slave is reported for
  another; a poll that is called good is complete.*
* **Bounds and edges.** COUNT, DELETE and INSERT of concurrent `Enqueue` calls
  interleave; months turn into years; widths are rounded. *The table stays near
  `max_queue_rows` from both sides and loses what is old, every month has one place, a table of the plan fills the page.*
* **Several descriptions of one schema.** Models, migrations, schemas and raw SQL
  are kept in step by hand. *Every INSERT and every answer of the code fits.*
* **Processes that depend on systemd.** *They come back, and are not given up.*

The full list, at the lines where the hazards bite, is under `hazards` in
`PROJECT.json`.

## 2. Modules

| Module | Models | Checked by | Proved in |
|---|---|---|---|
| `HalGpio` | the line table of the HAL | through `Actuator` | through `Actuator` |
| `Actuator` (EXTENDS `HalGpio`) | actuator manager inside the agent process | `MCActuator` | `Actuator_proofs` |
| `CommandLifecycle` | a row of `commands` and the four parties around it | `MCCommandLifecycle` | `Server_proofs` |
| `LocalQueue` | `Enqueue` and the goroutines that call it | `MCLocalQueue` | `LocalQueue_proofs` |
| `Presence` | MQTT client, health agent, broker, worker, detector | `MCPresence` | `Presence_proofs` |
| `SensorPoll` | `pollOnce` and `gw_rs485_modbus_read` on one bus | `MCSensorPoll` | `SensorPoll_proofs` |
| `Partitions` | monthly partitions of `telemetry` and their job | through `TelemetryStore` | `TelemetryStore_proofs` |
| `TelemetryStore` (EXTENDS `Partitions`) | worker, caches of ids, `telemetry`, `telemetry_latest` | `MCTelemetry` | `TelemetryStore_proofs` |
| `LatestRegister` | abstract: what a dashboard expects of `telemetry_latest` | implemented by `TelemetryStore` | `TelemetryStore_proofs` |
| `Schema` | tables, models, request and answer bodies, side by side | through the next two | through the next two |
| `Provision` (EXTENDS `Schema`) | migrations and overlapping runs of `sim-seed.py` | `MCProvision` | `Scripts_proofs` |
| `Registry` (EXTENDS `Schema`) | the routers, requests of several users at once | `MCRegistry` | `Registry_proofs` |
| `Services` | backend, worker, scheduler under systemd | `MCServices` | `Server_proofs` |
| `Auth` | tokens, key cache and watchdog in one event loop | `MCAuth` | `Server_proofs` |
| `PlanText`, `PlanDocument` | the plan's calls, and what they append | `MCPlanDocument` | `Scripts_proofs` |

`map` in `PROJECT.json` names the source lines of every definition. Operators
whose comment begins with "Mutant of" are variants of the definition after them
with a plausible bug in it; they take no part in a specification. `Server_proofs`
extends three components and `Scripts_proofs` two that have nothing to do with each
other; so that their names do not clash, `Auth`, `Services` and `PlanDocument` call
their specifications `AuthSpec`, `ServicesSpec` and `PlanSpec`, and their type
invariants `AuthTypeOK`, `ServicesTypeOK` and `PlanTypeOK`.

**HalGpio, Actuator.** One HAL call is one step, because the library holds
`g_mu` during it. `phase` is how far `main` has come; `channels`, `currentValue`
and `maxOnTimer` are the manager's fields; `pc` and `req` are the goroutines in
which paho runs `handleCommand`. `execute` is two steps, as in the code:
`GpioStep` is `GPIOSet`, `RecordStep` the section under `m.mu`. The timer
callback is three: `TimerFires` (it has started and `Stop` can no longer reach
it), `CallbackGpio`, `CallbackRecord`. `assertAllOff` does everything under
`m.mu` and is one step; the deferred safe state, `gw_hal_cleanup` in its two
halves and the exit are one step each. The errors of the HAL that depend on its
table are computed, the kernel's refusal of a write is a choice.

**CommandLifecycle.** `api` is the progress of `issue_command`; `status`,
`response` and `completed` are the columns; `job` is the row the worker holds
between `session.get` and `commit`, and the commit writes only what differs from
what it read, as the ORM does. Messages are sets: they may stay, repeat and get
lost. `GatewayExecutes` and `GatewayRefuses` sum up what `Actuator` does with a
request. Server and gateway have clocks of their own.

**LocalQueue.** `CountRows`, `DropOldest`/`DropFails` and `InsertRow` are the
three statements of `Enqueue`; a DELETE removes the oldest rows by `created_at`,
which is taken before them. A restart loses what the goroutines carry and keeps the
table. `filled`, `newestDropped`, `dropFailed`, `failures` and `crashes` are
histories: what was dropped and what was lost is not written down, it is read off
the table (`Outdated`, `Missing`).

**Presence.** Time is kept as ages that a `Tick` increments and that stop at
`Old`, "longer ago than `offline_threshold_sec`". `callbacks` counts the paho
goroutines that were started and have not run, so that a late `OnConnectionLost`
may clear the flag of the next connection. `session` and `retained` are the
broker's. The worker reads a row (`WorkerReads`) and commits (`WorkerCommits`);
it may fail, be restarted, or live on as a process whose consumer task has died
(`zombie`: nothing awaits the task).

**SensorPoll.** Each channel is a program counter over `pollOnce`; the bus is
one input buffer and, per slave, the requests it has not answered. `SendRequest`
flushes the buffer for everybody; a reader takes a whole frame, whoever it was
meant for, or two readers tear one; an exception answer is accepted without
looking at its slave, as in the code. A history flag says whether a slave had
another request to answer while the channel waited.

**Partitions, TelemetryStore, LatestRegister.** A point in time is a month, the
unit the partition bounds tell apart. `Receive`, `LoadGateway`, `StoreValue` and
`Commit` are the awaits of `dispatch` and `telemetry.handle`; the transaction's
rows are in `job` until `Commit`. A cache entry carries its age; None is cached
too. `SelectGateway` and `SelectChannel` are the SELECTs of `_lookups.py`: what they
return is in `lookup` until the entry is made of it, and the row may change between. `RegisterGateway`, `DeleteGateway`, `AddChannel`, `DeleteChannel` change what
the entries were read from. `RunPartitionManager` is one transaction, so one
CREATE that PostgreSQL refuses undoes all. `Register` maps `latest` to the
register: key, month as a number, value.

**Schema, Provision, Registry.** `Schema` writes the same tables down as models,
migrations, bodies and writers see them. `Provision` runs migrations and seeds
over it, with PostgreSQL's waiting for locks and uncommitted keys, and the calls of
the API that meet the script's rows: `ApiCreates` (company, site, profile of its
names), `ApiRegistersGateway`, `ApiAddsChannel`, `ApiDeletesGateway` and
`ApiDeletesChannel`. `Registry` has every handler that writes as steps: the SELECTs
of its checks, the load of a cascade, flush and commit, publish; other requests
commit between any two of them. `Fails` is any await that raises, an overflow of
`timedelta` in `issue_command` included, and undoes the transaction. A request that
its checks refuse, one that only reads, and a refresh leave the database alone and
are no steps.

**Services.** One unit per behaviour, in ticks of 5 s: connection attempts, READY,
failure, RestartSec and the start limit.

**Auth.** An iteration of the event loop runs the requests that are ready, then
the timers; a timer only wakes its task, which runs in the iteration after it.
`Authenticate` is `get_token`, `_decode_jwt` and `get_current_user`, with the time
of the blocking fetch as a parameter, during which Keycloak may withdraw the keys it
has just sent; `withdrawn` is a history of Keycloak. The answers (`AnswersTo`) include
the 500 of a `kid` that is a list (`jwks.py:58`, `:63`), of a `realm_access` that is
no object, and of a user's SELECT that fails.

**PlanText, PlanDocument.** `PlanText` is the script as data, chapter by chapter;
`PlanDocument` executes it, a paragraph or a row of a table at a time.

## 3. Runs

| Run | Question | Result |
|---|---|---|
| `actuator` | Are relays that are on timed, relays at exit off, "executed" responses true; is a relay switched off in the end? | holds, with the named exceptions |
| `actuator_shared_pin` | Three relays on by default, two on one pin: does the boot fail and leave all of them off? | holds |
| `command` | Does the row only claim what happened, and is it settled? | holds |
| `queue_safety` | How far can the queue exceed its limit and fall below it, does it drop what is old, what else is lost? | writers - 1 rows above, a batch per writer below; one message per writer and fault |
| `presence` | Is `last_seen_at` honest, a dead gateway in the end not online, a live one shown again? | holds |
| `sensor_poll` | Do channels on one bus report only their own slave, and polls end? | holds |
| `telemetry` | Is `telemetry_latest` the newest row, a stale id brief, the year's end harmless; does the table implement the register? | holds: the TTL and one SELECT; partitions unless blocked |
| `provision` | Does every INSERT and answer fit the schema; is the seed complete and single? | holds, but for what overlapping runs or the API make twice and what the API deletes |
| `registry` | Does every gateway keep an administrator, a published command name what exists, a write have its permission, history stay? | holds |
| `services` | Is READY honest, does systemd never give up, does work resume? | holds for a worker that is not a zombie |
| `auth` | For how long is a withdrawn key accepted, why is a good token refused, how late is the watchdog? | TTL and one fetch; Keycloak; three bursts |
| `plan_document` | Are ids unique, tables as wide as the page? | holds |

The exceptions in the properties that hold (`raced`, `late`, `gaveUp`,
`lateCommit`, `doubtful`, `byWill`, `crossed`, `overlapped`, `slugsLost`,
`removed`, `Blocked`) name exactly the windows of section 5; those that are history
variables are read by no action.

The runs list the properties that are about the code's hazards. `TypeOK` and the
inductive invariants are not repeated there: they are proved (section 4), and
`TypeOK` holds in the same configurations when it is added as an `INVARIANT`. The same goes for `RecordedOnIsTimed`, `PinsExclusive`,
`ReleasedPinsFrozen`, `BoundedAdmission`, `CacheLagsByTtl` and `Integrity` of
`Registry`, which are proved.

### Bounds

* *Actuator*: one relay, two handler goroutines, two deliveries. An overlap needs
  two handlers, and a third meets the same steps. The requests fail each check of
  `execute` once and two pass; a redelivery and an expiry between two deliveries
  are among the behaviours. Interference of channels is the business of the
  proof, which has any number of them.
* *Command*: one command, which no other one can affect (every action is local to
  a row), two gateways for the stray response, two effects for redelivery.
* *Queue*: three writers, a limit of 7, batches of 2, ten messages, two faults. A
  limit above what three writers delete at once makes both bounds tight: the table
  fills, three writers delete a batch each, and it fills again.
* *Presence*: `Old` = 1 tells fresh from stale, which is all the detector does;
  one message under way, one fault of the worker, one waiting callback of each
  kind, which is what the crossing of two connections takes.
* *Sensor*: two channels on two slaves, one with two registers (a late answer
  needs a next register), two attempts instead of three, two outstanding requests
  per slave, one frame in the buffer.
* *Telemetry*: November to December with a look-ahead of two, so that windows and
  clocks that are off by a month reach the next year; two ids, a gateway and one made
  anew or a channel of it; two rows, an older and a newer; a time to live of two ticks
  and a SELECT of one at most. The proofs depend on none of these.
* *Provision*: two runs (an overlap needs two), four migrations: up, down, up; three
  calls of the API, enough to make a row, delete it and make it again.
* *Registry*: two requests under way, two users, two gateways, one row of every other
  table, one grant: what a check saw and a second request undoes. `gateway_profiles`
  is empty, since nothing in the repository writes it; the proof has any. Users and
  requests are interchangeable.
* *Services*: the real limits of the unit files, the worker's 60 s as 12 ticks,
  one kill by hand.
* *Auth*: two keys, one user, bursts of two, a time to live and a fetch of one tick
  each; `MaxAge`, where the history stops, is beyond their sum. The proof has any
  number.
* *Plan*: the whole plan, and short scripts with rows that are too long, too
  short, or have no widths.

Deadlock is checked in `presence`, `sensor_poll` and `auth`. It is off where the
modelled system stops: an agent that has exited, a command that is settled, a
document that is written, or where a bound uses up what the environment may do.

### Fairness

* *Actuator*: goroutines that are runnable run and an armed timer fires. No request
  has to arrive, no signal has to come, and `main` owes nothing.
* *Command*: only the scheduler's tick (`_tick` survives every exception) and the
  clock. Backend, broker, gateway and worker owe nothing.
* *Presence*: what the two liveness properties need: OnConnect goroutines run,
  sensors are polled and publish, worker and detector go on, time passes. The
  link owes nothing. Publishing actions are strongly fair because the bound on
  messages disables them now and then.
* *Sensor*: a goroutine inside a poll goes on (a read gets a frame or times out),
  a slave's request does not wait for ever, and a `select` that finds the context
  cancelled again and again takes that branch (strong fairness; the ticker's
  period is what justifies it). No slave has to answer.
* *Telemetry*: the partition job alone, again because of `_tick`.
* *Services*: systemd starts what is due, a process goes on to READY or fails,
  jobs run, time passes. Broker and database owe nothing; the properties speak of
  the time after they are back for good.

## 4. Proofs

All theorems are for every value of the constants under the named assumptions
(`ActuatorAssumption`, `LifecycleAssumption`, `QueueAssumption`,
`PresenceAssumption`, `PollAssumption`, `StoreAssumption`,
`PartitionsAssumption`, `RegistryAssumption`, `AuthAssumption`,
`NamesAssumption`, `ServicesAssumption`, `ProvisionAssumption`,
`ScriptsAssumption`), which give constants their types and keep the stand-ins for
"none" apart from the values. Two say more: `ServicesAssumption` has
`READY_TICKS >= 12`, the 60 s that the worker waits for its subscription
(`worker/main.py`) in ticks of 5 s, without which `NeverGivenUp` is false; and
`SharesAssumption` is what the docstring of `table` asks of its callers (one share
per column, 100 in all, `build_plan_hwpx.py:188`), without which the correction of
the last column would be of any size. TLC evaluates it for the calls of the plan.

* **`Actuator_proofs`**: `TypeOK`, `PinOnIsTimed`, `ExitHotOnlyLate`,
  `PinsExclusive`, `RecordedOnIsTimed`, `ReleasedPinsFrozen`,
  `ExecutedResponseIsReal`. `PinOnIsTimed` is
  not inductive: that a write on one channel does not raise another's pin needs
  distinct reserved pins (`PinsReserved`, `PinsExclusive`), and that the section
  under `m.mu` records what the pin shows needs `RecordersAlone`: outside
  `raced`, a handler between its write and its record has the channel to itself.
  `HotIsLate` carries `ExitHotOnlyLate` from the last safe state to the exit.
  `ExecutedResponseIsReal` has a strengthening of its own, `ResponseBacked`: a
  handler past its `GPIOSet` has counted the execution it will report.
* **`Server_proofs`**, commands: `TypeOK`, `ExecutedIsReal`,
  `StatusMatchesResponse`, `SettledIsComplete`. The strengthening says that
  nothing about a command exists before its row (`NothingBeforeInsert`), that
  "executed" messages under way are true (`AnswersTrue`), and that an answer the
  worker has seen is still in the row unless `published` came late
  (`AnswersStored`), which is why a stale read loses nothing.
* **`LocalQueue_proofs`**: `TypeOK`, and with cardinalities `BoundedAdmission`:
  rows plus writers past the check are at most limit + writers - 1. The step of
  `CountRows` uses that the writer itself is not yet counted. `BoundedOvershoot`
  follows. `BacklogKept` counts the writers that found the table full and have not
  deleted yet (`Dropping`): each may still take one batch, and one that finds it full
  starts the count again (`BacklogInv`). For `NewestKept`, the rows and the messages in
  hand that are older than a dropped row are fewer than the writers, because the
  writer of that row has gone on to a newer message, if to any (`KeptInv`,
  `NotAllLate`). `GapsBounded` is inductive with the types: a message leaves the
  hands of its writer for the table, or for a fault that is counted.
* **`Presence_proofs`**: `TypeOK`, `LastSeenIsContact`. `IInv` adds that an agent
  whose link is up has a session, that a session is a contact now, and that no
  timestamp retained, under way or in a handler's hands is younger than the last
  contact (`NoYounger`).
* **`SensorPoll_proofs`**: `TypeOK`, `ReadingIsOwn`, `GoodPollIsComplete`, for any
  number of channels, slaves, registers and attempts. `OnlyMine` is what the code
  relies on without a lock: while a channel waits without doubt, every request
  with its slave and every answer of the slave in the buffer is for the register
  it asked for. `Progress` relates `allOK` and the values to the measurements that
  were tried; it needs that a profile names no register twice. Every way a read
  can return goes through `Return`, whose effect on one channel is one lemma
  (`ReturnEffect`).
* **`Registry_proofs`**: `TypeOK`, `Integrity`, `EveryGatewayHasAdmin`,
  `PublishedNamesExist`, `WritesPermitted`, `CommandHistoryKept`, for any number of
  users, requests under way and rows. `IInv` has two parts. `DataInv` is about the
  tables: every row has the columns that its keys need and an id that was handed
  out (`RowsOK`), so that a new id is new; no reference dangles and no key occurs
  twice; every gateway has an administrator. `RequestOK` says what is still true of
  what a request read before others committed: its user holds the permission
  (nothing deletes one), and a row of an id that it carries belongs, *if it is still
  there*, to the gateway that was checked (`Names`). `RequestKept` is that every
  commit of others leaves this alone; the argument is then that of an INSERT, an
  UPDATE and a DELETE in turn (`InsertEffect`, `UpdateEffect`, `FlushStep`). The DELETE
  is the hard one, because the cascade of `session.delete` takes the channels that
  were loaded *before* other requests committed: a channel that came since still
  refers to the gateway, and the DELETE fails rather than leave it behind.
  `WritesPermitted` follows for each of the three from what its request holds; that
  the row an UPDATE writes is the one that was checked needs `PatchedRow`.
  `CommandRows`, the references of a command, keeps its gateway and its channel in
  their tables, which is `PublishedNamesExist` and the half of `CommandHistoryKept`
  that is not about the command itself (`CommandsStay`).
* **`TelemetryStore_proofs`**: `TypeOK`, `StaleOnlyBriefly`, `LatestIsNewest`,
  `OnePlacePerMonth`, `WindowIsLookahead`, and `Refinement`, that `TelemetryStore`
  implements `LatestRegister`. The newest rows
  need `JobInv`: what the handler is about to commit is the newest of the table
  and its own rows, and takes nothing back. An upsert keeps both (`UpsertNewest`,
  `UpsertAdvances`, over the order of months in `BeforeOrder`); a commit is then a
  step of the register and every other action a stutter. For `StaleOnlyBriefly`
  every action is reduced to what it does to one entry (`BriefKept`,
  `BriefFresh`), and `LookupInv` says that what a SELECT under way has returned was
  the row when it was sent, `waited` ticks ago. `WindowIsLookahead` says which months the loop of the partition
  job visits, in the order of months (`Ordinal`): the value of the recursive
  function `Visited` is found by taking a least counterexample, since no induction
  theorem of the library can be instantiated. With it the partitions stay months,
  and `OnePlacePerMonth` needs only that a partition covers its own month and no
  other, December included.
* **`Server_proofs`**, authentication: `AuthTypeOK`, `CacheLagsByTtl`, `ServedKeyIsRecent`,
  `RefusedForCause`, `WatchdogDelayBounded`. A key that Keycloak sends is one it has not
  withdrawn (`PublishedFresh`), and a fetch passes before the cache's time begins. The bound on the watchdog becomes
  inductive when it counts what the requests of the iteration may still take, and
  grows by one burst with each stage of the timer: asleep, due or woken, running
  (`Delay`).

* **`Server_proofs`**, processes: `ServicesTypeOK`, `ReadyMeansConnected`,
  `NeverGivenUp`. The last one is about counting over time: `Spaced` says that the
  age of the window in which systemd counts is at least `Spacing` times the starts
  in it but the first, plus the time since the last start (`Elapsed`). A worker's
  starts are 13 ticks apart (60 s and RestartSec), so that its sixth comes after
  the 300 s of its window; a scheduler's are 2 ticks apart and a backend's 1, and
  their fourth and sixth come after the 10 s of the default window.
* **`Scripts_proofs`**, the seed: `TypeOK`, `SeededOnce`, `SuccessMeansComplete`,
  for any number of runs. `SeedInv` is what a transaction knows: the unique keys
  hold over committed and uncommitted rows together (`OneEach`), and while nobody
  interferes (`Undisturbed`) at most one run is open, what it sees has at most one
  row of each kind, and at the INSERT of a table without a unique key there is
  none (`Orderly`). For `SuccessMeansComplete`, `DoneInv` says that what the
  statements so far found or made is still seen (`Done`), the channels only as
  long as the gateway and unless a call of the API has deleted them since
  (`removed`); that a run which has inserted the gateway or a channel has
  the gateway, which its reference keeps from being deleted (`Held`); and that
  the id of a gateway, once made, is not made again (`Origins`), so that a run
  cannot mistake a second gateway for the one it found.
* **`Scripts_proofs`**, the plan: `PlanTypeOK`, `IdsFresh` and `TablesFill`, for
  every script, not only that of the plan. `IdsInv`: every id in the document and in
  the table under construction is above `FirstId`, below the counter and used once.
  `TablesFill` needs what `sum` computes: the recursive function `SumsOf` exists and
  satisfies its equation (`SumsExist`, `SumsEquation`), and for the first m columns
  with the rounded widths S and the shares P it holds that
  100 S <= width * P <= 100 S + 99 m (`SharesInPercent`; `SharesEven` for equal
  shares), both by taking a least counterexample. Hence rounding loses at most one
  unit per column (`Remainder`), and the last column gets exactly that back
  (`WidthsFill`). `FillInv` carries it through the rows: the cells of the table under
  construction lie in the rows so far, one in each place, as wide as their column
  (`CellsFit`).

Only model-checked:

* the liveness properties `AutoOffUnlessRaced`, `EventuallySettled`,
  `DeadNotOnline`, `LiveShownOnline`, `CancelEndsPolling`,
  `WindowCompleteUnlessBlocked`, `WorkResumes`: fairness is out of the prover's
  reach;
* `CodeFitsSchema`, a statement about the repository's tables and statements in
  which only the revision varies: TLC's check is complete.

## 5. Divergences noticed

What the code does, against what a comment, a document or a log line says. The
properties are stated with these as named exceptions.

Gateway:

* The automatic OFF (`actuator.go:7`, `sample-config.yaml:109`) is lost when two
  handlers overlap: A (ON) writes the pin last, B (OFF) records last and stops the
  timer; the relay is on, recorded as off, untimed (`raced`).
* "On shutdown all actuators OFF" (`actuator.go:77`): a handler still running may
  write its pin after the last safe state and before `gw_gpio_cleanup` (`late`),
  and a refused write is not retried (`gaveUp`).
* `execute` never looks a `command_id` up, although the package comment lists
  idempotency among its checks: a redelivered request is executed twice.
* `main` connects before `health.Run` sets the hook, so the first online message
  (`health.go:44`) may be missing.
* An initial MQTT connect that fails is not retried (`SetConnectRetry` is not
  set), although `main` logs that it will be; a failed `Subscribe` is not either.
* Nothing drains the SQLite queue: `PeekBatch` and `Delete` have no caller. The
  queue may exceed `max_queue_rows`, by the bound proved above.
* `sensor_health` is written and read by no program.

Server:

* A response that is committed before the backend's own commit of `published` is
  overwritten, and the sweep then says `timeout` (`commands.py:87`; the simulation
  guide, line 222, promises `executed`) (`lateCommit`).
* The last will is retained: a restarted worker gets it again and stamps a gateway
  that left long ago as seen now (`state.py:45`) (`byWill`).
* A worker whose broker connection breaks keeps running without a consumer.
* Two grants that match, `view` and `admin` say, make `scalar_one_or_none` raise:
  the user gets 500 (`gateways.py:24`, `:35`).
* A gateway can be put on a site of another company.
* A row from the future blocks the partition job, all its months included,
  until the row is removed (`Blocked`).
* With a Keycloak that hangs, the time between two WATCHDOG=1 can reach
  10 s + 15 s for each request of a burst, which exceeds `WatchdogSec=30` from two
  requests on. The bound is `WatchdogDelayBounded`, with `INTERVAL` and
  `FETCH_TIMEOUT` in seconds.
* `StartLimitIntervalSec` under `[Service]` is ignored by systemd since 230
  (`docs/reviews/00_OVERVIEW.md:141` has it as noted); the default interval then
  applies.
* `validate_security` only warns, though `auth.py:46` says it is enforced;
  `get_current_user` answers 403 for an unknown user where its docstring says 401;
  `kc_leeway_sec` is unused.
* Overlapping runs of `sim-seed.py` duplicate company, site and profile, which have
  no unique key (`overlapped`), and so does a POST of the API with the script's names.
* A run of `sim-seed.py` that found a channel may report success although a DELETE of
  the API took the channel before it committed (`removed`).
* A token whose header has a list for its `kid` gets 500, not 401: the TypeError of
  `jwks.py:58` or `:63` is caught nowhere. So does a command whose `expires_in_sec` is
  beyond a `timedelta` (`commands.py:48`, `schemas.py:170`).

## 6. Not modelled, and why

* Inside the modelled parts: malformed JSON (dropped before any effect), panics
  of handlers, SIGKILL and power loss of the agent in `Actuator` (the relay's
  state is then the hardware's), paho's resending of unacknowledged publishes,
  clock skew between gateway and server in `Presence`, the end of the agent's shutdown
  as a liveness property (`m.mu` is held over straight-line code only and every
  publish gives up after 5 s, so that nothing in a model could keep `main` from
  going on), the lock-free path of
  `gw_gpio_assert_safe_state` (one HAL call is one step), simulation mode of the
  sensors, multi-register reads, which no profile of the repository uses, the
  lengths of strings and the CHECK constraints of columns, the limit of the connection pool, the
  cryptography of tokens.
* `build_plan_pptx.py`: drawing calls with literal positions and text; it keeps no
  state beyond the slide it draws on, so there is nothing a property could relate.
* The telemetry queries of the API: each is one SELECT of what `TelemetryStore` keeps,
  within the last `hours`, and a gateway that has been quiet for longer shows a value
  and an empty chart.
* Configuration parsing, the synthetic data generator, the watchdog device, the
  R1124 stubs, installation scripts and the Modbus simulator: no state the
  properties depend on, or pure I/O.

## 7. Plan

Done, in the order of importance: relays (`HalGpio`, `Actuator`), commands
(`CommandLifecycle`), telemetry queue (`LocalQueue`), presence (`Presence`), the
sensor bus (`SensorPoll`), storage and partitions (`TelemetryStore`, `Partitions`,
`LatestRegister`), schema and seed (`Schema`, `Provision`), the API (`Registry`),
processes (`Services`), authentication (`Auth`), the plan (`PlanDocument`).

Every safety property of the runs is proved but the one about fixed text, the tables
of the repository; what is left to TLC is at the end of section 4.

Next, modelling: `HalThreads`, the HAL at the level of its locks, with the path of
`assert_safe_state` that goes on when `trylock` fails; an abstract gateway of a
command that `Actuator` implements and `CommandLifecycle` uses.
