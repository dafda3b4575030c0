---------------------------- MODULE TelemetryStore ----------------------------
(***************************************************************************)
(* From a telemetry message to the tables: dispatch and the handler of     *)
(* telemetry in the worker, its caches of ids (worker/handlers/__init__.py, *)
(* telemetry.py, _lookups.py), the tables telemetry and telemetry_latest   *)
(* with the partitions of Partitions, and the registrations and deletions  *)
(* of the API that make a cached id stale.                                 *)
(*                                                                         *)
(* One serial number is followed.  The broker may deliver any message at   *)
(* any time, repeatedly and in any order, with the timestamp of a gateway  *)
(* whose clock is wrong.  A tick is the unit in which _TTL_SEC is counted; *)
(* a cache entry carries its age instead of expires_at.  The handler is a  *)
(* step per await; its transaction is seen by others when it commits.      *)
(***************************************************************************)
EXTENDS Partitions, Sequences, FiniteSets

CONSTANTS Slugs,     \* sensor_channel_id in messages
          Keys,      \* measurement_key in messages
          Payloads,  \* field values of messages: sequences of value records
          TTL,       \* _TTL_SEC in ticks
          MaxSelect, \* bound: ticks that a SELECT of _lookups.py takes
          MaxSkew,   \* bound: months by which a gateway's clock is off
          MaxIds,    \* bound: gateways and channels created
          MaxRows    \* bound: distinct rows of telemetry

\* An id that no row has, a slug or key that a value lacks, no timestamp.
None == 0
NoSlug == "no slug"
NoKey == "no key"
NoStamp == "no timestamp"

Ids == 1..MaxIds

ASSUME StoreAssumption ==
    /\ NoSlug \notin Slugs
    /\ NoKey \notin Keys
    /\ Payloads \subseteq Seq([slug : Slugs \cup {NoSlug}, key : Keys \cup {NoKey},
                               value : Int])
    /\ TTL \in Nat
    /\ MaxSelect \in Nat
    /\ MaxSkew \in Nat
    /\ MaxIds \in Nat
    /\ MaxRows \in Nat

VARIABLES
    gateway,    \* id of the row of gateways with the serial number, or None
    channel,    \* [Slugs -> id]: the rows of sensor_channels of that gateway
    lastId,     \* ids handed out so far (uuid4: none is handed out twice)
    gwCache,    \* _gateway_cache[serial]
    chCache,    \* _sensor_channel_cache
    lookup,     \* NoLookup, or what a lookup's SELECT returned and is not cached yet
    job,        \* NoJob, or the message in the handler's hands
    telemetry,  \* rows of telemetry (rows that are alike count once)
    latest      \* rows of telemetry_latest
\* History, read by no action of the code: ticks since the rows last changed.
VARIABLES gwChanged, chChanged

tableVars == <<gateway, channel, lastId>>
cacheVars == <<gwCache, chCache, lookup>>
storeVars == <<telemetry, latest>>
histVars  == <<gwChanged, chChanged>>
vars == <<tableVars, cacheVars, job, storeVars, histVars, partitionVars>>

ChannelKeys == Ids \X Slugs
Rows == [gw : Ids, ch : Ids, key : Keys, ts : Months, value : Int]

NoJob == [pc |-> "idle"]
NoLookup == [found |-> None, waited |-> MaxSelect + 1]
NoEntry == [id |-> None, age |-> TTL + 1]
Lookups == [found : Ids \cup {None}, waited : 0..MaxSelect] \cup {NoLookup}
Entries == [id : Ids \cup {None}, age : 0..TTL] \cup {NoEntry}

\* A time that is past for every entry.
Past == TTL + MaxSelect + 1

\* SELECT id FROM sensor_channels WHERE gateway_id = g AND slug = s.
ChannelRow(k) == IF gateway = k[1] THEN channel[k[2]] ELSE None

Init ==
    /\ gateway = None
    /\ channel = [s \in Slugs |-> None]
    /\ lastId = 0
    /\ gwCache = NoEntry
    /\ chCache = [k \in ChannelKeys |-> NoEntry]
    /\ lookup = NoLookup
    /\ job = NoJob
    /\ telemetry = {}
    /\ latest = {}
    /\ gwChanged = Past
    /\ chChanged = [k \in ChannelKeys |-> Past]
    /\ PartitionsInit
-------------------------------------------------------------------------------
(* _lookups.py *)

\* An entry is there, or the SELECT that replaces it has returned: between it and
\* the entry that it makes lies an await, during which the row may change.
Ready(entry) == entry # NoEntry \/ lookup # NoLookup

Selects(entry, row) ==
    /\ ~Ready(entry)
    /\ lookup' = [found |-> row, waited |-> 0]

\* What a lookup returns: the entry, None included, unless there is none.
Found(entry, row) == IF entry # NoEntry THEN entry.id ELSE row

\* Mutant of Remembered: a hit starts the entry's time again.
RememberedOnHit(entry, row) == [id |-> Found(entry, row), age |-> 0]

\* What it leaves in the cache: a hit keeps its expires_at.
Remembered(entry, row) ==
    IF entry # NoEntry THEN entry ELSE [id |-> row, age |-> 0]

\* A tick later; _expired is expires_at < now, so an entry lives TTL ticks.
Aged(entry) ==
    IF entry.age < TTL THEN [entry EXCEPT !.age = @ + 1] ELSE NoEntry
-------------------------------------------------------------------------------
(* dispatch and telemetry.handle *)

\* Timestamps that gateways send: their clocks are off by MaxSkew at most.
Stamps ==
    {t \in ({today[1] - 1, today[1], today[1] + 1} \cap Nat) \X (1..12) :
        Ordinal(t) - Ordinal(today) \in -MaxSkew..MaxSkew}

\* parse_iso8601: no timestamp is taken for the server's time.
ParseIso8601(s) == IF s = NoStamp THEN today ELSE s

\* A message has arrived and its serial number is not cached.  (Which message it
\* is matters in Receive only.)
SelectGateway ==
    /\ job = NoJob
    /\ Selects(gwCache, gateway)
    /\ UNCHANGED <<tableVars, gwCache, chCache, job, storeVars, histVars, partitionVars>>

\* dispatch: the serial number becomes an id, or the message is dropped; a
\* message without values goes no further either.
Receive ==
    /\ job = NoJob
    /\ Ready(gwCache)
    /\ \E s \in Stamps \cup {NoStamp}, p \in Payloads :
         LET g == Found(gwCache, lookup.found) IN
         job' = IF g = None \/ p = <<>> THEN NoJob
                ELSE [pc |-> "load", gw |-> g, ts |-> ParseIso8601(s), todo |-> p]
    /\ gwCache' = Remembered(gwCache, lookup.found)
    /\ lookup' = NoLookup
    /\ UNCHANGED <<tableVars, chCache, storeVars, histVars, partitionVars>>

\* session.get(Gateway): the row may be gone although the cache knows it.
LoadGateway ==
    /\ job.pc = "load"
    /\ job' = IF gateway # job.gw THEN NoJob
              ELSE [pc |-> "values", gw |-> job.gw, ts |-> job.ts,
                    todo |-> job.todo, rows |-> {}, latest |-> latest]
    /\ UNCHANGED <<tableVars, cacheVars, storeVars, histVars, partitionVars>>

SameKey(x, y) == x.gw = y.gw /\ x.ch = y.ch /\ x.key = y.key

\* Mutant of Upsert: DO UPDATE without its WHERE.
UpsertAlways(table, r) == {x \in table : ~SameKey(x, r)} \cup {r}

\* INSERT ... ON CONFLICT DO UPDATE ... WHERE telemetry_latest.ts < excluded.ts.
Upsert(table, r) ==
    IF \E x \in table : SameKey(x, r) /\ ~Before(x.ts, r.ts) THEN table
    ELSE {x \in table : ~SameKey(x, r)} \cup {r}

\* The slug of the next value, which is not cached.
SelectChannel ==
    /\ job.pc = "values"
    /\ job.todo # <<>>
    /\ LET k == <<job.gw, Head(job.todo).slug>> IN
        k[2] # NoSlug /\ Selects(chCache[k], ChannelRow(k))
    /\ UNCHANGED <<tableVars, gwCache, chCache, job, storeVars, histVars, partitionVars>>

\* The next value: its slug becomes an id, then it is added to telemetry and to
\* telemetry_latest within the transaction.
StoreValue ==
    /\ job.pc = "values"
    /\ job.todo # <<>>
    /\ LET v == Head(job.todo)
           k == <<job.gw, v.slug>>
           c == IF v.slug = NoSlug THEN None ELSE Found(chCache[k], lookup.found)
           r == [gw |-> job.gw, ch |-> c, key |-> v.key, ts |-> job.ts,
                 value |-> v.value]
       IN  /\ v.slug = NoSlug \/ Ready(chCache[k])
           /\ chCache' = IF v.slug = NoSlug THEN chCache
                         ELSE [chCache EXCEPT ![k] = Remembered(@, lookup.found)]
           /\ job' = IF c = None \/ v.key = NoKey
                     THEN [job EXCEPT !.todo = Tail(@)]
                     ELSE [job EXCEPT !.todo = Tail(@), !.rows = @ \cup {r},
                                      !.latest = Upsert(@, r)]
    /\ lookup' = NoLookup
    /\ UNCHANGED <<tableVars, gwCache, storeVars, histVars, partitionVars>>

\* The transaction commits.  (A gateway deleted meanwhile makes the UPDATE of its
\* row fail, DispatchFails, unless a repeated message left nothing to update.)
Commit ==
    /\ job.pc = "values"
    /\ job.todo = <<>>
    /\ Cardinality(telemetry \cup job.rows) <= MaxRows
    /\ telemetry' = telemetry \cup job.rows
    /\ latest' = job.latest
    /\ RouteRows({r.ts : r \in job.rows})
    /\ job' = NoJob
    /\ UNCHANGED <<tableVars, cacheVars, histVars>>

\* A statement or the commit raises: the session rolls back, the consumer logs
\* the error and takes the next message.
DispatchFails ==
    /\ job # NoJob \/ lookup # NoLookup
    /\ job' = NoJob
    /\ lookup' = NoLookup
    /\ UNCHANGED <<tableVars, gwCache, chCache, storeVars, histVars, partitionVars>>

\* The worker process is started again: the caches are empty, the message lost.
WorkerRestarts ==
    /\ job' = NoJob
    /\ gwCache' = NoEntry
    /\ chCache' = [k \in ChannelKeys |-> NoEntry]
    /\ lookup' = NoLookup
    /\ UNCHANGED <<tableVars, storeVars, histVars, partitionVars>>
-------------------------------------------------------------------------------
(* the API (module Registry has the whole of it) and the clock *)

RegisterGateway ==
    /\ gateway = None
    /\ lastId < MaxIds
    /\ lastId' = lastId + 1
    /\ gateway' = lastId + 1
    /\ gwChanged' = 0
    /\ UNCHANGED <<channel, cacheVars, job, storeVars, chChanged, partitionVars>>

\* Its channels go with it, its rows of telemetry stay: they have no foreign key.
DeleteGateway ==
    /\ gateway # None
    /\ gateway' = None
    /\ channel' = [s \in Slugs |-> None]
    /\ gwChanged' = 0
    /\ chChanged' = [k \in ChannelKeys |-> IF ChannelRow(k) # None THEN 0
                                           ELSE chChanged[k]]
    /\ UNCHANGED <<lastId, cacheVars, job, storeVars, partitionVars>>

AddChannel(s) ==
    /\ gateway # None
    /\ channel[s] = None
    /\ lastId < MaxIds
    /\ lastId' = lastId + 1
    /\ channel' = [channel EXCEPT ![s] = lastId + 1]
    /\ chChanged' = [chChanged EXCEPT ![<<gateway, s>>] = 0]
    /\ UNCHANGED <<gateway, cacheVars, job, storeVars, gwChanged, partitionVars>>

DeleteChannel(s) ==
    /\ channel[s] # None
    /\ channel' = [channel EXCEPT ![s] = None]
    /\ chChanged' = [chChanged EXCEPT ![<<gateway, s>>] = 0]
    /\ UNCHANGED <<gateway, lastId, cacheVars, job, storeVars, gwChanged,
                   partitionVars>>

Later(age) == IF age < Past THEN age + 1 ELSE age

Tick ==
    /\ IF lookup = NoLookup THEN UNCHANGED lookup
       ELSE lookup.waited < MaxSelect /\ lookup' = [lookup EXCEPT !.waited = @ + 1]
    /\ gwCache' = Aged(gwCache)
    /\ chCache' = [k \in ChannelKeys |-> Aged(chCache[k])]
    /\ gwChanged' = Later(gwChanged)
    /\ chChanged' = [k \in ChannelKeys |-> Later(chChanged[k])]
    /\ UNCHANGED <<tableVars, job, storeVars, partitionVars>>

\* A month is longer than any entry lives and than any message is worked on.
MonthTurns ==
    /\ job = NoJob
    /\ lookup = NoLookup
    /\ MonthPasses
    /\ gwCache' = NoEntry
    /\ chCache' = [k \in ChannelKeys |-> NoEntry]
    /\ gwChanged' = Past
    /\ chChanged' = [k \in ChannelKeys |-> Past]
    /\ UNCHANGED <<tableVars, lookup, job, storeVars>>

PartitionJob ==
    /\ RunPartitionManager
    /\ UNCHANGED <<tableVars, cacheVars, job, storeVars, histVars>>

Next ==
    \/ SelectGateway \/ Receive \/ LoadGateway \/ SelectChannel \/ StoreValue \/ Commit
    \/ DispatchFails \/ WorkerRestarts
    \/ RegisterGateway \/ DeleteGateway
    \/ \E s \in Slugs : AddChannel(s) \/ DeleteChannel(s)
    \/ Tick \/ MonthTurns \/ PartitionJob

Spec == Init /\ [][Next]_vars

\* _tick survives every exception, so the job is run for ever.
FairSpec == Spec /\ WF_vars(PartitionJob)
-------------------------------------------------------------------------------
Jobs ==
    {NoJob}
    \cup [pc : {"load"}, gw : Ids, ts : Months, todo : Seq(UNION {{p[i] : i \in DOMAIN p} : p \in Payloads})]
    \cup [pc : {"values"}, gw : Ids, ts : Months,
          todo : Seq(UNION {{p[i] : i \in DOMAIN p} : p \in Payloads}),
          rows : SUBSET Rows, latest : SUBSET Rows]

\* The variables have their types, and no id is in use before it is handed out.
TypeOK ==
    /\ lastId \in 0..MaxIds
    /\ gateway \in 0..lastId
    /\ channel \in [Slugs -> 0..lastId]
    /\ gateway = None => channel = [s \in Slugs |-> None]
    /\ gwCache \in Entries
    /\ chCache \in [ChannelKeys -> Entries]
    /\ lookup \in Lookups
    /\ job \in Jobs
    /\ telemetry \subseteq Rows
    /\ latest \subseteq Rows
    /\ gwChanged \in 0..Past
    /\ chChanged \in [ChannelKeys -> 0..Past]
    /\ PartitionsTypeOK

\* A cached id that differs from the table is younger than _TTL_SEC, and was read
\* before the row changed or by the SELECT that was under way: a gateway or channel
\* that is registered, deleted or created anew is misjudged for _TTL_SEC and the time
\* of one SELECT at most, whatever is looked up between.
StaleOnlyBriefly ==
    /\ gwCache # NoEntry /\ gwCache.id # gateway => gwChanged <= gwCache.age + MaxSelect
    /\ \A k \in ChannelKeys :
         chCache[k] # NoEntry /\ chCache[k].id # ChannelRow(k) =>
             chChanged[k] <= chCache[k].age + MaxSelect

Newest(table, rows) ==
    /\ table \subseteq rows
    /\ \A r \in rows : \E x \in table : SameKey(x, r) /\ ~Before(x.ts, r.ts)
    /\ \A x, y \in table : SameKey(x, y) => x = y

\* telemetry_latest is, at every moment, one newest row of telemetry per gateway,
\* channel and key: late and repeated messages do not disturb it.
LatestIsNewest == Newest(latest, telemetry)

\* telemetry_latest implements the register that a dashboard expects.
Register == INSTANCE LatestRegister WITH
    shown <- {[key |-> <<r.gw, r.ch, r.key>>, at |-> Ordinal(r.ts),
               value |-> r.value] : r \in latest}

\* The dashboard's view of telemetry_latest behaves like the abstract register.
ImplementsRegister == Register!Spec

\* Sooner or later the window of partitions is complete and stays so, unless
\* rows from the future have blocked it.
WindowCompleteUnlessBlocked == <>[](Window(today) \subseteq parts \/ Blocked)
===============================================================================
