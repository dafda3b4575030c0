------------------------ MODULE TelemetryStore_proofs ------------------------
(***************************************************************************)
(* A stale id is used for _TTL_SEC and the time of one SELECT at most;     *)
(* telemetry_latest is the newest of telemetry, and it implements the      *)
(* register of LatestRegister; the partition manager's loop visits the     *)
(* months it should, and every month has one place for its rows: for any   *)
(* payloads, any order of messages, any look-ahead and any bound.          *)
(***************************************************************************)
EXTENDS TelemetryStore, SequenceTheorems, WellFoundedInduction, TLAPS

PayloadValues == UNION {{p[i] : i \in DOMAIN p} : p \in Payloads}
LoadJobs == [pc : {"load"}, gw : Ids, ts : Months, todo : Seq(PayloadValues)]
ValuesJobs == [pc : {"values"}, gw : Ids, ts : Months, todo : Seq(PayloadValues),
               rows : SUBSET Rows, latest : SUBSET Rows]
RealEntries == [id : Ids \cup {None}, age : 0..TTL]

\* TypeOK without the partitions.
StoreType ==
    /\ lastId \in 0..MaxIds
    /\ gateway \in 0..lastId
    /\ channel \in [Slugs -> 0..lastId]
    /\ gateway = None => channel = [s \in Slugs |-> None]
    /\ gwCache \in Entries
    /\ chCache \in [ChannelKeys -> Entries]
    /\ lookup \in Lookups
    /\ job \in {NoJob} \cup LoadJobs \cup ValuesJobs
    /\ telemetry \subseteq Rows
    /\ latest \subseteq Rows
    /\ gwChanged \in 0..Past
    /\ chChanged \in [ChannelKeys -> 0..Past]
    /\ today \in Months

-------------------------------------------------------------------------------
(* the loop over months *)

\* The month with the ordinal n.
MonthAt(n) == <<(n - 1) \div 12, ((n - 1) % 12) + 1>>

\* Ordinals number the months, and NextMonth is the next of them.
LEMMA MonthNumbers ==
    /\ \A n \in Nat \ {0} : /\ MonthAt(n) \in Months
                            /\ NextMonth(MonthAt(n)) = MonthAt(n + 1)
                            /\ Ordinal(MonthAt(n)) = n
    /\ \A t \in Months : MonthAt(Ordinal(t)) = t /\ Ordinal(t) \in Nat \ {0}
BY DEF MonthAt, Months, NextMonth, Ordinal

\* A set of numbers that is not empty has a least one: what induction needs.
LEMMA LeastNumber ==
    ASSUME NEW T, T \subseteq Nat, T # {}
    PROVE  \E n \in T : \A m \in T : n <= m
<1>1. \E n \in T : \A m \in T : ~(<<m, n>> \in OpToRel(<, Nat))
  BY WFMin, NatLessThanWellFounded, Zenon
<1>2. PICK n \in T : \A m \in T : ~(<<m, n>> \in OpToRel(<, Nat))
  BY <1>1
<1>3. ASSUME NEW m \in T PROVE n <= m
  <2>1. n \in Nat /\ m \in Nat
    OBVIOUS
  <2>2. ~(m < n)
    BY <1>2, <2>1 DEF OpToRel
  <2> QED
    BY <2>1, <2>2
<1> QED
  BY <1>3

\* The recursive definition of the loop is met by some function, the one that counts
\* months on from ym, and so by Visited.
LEMMA VisitedEquation ==
    ASSUME NEW ym \in Months
    PROVE  Visited(ym) = [i \in Nat |-> IF i = 0 THEN ym ELSE NextMonth(Visited(ym)[i - 1])]
<1> DEFINE g == [i \in Nat |-> MonthAt(Ordinal(ym) + i)]
<1>1. ASSUME NEW i \in Nat PROVE g[i] = IF i = 0 THEN ym ELSE NextMonth(g[i - 1])
  <2>1. CASE i = 0
    BY <2>1, MonthNumbers
  <2>2. CASE i # 0
    <3>1. /\ i - 1 \in Nat
          /\ Ordinal(ym) + (i - 1) \in Nat \ {0}
          /\ (Ordinal(ym) + (i - 1)) + 1 = Ordinal(ym) + i
      BY <2>2, MonthNumbers
    <3>2. NextMonth(MonthAt(Ordinal(ym) + (i - 1))) = MonthAt(Ordinal(ym) + i)
      BY <3>1, MonthNumbers
    <3> QED
      BY <2>2, <3>1, <3>2
  <2> QED
    BY <2>1, <2>2
<1>2. g = [i \in Nat |-> IF i = 0 THEN ym ELSE NextMonth(g[i - 1])]
  BY <1>1
<1>3. \E f : f = [i \in Nat |-> IF i = 0 THEN ym ELSE NextMonth(f[i - 1])]
  BY <1>2
<1> QED
  BY <1>3, Zenon DEF Visited

\* The passes of the loop visit the months in order, by induction on the pass.
LEMMA VisitedMonths ==
    ASSUME NEW ym \in Months
    PROVE  \A i \in Nat : Visited(ym)[i] = MonthAt(Ordinal(ym) + i)
<1> DEFINE v == Visited(ym)
           Wrong == {i \in Nat : v[i] # MonthAt(Ordinal(ym) + i)}
<1>1. \A i \in Nat : v[i] = IF i = 0 THEN ym ELSE NextMonth(v[i - 1])
  BY VisitedEquation
<1> HIDE DEF v
<1>2. SUFFICES ASSUME Wrong # {} PROVE FALSE
  BY DEF v
<1>3. PICK n \in Wrong : \A m \in Wrong : n <= m
  <2>1. Wrong \subseteq Nat
    OBVIOUS
  <2> HIDE DEF Wrong
  <2> QED
    BY <1>2, <2>1, LeastNumber
<1>4. n \in Nat /\ v[n] # MonthAt(Ordinal(ym) + n)
  OBVIOUS
<1>5. CASE n = 0
  BY <1>1, <1>4, <1>5, MonthNumbers
<1>6. CASE n # 0
  <2>1. /\ n - 1 \in Nat
        /\ Ordinal(ym) + (n - 1) \in Nat \ {0}
        /\ (Ordinal(ym) + (n - 1)) + 1 = Ordinal(ym) + n
    BY <1>4, <1>6, MonthNumbers
  <2>2. v[n - 1] = MonthAt(Ordinal(ym) + (n - 1))
    BY <1>3, <1>6, <2>1
  <2> QED
    BY <1>1, <1>4, <1>6, <2>1, <2>2, MonthNumbers
<1> QED
  BY <1>5, <1>6

\* The loop of partition_manager.run, over the turn of any year, visits today's month
\* and the LOOKAHEAD_MONTHS - 1 that follow it: no other, and none is missed.
THEOREM WindowIsLookahead ==
    ASSUME NEW ym \in Months
    PROVE  Window(ym) = {t \in Months : /\ Ordinal(ym) <= Ordinal(t)
                                        /\ Ordinal(t) < Ordinal(ym) + LOOKAHEAD_MONTHS}
<1> DEFINE Ahead == {t \in Months : /\ Ordinal(ym) <= Ordinal(t)
                                    /\ Ordinal(t) < Ordinal(ym) + LOOKAHEAD_MONTHS}
<1>1. LOOKAHEAD_MONTHS \in Nat \ {0} /\ Ordinal(ym) \in Nat \ {0}
  BY PartitionsAssumption, MonthNumbers
<1>2. ASSUME NEW i \in 0..(LOOKAHEAD_MONTHS - 1) PROVE Visited(ym)[i] \in Ahead
  <2>1. i \in Nat /\ Ordinal(ym) + i \in Nat \ {0} /\ i < LOOKAHEAD_MONTHS
    BY <1>1
  <2>2. Visited(ym)[i] = MonthAt(Ordinal(ym) + i)
    BY <2>1, VisitedMonths
  <2>3. MonthAt(Ordinal(ym) + i) \in Months /\ Ordinal(MonthAt(Ordinal(ym) + i)) = Ordinal(ym) + i
    BY <2>1, MonthNumbers
  <2> QED
    BY <1>1, <2>1, <2>2, <2>3
<1>3. ASSUME NEW t \in Ahead PROVE \E i \in 0..(LOOKAHEAD_MONTHS - 1) : t = Visited(ym)[i]
  <2> DEFINE i == Ordinal(t) - Ordinal(ym)
  <2>1. Ordinal(t) \in Nat /\ MonthAt(Ordinal(t)) = t
    BY MonthNumbers
  <2>2. i \in 0..(LOOKAHEAD_MONTHS - 1) /\ i \in Nat /\ Ordinal(ym) + i = Ordinal(t)
    BY <1>1, <2>1
  <2>3. Visited(ym)[i] = t
    BY <2>1, <2>2, VisitedMonths
  <2> QED
    BY <2>2, <2>3
<1> HIDE DEF Ahead
<1>4. Window(ym) = Ahead
  BY <1>2, <1>3 DEF Window
<1> QED
  BY <1>4 DEF Ahead
-------------------------------------------------------------------------------
(* types *)

\* Payloads hold value records.
LEMMA PayloadType ==
    /\ PayloadValues \subseteq [slug : Slugs \cup {NoSlug}, key : Keys \cup {NoKey}, value : Int]
    /\ Payloads \subseteq Seq(PayloadValues)
<1> DEFINE V == [slug : Slugs \cup {NoSlug}, key : Keys \cup {NoKey}, value : Int]
<1>1. \A p \in Payloads : p \in Seq(V)
  BY StoreAssumption
<1> HIDE DEF V
<1>2. \A p \in Payloads : \A i \in DOMAIN p : p[i] \in V /\ p[i] \in PayloadValues
  BY <1>1 DEF PayloadValues
<1>3. PayloadValues \subseteq V
  BY <1>2 DEF PayloadValues
<1>4. ASSUME NEW p \in Payloads PROVE p \in Seq(PayloadValues)
  <2>1. p \in [1..Len(p) -> V] /\ Len(p) \in Nat
    BY <1>1
  <2>2. p \in [1..Len(p) -> PayloadValues]
    BY <1>2, <2>1
  <2> QED
    BY <2>1, <2>2
<1> QED
  BY <1>3, <1>4 DEF V

\* A job with values in its hands has the fields of one.
LEMMA JobCases ==
    ASSUME StoreType
    PROVE  /\ job.pc = "values" => job \in ValuesJobs
           /\ job.pc = "load" => job \in LoadJobs
<1>1. NoJob.pc = "idle" /\ \A j \in LoadJobs : j.pc = "load"
  BY DEF NoJob, LoadJobs
<1>2. \A j \in ValuesJobs : j.pc = "values"
  BY DEF ValuesJobs
<1> QED
  BY <1>1, <1>2 DEF StoreType

\* An entry is real unless its age says that there is none.
LEMMA EntryCases ==
    ASSUME NEW e \in Entries
    PROVE  /\ e # NoEntry => e \in RealEntries
           /\ e = NoEntry => e.age = TTL + 1 /\ e.id = None
           /\ e \in RealEntries => e.age \in 0..TTL /\ e.id \in Ids \cup {None} /\ e # NoEntry
BY StoreAssumption DEF Entries, NoEntry, RealEntries

\* What the caches do with an entry keeps its type.
LEMMA EntryTypes ==
    ASSUME NEW e \in Entries, NEW row \in Ids \cup {None}
    PROVE  /\ Remembered(e, row) \in Entries
           /\ Found(e, row) \in Ids \cup {None}
           /\ Aged(e) \in Entries
           /\ NoEntry \in Entries
<1>1. Remembered(e, row) \in Entries
  BY StoreAssumption DEF Remembered, Entries
<1>2. Found(e, row) \in Ids \cup {None}
  BY EntryCases DEF Found
<1>3. Aged(e) \in Entries
  <2>1. CASE e = NoEntry
    BY <2>1, EntryCases, StoreAssumption DEF Aged, Entries
  <2>2. CASE e \in RealEntries
    BY <2>2, StoreAssumption DEF Aged, Entries, RealEntries
  <2> QED
    BY <2>1, <2>2, EntryCases
<1> QED
  BY <1>1, <1>2, <1>3 DEF Entries

\* The months that follow or that a gateway may send.
LEMMA MonthTypes ==
    ASSUME today \in Months
    PROVE  NextMonth(today) \in Months /\ \A s \in Stamps \cup {NoStamp} : ParseIso8601(s) \in Months
<1>1. NextMonth(today) \in Months
  BY DEF Months, NextMonth
<1>2. Stamps \subseteq Months
  BY DEF Stamps, Months
<1> QED
  BY <1>1, <1>2 DEF ParseIso8601

\* The rows that the queries of the lookups see have ids.
LEMMA RowIds ==
    ASSUME StoreType
    PROVE  /\ gateway \in Ids \cup {None}
           /\ \A k \in ChannelKeys : ChannelRow(k) \in Ids \cup {None}
<1>1. 0..lastId \subseteq Ids \cup {None}
  BY StoreAssumption DEF StoreType, Ids, None
<1> QED
  BY <1>1 DEF StoreType, ChannelRow, ChannelKeys, None

\* A lookup that is not under way has found nothing.
LEMMA LookupCases ==
    ASSUME StoreType
    PROVE  /\ lookup.found \in Ids \cup {None}
           /\ lookup # NoLookup => lookup.waited \in 0..MaxSelect
BY StoreAssumption DEF StoreType, Lookups, NoLookup

\* A SELECT that starts returns an id or nothing.
LEMMA SelectsType ==
    ASSUME NEW e, NEW row \in Ids \cup {None}, Selects(e, row)
    PROVE  lookup' \in Lookups
BY StoreAssumption DEF Selects, Lookups

\* A tick of a SELECT.
LEMMA TickLookup == ASSUME StoreType, Tick PROVE lookup' \in Lookups
<1>1. CASE lookup = NoLookup
  BY <1>1 DEF Tick, StoreType
<1>2. CASE lookup # NoLookup
  <2>1. lookup \in [found : Ids \cup {None}, waited : 0..MaxSelect]
    BY <1>2 DEF StoreType, Lookups
  <2>2. lookup.waited < MaxSelect /\ lookup' = [lookup EXCEPT !.waited = @ + 1]
    BY <1>2 DEF Tick
  <2> QED
    BY <2>1, <2>2, StoreAssumption DEF Lookups
<1> QED
  BY <1>1, <1>2

\* An upsert adds at most its row.
LEMMA UpsertType ==
    ASSUME NEW T, NEW r PROVE Upsert(T, r) \subseteq T \cup {r}
BY DEF Upsert

\* StoreValue keeps the job's type.
LEMMA StoreValueType == ASSUME StoreType, StoreValue PROVE chCache' \in [ChannelKeys -> Entries] /\ job' \in ValuesJobs
<1> DEFINE v == Head(job.todo)
           k == <<job.gw, v.slug>>
           c == IF v.slug = NoSlug THEN None ELSE Found(chCache[k], lookup.found)
           r == [gw |-> job.gw, ch |-> c, key |-> v.key, ts |-> job.ts, value |-> v.value]
<1>1. job \in ValuesJobs /\ job.todo # <<>>
  BY JobCases DEF StoreValue
<1>2. /\ job.todo \in Seq(PayloadValues) /\ job.gw \in Ids /\ job.ts \in Months
      /\ job.rows \subseteq Rows /\ job.latest \subseteq Rows
  BY <1>1 DEF ValuesJobs
<1>3. v \in PayloadValues /\ Tail(job.todo) \in Seq(PayloadValues)
  BY <1>1, <1>2
<1>4. v.slug \in Slugs \cup {NoSlug} /\ v.key \in Keys \cup {NoKey} /\ v.value \in Int
  BY <1>3, PayloadType
<1>5. /\ lookup.found \in Ids \cup {None}
      /\ v.slug # NoSlug => k \in ChannelKeys /\ chCache[k] \in Entries
  BY <1>2, <1>4, LookupCases DEF StoreType, ChannelKeys
<1>6. c \in Ids \cup {None}
  BY <1>5, EntryTypes
<1>7. v.slug # NoSlug => Remembered(chCache[k], lookup.found) \in Entries
  BY <1>5, EntryTypes
<1>8. c # None /\ v.key # NoKey => r \in Rows
  BY <1>2, <1>4, <1>6 DEF Rows
<1>9. chCache' = IF v.slug = NoSlug THEN chCache
                 ELSE [chCache EXCEPT ![k] = Remembered(@, lookup.found)]
  BY DEF StoreValue
<1>10. job' = IF c = None \/ v.key = NoKey
              THEN [job EXCEPT !.todo = Tail(@)]
              ELSE [job EXCEPT !.todo = Tail(@), !.rows = @ \cup {r}, !.latest = Upsert(@, r)]
  BY DEF StoreValue
<1>11. Upsert(job.latest, r) \subseteq job.latest \cup {r}
  BY UpsertType
<1> HIDE DEF v, k, c, r
<1>12. chCache' \in [ChannelKeys -> Entries]
  BY <1>5, <1>7, <1>9 DEF StoreType
<1>13. CASE c = None \/ v.key = NoKey
  BY <1>1, <1>3, <1>10, <1>12, <1>13 DEF ValuesJobs
<1>14. CASE ~(c = None \/ v.key = NoKey)
  <2>1. job.rows \cup {r} \in SUBSET Rows /\ Upsert(job.latest, r) \in SUBSET Rows
    BY <1>2, <1>8, <1>11, <1>14
  <2>2. job' = [job EXCEPT !.todo = Tail(job.todo), !.rows = job.rows \cup {r},
                           !.latest = Upsert(job.latest, r)]
    BY <1>10, <1>14
  <2> QED
    BY <1>1, <1>3, <1>12, <2>1, <2>2 DEF ValuesJobs
<1> QED
  BY <1>13, <1>14

\* The key of the next value's channel.
LEMMA NextKey ==
    ASSUME StoreType, job.pc = "values", job.todo # <<>>, Head(job.todo).slug # NoSlug
    PROVE  <<job.gw, Head(job.todo).slug>> \in ChannelKeys
<1>1. job.todo \in Seq(PayloadValues) /\ job.gw \in Ids
  BY JobCases DEF ValuesJobs
<1>2. Head(job.todo) \in PayloadValues
  BY <1>1
<1> QED
  BY <1>1, <1>2, PayloadType DEF ChannelKeys

\* A function stays in its set when a value of the range is put into it.
LEMMA ExceptType ==
    ASSUME NEW S, NEW T, NEW f \in [S -> T], NEW x, NEW y \in T
    PROVE  [f EXCEPT ![x] = y] \in [S -> T]
OBVIOUS

\* The types are preserved.
LEMMA TypeStep == ASSUME StoreType, [Next]_vars PROVE StoreType'
<1> USE DEF StoreType
<1> USE StoreAssumption
<1>0. 0 \in 0..Past /\ Past \in 0..Past /\ Past \in Nat /\ NoLookup \in Lookups
  BY DEF Past, Lookups
<1>1. CASE Receive
  <2>1. gwCache' \in Entries /\ Found(gwCache, lookup.found) \in Ids \cup {None}
    BY <1>1, LookupCases, EntryTypes DEF Receive
  <2>2. PICK s \in Stamps \cup {NoStamp}, p \in Payloads :
          job' = IF Found(gwCache, lookup.found) = None \/ p = <<>> THEN NoJob
                 ELSE [pc |-> "load", gw |-> Found(gwCache, lookup.found), ts |-> ParseIso8601(s),
                       todo |-> p]
    BY <1>1 DEF Receive
  <2>3. ParseIso8601(s) \in Months /\ p \in Seq(PayloadValues)
    BY MonthTypes, PayloadType
  <2>4. job' \in {NoJob} \cup LoadJobs
    BY <2>1, <2>2, <2>3 DEF LoadJobs
  <2> QED
    BY <1>0, <1>1, <2>1, <2>4 DEF Receive, tableVars, storeVars, histVars, partitionVars
<1>2. CASE LoadGateway
  <2>1. job \in LoadJobs
    BY <1>2, JobCases DEF LoadGateway
  <2>2. job' \in {NoJob} \cup ValuesJobs
    BY <1>2, <2>1 DEF LoadGateway, LoadJobs, ValuesJobs
  <2> QED
    BY <1>2, <2>2 DEF LoadGateway, tableVars, cacheVars, storeVars, histVars, partitionVars
<1>3. CASE StoreValue
  BY <1>0, <1>3, StoreValueType DEF StoreValue, tableVars, storeVars, histVars, partitionVars
<1>4. CASE Commit
  <2>1. job \in ValuesJobs
    BY <1>4, JobCases DEF Commit
  <2>2. job.rows \subseteq Rows /\ job.latest \subseteq Rows
    BY <2>1 DEF ValuesJobs
  <2> QED
    BY <1>4, <2>2 DEF Commit, tableVars, cacheVars, histVars, RouteRows
<1>5. CASE DispatchFails
  BY <1>0, <1>5 DEF DispatchFails, tableVars, storeVars, histVars, partitionVars
<1>6. CASE WorkerRestarts
  BY <1>0, <1>6 DEF WorkerRestarts, tableVars, storeVars, histVars, partitionVars, Entries
<1>7. CASE RegisterGateway
  BY <1>0, <1>7 DEF RegisterGateway, cacheVars, storeVars, partitionVars, None
<1>8. CASE DeleteGateway
  <2>1. channel' \in [Slugs -> 0..lastId]
    BY <1>8 DEF DeleteGateway, None
  <2>2. chChanged' \in [ChannelKeys -> 0..Past]
    BY <1>0, <1>8 DEF DeleteGateway
  <2> QED
    BY <1>0, <1>8, <2>1, <2>2 DEF DeleteGateway, cacheVars, storeVars, partitionVars, None
<1>9. ASSUME NEW s \in Slugs, AddChannel(s) PROVE StoreType'
  <2>1. channel' \in [Slugs -> 0..lastId']
    BY <1>9 DEF AddChannel
  <2>2. chChanged' \in [ChannelKeys -> 0..Past]
    <3>1. chChanged' = [chChanged EXCEPT ![<<gateway, s>>] = 0]
      BY <1>9 DEF AddChannel
    <3>2. [chChanged EXCEPT ![<<gateway, s>>] = 0] \in [ChannelKeys -> 0..Past]
      BY <1>0, ExceptType, Zenon
    <3> QED
      BY <3>1, <3>2, Zenon
  <2>3. lastId' \in 0..MaxIds /\ gateway' \in 0..lastId'
    BY <1>9 DEF AddChannel
  <2> QED
    BY <1>9, <2>1, <2>2, <2>3 DEF AddChannel, cacheVars, storeVars, partitionVars
<1>10. ASSUME NEW s \in Slugs, DeleteChannel(s) PROVE StoreType'
  <2>1. channel' \in [Slugs -> 0..lastId]
    BY <1>10 DEF DeleteChannel, None
  <2>2. chChanged' \in [ChannelKeys -> 0..Past]
    <3>1. chChanged' = [chChanged EXCEPT ![<<gateway, s>>] = 0]
      BY <1>10 DEF DeleteChannel
    <3>2. [chChanged EXCEPT ![<<gateway, s>>] = 0] \in [ChannelKeys -> 0..Past]
      BY <1>0, ExceptType, Zenon
    <3> QED
      BY <3>1, <3>2, Zenon
  <2> QED
    BY <1>10, <2>1, <2>2 DEF DeleteChannel, cacheVars, storeVars, partitionVars
<1>11. CASE Tick
  <2>1. gwCache' \in Entries /\ chCache' \in [ChannelKeys -> Entries]
    BY <1>11, EntryTypes DEF Tick, None
  <2>2. gwChanged' \in 0..Past /\ chChanged' \in [ChannelKeys -> 0..Past]
    BY <1>0, <1>11 DEF Tick, Later
  <2>3. lookup' \in Lookups
    BY <1>11, TickLookup
  <2> QED
    BY <1>11, <2>1, <2>2, <2>3 DEF Tick, tableVars, storeVars, partitionVars
<1>12. CASE MonthTurns
  BY <1>0, <1>12, MonthTypes DEF MonthTurns, MonthPasses, tableVars, storeVars, Entries
<1>13. CASE PartitionJob
  BY <1>13 DEF PartitionJob, RunPartitionManager, tableVars, cacheVars, storeVars, histVars
<1>14. CASE UNCHANGED vars
  BY <1>14 DEF vars, tableVars, cacheVars, storeVars, histVars, partitionVars
<1>15. CASE SelectGateway
  <2>1. lookup' \in Lookups
    BY <1>15, RowIds, SelectsType DEF SelectGateway
  <2> QED
    BY <1>15, <2>1 DEF SelectGateway, tableVars, storeVars, histVars, partitionVars
<1>16. CASE SelectChannel
  <2> DEFINE k == <<job.gw, Head(job.todo).slug>>
  <2>1. k \in ChannelKeys /\ ChannelRow(k) \in Ids \cup {None}
    BY <1>16, NextKey, RowIds DEF SelectChannel
  <2>2. Selects(chCache[k], ChannelRow(k))
    BY <1>16 DEF SelectChannel
  <2> HIDE DEF k
  <2>3. lookup' \in Lookups
    BY <2>1, <2>2, SelectsType
  <2> QED
    BY <1>16, <2>3 DEF SelectChannel, tableVars, storeVars, histVars, partitionVars
<1> QED
  BY <1>1, <1>2, <1>3, <1>4, <1>5, <1>6, <1>7, <1>8, <1>9, <1>10, <1>11, <1>12, <1>13, <1>14,
     <1>15, <1>16
  DEF Next
-------------------------------------------------------------------------------
(* stale entries *)

\* What StaleOnlyBriefly says of one entry.
Brief(entry, row, changed) ==
    entry # NoEntry /\ entry.id # row => changed <= entry.age + MaxSelect

\* What a SELECT found is right, or the row has changed since it was read.
Recent(row, changed) == lookup.found # row => changed <= lookup.waited

\* The lookup under way is that of the gateway, or of the next value's channel.
LookupInv ==
    lookup # NoLookup =>
        \/ job = NoJob /\ Recent(gateway, gwChanged)
        \/ /\ job.pc = "values" /\ job.todo # <<>>
           /\ LET k == <<job.gw, Head(job.todo).slug>> IN
                k \in ChannelKeys /\ Recent(ChannelRow(k), chChanged[k])

\* An entry made of a recent row is not stale for longer than the SELECT took.
LEMMA BriefRemembered ==
    ASSUME StoreType, NEW e \in Entries, NEW row, NEW ch \in 0..Past,
           Brief(e, row, ch), Ready(e), lookup # NoLookup => Recent(row, ch)
    PROVE  Brief(Remembered(e, lookup.found), row, ch)
<1>1. CASE e # NoEntry
  BY <1>1 DEF Remembered
<1>2. CASE e = NoEntry
  <2>1. lookup # NoLookup /\ Recent(row, ch)
    BY <1>2 DEF Ready
  <2>2. lookup.waited \in 0..MaxSelect /\ ch \in Nat
    BY <2>1, LookupCases, StoreAssumption DEF Past
  <2>3. Remembered(e, lookup.found) = [id |-> lookup.found, age |-> 0]
    BY <1>2 DEF Remembered
  <2> QED
    BY <2>1, <2>2, <2>3, StoreAssumption DEF Brief, Recent
<1> QED
  BY <1>1, <1>2

\* The clock keeps an entry's staleness brief.
LEMMA BriefAged ==
    ASSUME NEW e \in Entries, NEW row, NEW ch \in 0..Past, Brief(e, row, ch)
    PROVE  Brief(Aged(e), row, Later(ch))
<1>0. Past \in Nat /\ ch \in Nat /\ Later(ch) \in Nat /\ Later(ch) <= ch + 1
  BY StoreAssumption DEF Past, Later
<1>1. CASE e = NoEntry
  BY <1>1, EntryCases, StoreAssumption DEF Brief, Aged
<1>2. CASE e \in RealEntries /\ e.age < TTL
  <2>1. e.age \in 0..TTL /\ e # NoEntry
    BY <1>2, EntryCases
  <2>2. Aged(e).id = e.id /\ Aged(e).age = e.age + 1
    BY <1>2 DEF Aged, RealEntries
  <2> QED
    BY <1>0, <2>1, <2>2, StoreAssumption DEF Brief
<1>3. CASE e \in RealEntries /\ ~(e.age < TTL)
  BY <1>3 DEF Brief, Aged
<1> QED
  BY <1>1, <1>2, <1>3, EntryCases

\* An entry whose row has just changed, and no entry at all.
LEMMA BriefFresh ==
    ASSUME NEW e \in Entries, NEW row, NEW ch
    PROVE  Brief(e, row, 0) /\ Brief(NoEntry, row, ch)
<1>1. e # NoEntry => e.age \in 0..TTL
  BY EntryCases
<1> QED
  BY <1>1, StoreAssumption DEF Brief

\* StaleOnlyBriefly in terms of Brief.
LEMMA StaleIsBrief ==
    StaleOnlyBriefly <=>
        /\ Brief(gwCache, gateway, gwChanged)
        /\ \A k \in ChannelKeys : Brief(chCache[k], ChannelRow(k), chChanged[k])
BY DEF StaleOnlyBriefly, Brief

\* No step leaves a stale entry for long.
LEMMA StaleStep ==
    ASSUME StoreType, StaleOnlyBriefly, LookupInv, [Next]_vars
    PROVE  StaleOnlyBriefly'
<1> DEFINE GwBrief == Brief(gwCache, gateway, gwChanged)
           ChBrief == \A k \in ChannelKeys : Brief(chCache[k], ChannelRow(k), chChanged[k])
<1>1. GwBrief /\ ChBrief
  BY StaleIsBrief
<1>2. /\ gwCache \in Entries /\ gateway \in Ids \cup {None} /\ gwChanged \in 0..Past
      /\ \A k \in ChannelKeys : /\ chCache[k] \in Entries
                                /\ ChannelRow(k) \in Ids \cup {None}
                                /\ chChanged[k] \in 0..Past
  BY RowIds DEF StoreType
<1> SUFFICES GwBrief' /\ ChBrief'
  BY StaleIsBrief, PTL
<1>3. CASE Receive
  <2>1. gwCache' = Remembered(gwCache, lookup.found) /\ gateway' = gateway /\ gwChanged' = gwChanged
        /\ chCache' = chCache /\ channel' = channel /\ chChanged' = chChanged
        /\ job = NoJob /\ Ready(gwCache)
    BY <1>3 DEF Receive, tableVars, histVars
  <2>2. lookup # NoLookup => Recent(gateway, gwChanged)
    BY <2>1 DEF LookupInv, NoJob
  <2>3. Brief(gwCache', gateway', gwChanged')
    BY <1>1, <1>2, <2>1, <2>2, BriefRemembered
  <2> QED
    BY <1>1, <2>1, <2>3 DEF ChannelRow
<1>4. CASE StoreValue
  <2> DEFINE k == <<job.gw, Head(job.todo).slug>>
  <2>1. /\ gwCache' = gwCache /\ gateway' = gateway /\ gwChanged' = gwChanged
        /\ channel' = channel /\ chChanged' = chChanged
        /\ job.pc = "values"
        /\ \/ chCache' = chCache
           \/ Ready(chCache[k]) /\ chCache' = [chCache EXCEPT ![k] = Remembered(@, lookup.found)]
    BY <1>4 DEF StoreValue, tableVars, histVars
  <2>2. lookup # NoLookup => Recent(ChannelRow(k), chChanged[k])
    BY <2>1 DEF LookupInv, NoJob
  <2> HIDE DEF k
  <2>3. \A x \in ChannelKeys : \/ chCache'[x] = chCache[x]
                               \/ /\ x = k /\ Ready(chCache[x])
                                  /\ chCache'[x] = Remembered(chCache[x], lookup.found)
    BY <2>1 DEF StoreType
  <2>4. \A x \in ChannelKeys : ChannelRow(x)' = ChannelRow(x)
    BY <2>1 DEF ChannelRow
  <2>5. ASSUME NEW x \in ChannelKeys PROVE Brief(chCache'[x], ChannelRow(x), chChanged[x])
    <3>1. CASE chCache'[x] = chCache[x]
      BY <1>1, <3>1
    <3>2. CASE /\ x = k /\ Ready(chCache[x])
               /\ chCache'[x] = Remembered(chCache[x], lookup.found)
      BY <1>1, <1>2, <2>2, <3>2, BriefRemembered
    <3> QED
      BY <2>3, <3>1, <3>2
  <2> QED
    BY <1>1, <2>1, <2>4, <2>5
<1>5. CASE WorkerRestarts
  <2>1. /\ gwCache' = NoEntry /\ \A k \in ChannelKeys : chCache'[k] = NoEntry
    BY <1>5 DEF WorkerRestarts
  <2> QED
    BY <1>2, <2>1, BriefFresh
<1>6. CASE RegisterGateway
  <2>1. /\ gwCache' = gwCache /\ gwChanged' = 0
        /\ chCache' = chCache /\ chChanged' = chChanged /\ channel' = channel
        /\ gateway = None
    BY <1>6 DEF RegisterGateway, cacheVars
  <2>2. \A k \in ChannelKeys : ChannelRow(k)' = ChannelRow(k)
    BY <1>6, <2>1 DEF ChannelRow, RegisterGateway, StoreType, ChannelKeys, Ids, None
  <2> QED
    BY <1>1, <1>2, <2>1, <2>2, BriefFresh
<1>7. CASE DeleteGateway
  <2>1. /\ gwCache' = gwCache /\ gwChanged' = 0 /\ gateway' = None
        /\ chCache' = chCache
        /\ \A k \in ChannelKeys : chChanged'[k] = IF ChannelRow(k) # None THEN 0 ELSE chChanged[k]
    BY <1>7 DEF DeleteGateway, cacheVars
  <2>2. \A k \in ChannelKeys : ChannelRow(k)' = None
    BY <1>7, <2>1 DEF ChannelRow, ChannelKeys, DeleteGateway, Ids, None
  <2>3. \A k \in ChannelKeys : Brief(chCache[k], None, chChanged'[k])
    BY <1>1, <1>2, <2>1, BriefFresh
  <2> QED
    BY <1>2, <2>1, <2>2, <2>3, BriefFresh
<1>8. ASSUME NEW s \in Slugs, AddChannel(s) \/ DeleteChannel(s) PROVE GwBrief' /\ ChBrief'
  <2>1. /\ gwCache' = gwCache /\ gwChanged' = gwChanged /\ gateway' = gateway
        /\ chCache' = chCache
        /\ \A x \in Slugs : x # s => channel'[x] = channel[x]
    BY <1>8 DEF AddChannel, DeleteChannel, cacheVars, StoreType
  <2> DEFINE key == <<gateway, s>>
  <2>2. chChanged' = [chChanged EXCEPT ![key] = 0]
    BY <1>8 DEF AddChannel, DeleteChannel
  <2>3. \A k \in ChannelKeys : k # key => ChannelRow(k)' = ChannelRow(k)
    BY <2>1 DEF ChannelRow, ChannelKeys
  <2> HIDE DEF key
  <2>4. \A k \in ChannelKeys : chChanged'[k] = IF k = key THEN 0 ELSE chChanged[k]
    BY <2>2 DEF StoreType
  <2>5. ASSUME NEW k \in ChannelKeys PROVE Brief(chCache[k], ChannelRow(k)', chChanged'[k])
    <3>1. CASE k = key
      BY <1>2, <2>4, <3>1, BriefFresh
    <3>2. CASE k # key
      BY <1>1, <2>3, <2>4, <3>2
    <3> QED
      BY <3>1, <3>2
  <2> QED
    BY <1>1, <2>1, <2>5
<1>9. CASE Tick
  <2>1. /\ gwCache' = Aged(gwCache) /\ gwChanged' = Later(gwChanged)
        /\ \A k \in ChannelKeys : /\ chCache'[k] = Aged(chCache[k])
                                  /\ chChanged'[k] = Later(chChanged[k])
        /\ gateway' = gateway /\ channel' = channel
    BY <1>9 DEF Tick, tableVars
  <2>2. \A k \in ChannelKeys : ChannelRow(k)' = ChannelRow(k)
    BY <2>1 DEF ChannelRow
  <2> QED
    BY <1>1, <1>2, <2>1, <2>2, BriefAged
<1>10. CASE MonthTurns
  <2>1. /\ gwCache' = NoEntry /\ \A k \in ChannelKeys : chCache'[k] = NoEntry
    BY <1>10 DEF MonthTurns
  <2> QED
    BY <1>2, <2>1, BriefFresh
<1>11. CASE \/ SelectGateway \/ LoadGateway \/ SelectChannel \/ Commit \/ DispatchFails
            \/ PartitionJob \/ UNCHANGED vars
  <2>1. UNCHANGED <<tableVars, gwCache, chCache, histVars>>
    BY <1>11 DEF SelectGateway, LoadGateway, SelectChannel, Commit, DispatchFails, PartitionJob,
                 vars, cacheVars
  <2> QED
    BY <1>1, <2>1 DEF tableVars, histVars, ChannelRow
<1> QED
  BY <1>3, <1>4, <1>5, <1>6, <1>7, <1>8, <1>9, <1>10, <1>11 DEF Next
\* The calls of the API.
ApiStep ==
    \/ RegisterGateway \/ DeleteGateway
    \/ \E s \in Slugs : AddChannel(s) \/ DeleteChannel(s)

\* A channel's row changes when its time starts again, and not otherwise.
LEMMA RowsChange ==
    ASSUME StoreType, ApiStep \/ LoadGateway \/ Commit \/ PartitionJob \/ UNCHANGED vars,
           lookup # NoLookup, UNCHANGED lookup,
           NEW k \in ChannelKeys, Recent(ChannelRow(k), chChanged[k])
    PROVE  Recent(ChannelRow(k), chChanged[k])'
<1>0. lookup.waited \in Nat
  BY LookupCases, StoreAssumption
<1>1. CASE ApiStep
  <2>1. (ChannelRow(k)' = ChannelRow(k) /\ chChanged'[k] = chChanged[k]) \/ chChanged'[k] = 0
    <3>1. CASE DeleteGateway
      <4>1. chChanged'[k] = IF ChannelRow(k) # None THEN 0 ELSE chChanged[k]
        BY <3>1 DEF DeleteGateway
      <4>2. ChannelRow(k)' = None
        BY <3>1 DEF DeleteGateway, ChannelRow, ChannelKeys, Ids, None
      <4> QED
        BY <4>1, <4>2
    <3>2. CASE RegisterGateway
      BY <3>2 DEF RegisterGateway, ChannelRow, StoreType, ChannelKeys, Ids, None
    <3>3. ASSUME NEW s \in Slugs, AddChannel(s) \/ DeleteChannel(s)
          PROVE  (ChannelRow(k)' = ChannelRow(k) /\ chChanged'[k] = chChanged[k]) \/ chChanged'[k] = 0
      <4> DEFINE key == <<gateway, s>>
      <4>1. /\ gateway' = gateway /\ chChanged' = [chChanged EXCEPT ![key] = 0]
            /\ \A x \in Slugs : x # s => channel'[x] = channel[x]
        BY <3>3 DEF AddChannel, DeleteChannel, StoreType
      <4>2. k # key => ChannelRow(k)' = ChannelRow(k)
        BY <4>1 DEF ChannelRow, ChannelKeys
      <4> HIDE DEF key
      <4>3. chChanged'[k] = IF k = key THEN 0 ELSE chChanged[k]
        BY <4>1 DEF StoreType
      <4> QED
        BY <4>2, <4>3
    <3> QED
      BY <1>1, <3>1, <3>2, <3>3 DEF ApiStep
  <2> QED
    BY <1>0, <2>1 DEF Recent
<1>2. CASE LoadGateway \/ Commit \/ PartitionJob \/ UNCHANGED vars
  <2>1. UNCHANGED <<tableVars, histVars>>
    BY <1>2 DEF LoadGateway, Commit, PartitionJob, vars
  <2> QED
    BY <2>1 DEF tableVars, histVars, ChannelRow, Recent
<1> QED
  BY <1>1, <1>2 DEF ApiStep

\* The lookup under way stays that of the gateway or of the next value's channel, and
\* is right but for what changed since.
LEMMA LookupStep == ASSUME StoreType, LookupInv, [Next]_vars PROVE LookupInv'
<1>0. NoJob.pc = "idle"
  BY DEF NoJob
<1>1. CASE Receive \/ StoreValue \/ DispatchFails \/ WorkerRestarts \/ MonthTurns
  <2>1. lookup' = NoLookup
    BY <1>1 DEF Receive, StoreValue, DispatchFails, WorkerRestarts, MonthTurns
  <2> QED
    BY <2>1 DEF LookupInv
<1>2. CASE SelectGateway
  <2>1. job' = NoJob /\ lookup'.found = gateway'
    BY <1>2 DEF SelectGateway, Selects, tableVars
  <2> QED
    BY <2>1 DEF LookupInv, Recent
<1>3. CASE SelectChannel
  <2> DEFINE k == <<job.gw, Head(job.todo).slug>>
  <2>1. /\ UNCHANGED <<job, gateway, channel, chChanged>> /\ job.pc = "values" /\ job.todo # <<>>
        /\ k \in ChannelKeys /\ lookup'.found = ChannelRow(k)
    BY <1>3, NextKey DEF SelectChannel, Selects, tableVars, histVars
  <2>2. Recent(ChannelRow(k), chChanged[k])'
    BY <2>1 DEF Recent, ChannelRow
  <2> QED
    BY <2>1, <2>2 DEF LookupInv
<1>4. CASE Tick
  <2>1. UNCHANGED <<job, gateway, channel>>
    BY <1>4 DEF Tick, tableVars
  <2>2. CASE lookup = NoLookup
    BY <1>4, <2>2 DEF Tick, LookupInv
  <2>3. CASE lookup # NoLookup
    <3>1. lookup \in [found : Ids \cup {None}, waited : 0..MaxSelect]
      BY <2>3 DEF StoreType, Lookups
    <3>2. lookup'.found = lookup.found /\ lookup'.waited = lookup.waited + 1
      BY <1>4, <2>3, <3>1 DEF Tick
    <3>3. \A ch \in 0..Past : ch \in Nat /\ Later(ch) \in Nat /\ Later(ch) <= ch + 1
      BY StoreAssumption DEF Past, Later
    <3>4. lookup.waited \in Nat
      BY <3>1, StoreAssumption
    <3>5. CASE job = NoJob /\ Recent(gateway, gwChanged)
      <4>1. gwChanged' = Later(gwChanged) /\ gwChanged \in 0..Past
        BY <1>4 DEF Tick, StoreType
      <4>2. Recent(gateway, gwChanged)'
        BY <2>1, <3>2, <3>3, <3>4, <3>5, <4>1 DEF Recent
      <4> QED
        BY <2>1, <3>5, <4>2 DEF LookupInv
    <3>6. CASE job # NoJob
      <4> DEFINE k == <<job.gw, Head(job.todo).slug>>
      <4>1. /\ job.pc = "values" /\ job.todo # <<>> /\ k \in ChannelKeys
            /\ Recent(ChannelRow(k), chChanged[k])
        BY <2>3, <3>6 DEF LookupInv
      <4>2. chChanged'[k] = Later(chChanged[k]) /\ chChanged[k] \in 0..Past
        BY <1>4, <4>1 DEF Tick, StoreType
      <4>3. ChannelRow(k)' = ChannelRow(k)
        BY <2>1 DEF ChannelRow
      <4>4. Recent(ChannelRow(k), chChanged[k])'
        BY <2>1, <3>2, <3>3, <3>4, <4>1, <4>2, <4>3 DEF Recent
      <4> QED
        BY <2>1, <4>1, <4>4 DEF LookupInv
    <3> QED
      BY <1>0, <2>3, <3>5, <3>6 DEF LookupInv
  <2> QED
    BY <2>2, <2>3
<1>5. CASE ApiStep \/ LoadGateway \/ Commit \/ PartitionJob \/ UNCHANGED vars
  <2>1. CASE lookup = NoLookup
    <3>1. lookup' = lookup
      BY <1>5 DEF ApiStep, RegisterGateway, DeleteGateway, AddChannel, DeleteChannel, LoadGateway,
                  Commit, PartitionJob, vars, cacheVars
    <3> QED
      BY <2>1, <3>1 DEF LookupInv
  <2>2. CASE lookup # NoLookup
    <3>1. ~LoadGateway /\ ~Commit
      BY <1>0, <2>2 DEF LookupInv, LoadGateway, Commit
    <3>2. UNCHANGED <<job, lookup>>
      BY <1>5, <3>1 DEF ApiStep, RegisterGateway, DeleteGateway, AddChannel, DeleteChannel,
                        PartitionJob, vars, cacheVars
    <3>3. (gateway' = gateway /\ gwChanged' = gwChanged) \/ gwChanged' = 0
      BY <1>5, <3>1 DEF ApiStep, RegisterGateway, DeleteGateway, AddChannel, DeleteChannel,
                        PartitionJob, vars, tableVars, histVars
    <3>4. lookup.waited \in Nat
      BY <2>2, LookupCases, StoreAssumption
    <3>5. CASE job = NoJob /\ Recent(gateway, gwChanged)
      BY <3>2, <3>3, <3>4, <3>5 DEF LookupInv, Recent
    <3>6. CASE job # NoJob
      <4> DEFINE k == <<job.gw, Head(job.todo).slug>>
      <4>1. /\ job.pc = "values" /\ job.todo # <<>> /\ k \in ChannelKeys
            /\ Recent(ChannelRow(k), chChanged[k])
        BY <2>2, <3>6 DEF LookupInv
      <4>2. \A x \in ChannelKeys : Recent(ChannelRow(x), chChanged[x]) =>
                                     Recent(ChannelRow(x), chChanged[x])'
        BY <1>5, <2>2, <3>2, RowsChange
      <4>3. Recent(ChannelRow(k), chChanged[k])'
        <5>1. k' = k
          BY <3>2
        <5>2. \A x \in ChannelKeys : (ChannelRow(x))' = IF gateway' = x[1] THEN channel'[x[2]] ELSE None
          BY DEF ChannelRow
        <5> QED
          BY <3>2, <4>1, <4>2, <5>1, <5>2 DEF Recent, ChannelRow
      <4> QED
        BY <3>2, <4>1, <4>3 DEF LookupInv
    <3> QED
      BY <1>0, <2>2, <3>5, <3>6 DEF LookupInv
  <2> QED
    BY <2>1, <2>2
<1> QED
  BY <1>1, <1>2, <1>3, <1>4, <1>5 DEF Next, ApiStep
-------------------------------------------------------------------------------
(* the newest rows *)

\* The readings of `old' are in `new' or have given way to later ones.
Advances(old, new) ==
    \A x \in old : \E y \in new : SameKey(x, y) /\ (y = x \/ Before(x.ts, y.ts))

\* What the handler has in its hands is right with respect to the tables.
JobInv ==
    job.pc = "values" =>
        /\ Newest(job.latest, telemetry \cup job.rows)
        /\ Advances(latest, job.latest)

\* Months are in order.
LEMMA BeforeOrder ==
    ASSUME NEW a \in Months, NEW b \in Months, NEW c \in Months
    PROVE  /\ ~Before(a, a)
           /\ Before(a, b) /\ Before(b, c) => Before(a, c)
           /\ ~Before(a, c) /\ Before(a, b) => ~Before(b, c)
           /\ Before(a, b) => Ordinal(a) < Ordinal(b)
BY DEF Months, Before, Ordinal

\* An upsert of a row keeps the table the newest of the rows.
LEMMA UpsertNewest ==
    ASSUME NEW T \in SUBSET Rows, NEW R \in SUBSET Rows, NEW r \in Rows, Newest(T, R)
    PROVE  Newest(Upsert(T, r), R \cup {r})
<1>1. \A x \in Rows : x.ts \in Months
  BY DEF Rows
<1>2. CASE \E x \in T : SameKey(x, r) /\ ~Before(x.ts, r.ts)
  BY <1>2 DEF Upsert, Newest
<1>3. CASE ~\E x \in T : SameKey(x, r) /\ ~Before(x.ts, r.ts)
  <2> DEFINE U == {x \in T : ~SameKey(x, r)} \cup {r}
  <2>1. Upsert(T, r) = U
    BY <1>3 DEF Upsert
  <2>2. U \subseteq R \cup {r}
    BY DEF Newest
  <2>3. ASSUME NEW q \in R \cup {r} PROVE \E x \in U : SameKey(x, q) /\ ~Before(x.ts, q.ts)
    <3>1. CASE SameKey(r, q)
      <4>1. CASE q = r
        BY <1>1, <3>1, <4>1, BeforeOrder
      <4>2. CASE q \in R
        <5>1. PICK x \in T : SameKey(x, q) /\ ~Before(x.ts, q.ts)
          BY <4>2 DEF Newest
        <5>2. SameKey(x, r)
          BY <3>1, <5>1 DEF SameKey
        <5>3. Before(x.ts, r.ts)
          BY <1>3, <5>2
        <5>4. x.ts \in Months /\ r.ts \in Months /\ q.ts \in Months
          BY <1>1, <4>2
        <5>5. ~Before(r.ts, q.ts)
          BY <5>1, <5>3, <5>4, BeforeOrder
        <5> QED
          BY <3>1, <5>5
      <4> QED
        BY <4>1, <4>2
    <3>2. CASE ~SameKey(r, q)
      <4>1. q \in R
        BY <3>2 DEF SameKey
      <4>2. PICK x \in T : SameKey(x, q) /\ ~Before(x.ts, q.ts)
        BY <4>1 DEF Newest
      <4>3. ~SameKey(x, r)
        BY <3>2, <4>2 DEF SameKey
      <4> QED
        BY <4>2, <4>3
    <3> QED
      BY <3>1, <3>2
  <2>4. ASSUME NEW x \in U, NEW y \in U, SameKey(x, y) PROVE x = y
    BY <2>4 DEF Newest, SameKey
  <2> HIDE DEF U
  <2> QED
    BY <2>1, <2>2, <2>3, <2>4 DEF Newest
<1> QED
  BY <1>2, <1>3

\* An upsert takes nothing back.
LEMMA UpsertAdvances ==
    ASSUME NEW old \in SUBSET Rows, NEW T \in SUBSET Rows, NEW r \in Rows, Advances(old, T)
    PROVE  Advances(old, Upsert(T, r))
<1>1. \A x \in Rows : x.ts \in Months
  BY DEF Rows
<1>2. CASE \E x \in T : SameKey(x, r) /\ ~Before(x.ts, r.ts)
  BY <1>2 DEF Upsert
<1>3. CASE ~\E x \in T : SameKey(x, r) /\ ~Before(x.ts, r.ts)
  <2> DEFINE U == {x \in T : ~SameKey(x, r)} \cup {r}
  <2>1. Upsert(T, r) = U
    BY <1>3 DEF Upsert
  <2>2. ASSUME NEW x \in old
        PROVE  \E y \in U : SameKey(x, y) /\ (y = x \/ Before(x.ts, y.ts))
    <3>1. PICK y \in T : SameKey(x, y) /\ (y = x \/ Before(x.ts, y.ts))
      BY DEF Advances
    <3>2. CASE ~SameKey(y, r)
      BY <3>1, <3>2
    <3>3. CASE SameKey(y, r)
      <4>1. Before(y.ts, r.ts)
        BY <1>3, <3>3
      <4>2. x.ts \in Months /\ y.ts \in Months /\ r.ts \in Months
        BY <1>1
      <4>3. Before(x.ts, r.ts)
        BY <3>1, <4>1, <4>2, BeforeOrder
      <4>4. SameKey(x, r)
        BY <3>1, <3>3 DEF SameKey
      <4> QED
        BY <4>3, <4>4
    <3> QED
      BY <3>2, <3>3
  <2> HIDE DEF U
  <2> QED
    BY <2>1, <2>2 DEF Advances
<1> QED
  BY <1>2, <1>3

\* The next value leaves the handler with the newest rows.
LEMMA StoreValueJob == ASSUME StoreType, JobInv, StoreValue PROVE JobInv'
<1> DEFINE v == Head(job.todo)
           k == <<job.gw, v.slug>>
           c == IF v.slug = NoSlug THEN None ELSE Found(chCache[k], lookup.found)
           r == [gw |-> job.gw, ch |-> c, key |-> v.key, ts |-> job.ts, value |-> v.value]
<1>1. job \in ValuesJobs /\ job' \in ValuesJobs /\ job.pc = "values"
  BY JobCases, StoreValueType DEF StoreValue
<1>2. telemetry' = telemetry /\ latest' = latest
  BY DEF StoreValue, storeVars
<1>3. job' = IF c = None \/ v.key = NoKey
             THEN [job EXCEPT !.todo = Tail(@)]
             ELSE [job EXCEPT !.todo = Tail(@), !.rows = @ \cup {r}, !.latest = Upsert(@, r)]
  BY DEF StoreValue
<1> HIDE DEF v, k, c, r
<1>4. CASE c = None \/ v.key = NoKey
  <2>1. job'.rows = job.rows /\ job'.latest = job.latest
    BY <1>1, <1>3, <1>4 DEF ValuesJobs
  <2> QED
    BY <1>1, <1>2, <2>1 DEF JobInv
<1>5. CASE ~(c = None \/ v.key = NoKey)
  <2>1. job'.rows = job.rows \cup {r} /\ job'.latest = Upsert(job.latest, r)
    BY <1>1, <1>3, <1>5 DEF ValuesJobs
  <2>2. job'.rows \subseteq Rows /\ job.rows \subseteq Rows /\ job.latest \subseteq Rows
    BY <1>1 DEF ValuesJobs
  <2>3. r \in Rows /\ telemetry \cup job.rows \in SUBSET Rows /\ latest \in SUBSET Rows
    BY <2>1, <2>2 DEF StoreType
  <2>4. Newest(job.latest, telemetry \cup job.rows) /\ Advances(latest, job.latest)
    BY <1>1 DEF JobInv
  <2>5. Newest(Upsert(job.latest, r), (telemetry \cup job.rows) \cup {r})
    BY <2>2, <2>3, <2>4, UpsertNewest
  <2>6. (telemetry \cup job.rows) \cup {r} = telemetry' \cup job'.rows
    BY <1>2, <2>1
  <2>7. Advances(latest, Upsert(job.latest, r))
    BY <2>2, <2>3, <2>4, UpsertAdvances
  <2> QED
    BY <1>2, <2>1, <2>5, <2>6, <2>7 DEF JobInv
<1> QED
  BY <1>4, <1>5

\* No step disturbs what is newest.
LEMMA NewestStep ==
    ASSUME StoreType, JobInv, LatestIsNewest, [Next]_vars
    PROVE  JobInv' /\ LatestIsNewest'
<1>0. NoJob.pc # "values"
  BY DEF NoJob
<1>1. CASE StoreValue
  BY <1>1, StoreValueJob DEF StoreValue, storeVars, LatestIsNewest
<1>2. CASE LoadGateway
  <2>1. telemetry' = telemetry /\ latest' = latest
    BY <1>2 DEF LoadGateway, storeVars
  <2>2. job' = NoJob \/ (job'.rows = {} /\ job'.latest = latest)
    BY <1>2 DEF LoadGateway
  <2>3. Newest(latest, telemetry \cup {}) /\ Advances(latest, latest)
    BY DEF LatestIsNewest, Newest, Advances, SameKey
  <2> QED
    BY <1>0, <2>1, <2>2, <2>3 DEF JobInv, LatestIsNewest
<1>3. CASE Commit
  BY <1>0, <1>3 DEF Commit, JobInv, LatestIsNewest
<1>4. CASE Receive
  <2>1. job' = NoJob \/ job'.pc = "load"
    BY <1>4 DEF Receive
  <2> QED
    BY <1>0, <1>4, <2>1 DEF Receive, storeVars, JobInv, LatestIsNewest
<1>5. CASE DispatchFails \/ WorkerRestarts
  BY <1>0, <1>5 DEF DispatchFails, WorkerRestarts, storeVars, JobInv, LatestIsNewest
<1>6. CASE \/ RegisterGateway \/ DeleteGateway \/ Tick \/ MonthTurns \/ PartitionJob
           \/ SelectGateway \/ SelectChannel
           \/ \E s \in Slugs : AddChannel(s) \/ DeleteChannel(s)
           \/ UNCHANGED vars
  <2>1. UNCHANGED <<job, storeVars>>
    BY <1>6 DEF RegisterGateway, DeleteGateway, Tick, MonthTurns, PartitionJob, AddChannel,
                DeleteChannel, SelectGateway, SelectChannel, vars
  <2> QED
    BY <2>1 DEF storeVars, JobInv, LatestIsNewest
<1> QED
  BY <1>1, <1>2, <1>3, <1>4, <1>5, <1>6 DEF Next
-------------------------------------------------------------------------------
(* the partitions *)

\* The range of a partition is its month.
LEMMA CoversOne == ASSUME NEW p \in Months, NEW t \in Months PROVE Covers(p, t) <=> p = t
BY DEF Months, Covers, Before, MonthEnd

\* The window is made of months.
LEMMA WindowMonths == ASSUME NEW ym \in Months PROVE Window(ym) \subseteq Months
BY WindowIsLookahead

\* No step gives a month a second place.
LEMMA PlaceStep ==
    ASSUME StoreType, PartitionsTypeOK, OnePlacePerMonth, [Next]_vars
    PROVE  PartitionsTypeOK' /\ OnePlacePerMonth'
<1>1. today' \in Months
  BY TypeStep DEF StoreType
<1>2. \A p, q \in Months : Covers(p, q) => p = q
  BY CoversOne
<1> SUFFICES parts' \subseteq Months /\ stray' \subseteq Months /\ stray' \cap parts' = {}
  BY <1>1, <1>2 DEF PartitionsTypeOK, OnePlacePerMonth
<1>3. parts \subseteq Months /\ stray \subseteq Months /\ stray \cap parts = {} /\ today \in Months
  BY DEF PartitionsTypeOK, OnePlacePerMonth
<1>4. CASE PartitionJob
  <2> DEFINE missing == Window(today) \ parts
  <2>1. stray' = stray /\ parts' = IF \E p \in missing : Refused(p) THEN parts ELSE parts \cup missing
    BY <1>4 DEF PartitionJob, RunPartitionManager
  <2>2. missing \subseteq Months
    BY <1>3, WindowMonths
  <2>3. ASSUME NEW p \in missing, ~Refused(p) PROVE p \notin stray
    BY <1>3, <2>2, <2>3, CoversOne DEF Refused
  <2> HIDE DEF missing
  <2>4. CASE \E p \in missing : Refused(p)
    BY <1>3, <2>1, <2>4
  <2>5. CASE \A p \in missing : ~Refused(p)
    BY <1>3, <2>1, <2>2, <2>3, <2>5
  <2> QED
    BY <2>4, <2>5
<1>5. CASE Commit
  <2> DEFINE ts == {r.ts : r \in job.rows}
  <2>1. parts' = parts /\ stray' = stray \cup {t \in ts : ~\E p \in parts : Covers(p, t)}
    BY <1>5 DEF Commit, RouteRows
  <2>2. job.rows \subseteq Rows
    BY <1>5, JobCases DEF Commit, ValuesJobs
  <2>3. ts \subseteq Months
    BY <2>2 DEF Rows
  <2>4. \A t \in parts : Covers(t, t)
    BY <1>3, CoversOne
  <2> HIDE DEF ts
  <2> QED
    BY <1>3, <2>1, <2>3, <2>4
<1>6. CASE MonthTurns
  BY <1>3, <1>6 DEF MonthTurns, MonthPasses
<1>7. CASE ~(PartitionJob \/ Commit \/ MonthTurns)
  <2>1. UNCHANGED partitionVars
    BY <1>7 DEF Next, vars, Receive, LoadGateway, StoreValue, DispatchFails, WorkerRestarts,
       RegisterGateway, DeleteGateway, AddChannel, DeleteChannel, Tick,
       SelectGateway, SelectChannel
  <2> QED
    BY <1>3, <2>1 DEF partitionVars
<1> QED
  BY <1>4, <1>5, <1>6, <1>7
-------------------------------------------------------------------------------
IInv ==
    /\ StoreType /\ PartitionsTypeOK
    /\ StaleOnlyBriefly /\ LookupInv /\ JobInv /\ LatestIsNewest
    /\ OnePlacePerMonth

\* The invariant holds at the start.
LEMMA InitIInv == Init => IInv
<1> SUFFICES ASSUME Init PROVE IInv
  OBVIOUS
<1>1. StoreType
  BY StoreAssumption, PartitionsAssumption
  DEF Init, PartitionsInit, StoreType, Entries, Lookups, Past, None
<1>2. StaleOnlyBriefly /\ LookupInv
  BY DEF Init, StaleOnlyBriefly, LookupInv
<1>3. NoJob.pc # "values"
  BY DEF NoJob
<1>4. JobInv /\ LatestIsNewest
  BY <1>3 DEF Init, JobInv, LatestIsNewest, Newest
<1>5. PartitionsTypeOK /\ OnePlacePerMonth
  <2>1. parts = Window(InstallMonth) /\ stray = {} /\ today \in Months
    BY PartitionsAssumption DEF Init, PartitionsInit
  <2>2. parts \subseteq Months
    BY <2>1, PartitionsAssumption, WindowMonths
  <2>3. \A p, q \in Months : Covers(p, q) => p = q
    BY CoversOne
  <2> QED
    BY <2>1, <2>2, <2>3 DEF PartitionsTypeOK, OnePlacePerMonth
<1> QED
  BY <1>1, <1>2, <1>4, <1>5 DEF IInv

\* The inductive invariant of the worker, its caches and the two tables holds.
THEOREM InductiveInvariant == Spec => []IInv
<1>1. Init => IInv
  BY InitIInv
<1>2. IInv /\ [Next]_vars => IInv'
  BY TypeStep, StaleStep, LookupStep, NewestStep, PlaceStep DEF IInv
<1> QED
  BY <1>1, <1>2, PTL DEF Spec

\* _lookups misjudges a gateway or a channel for _TTL_SEC and the time of one SELECT at
\* most, whatever is looked up, deleted and registered meanwhile.
THEOREM StaleOnlyBrieflyHolds == Spec => []StaleOnlyBriefly
<1>1. IInv => StaleOnlyBriefly
  BY DEF IInv
<1> QED
  BY <1>1, InductiveInvariant, PTL

\* The conditional upsert keeps telemetry_latest the newest of telemetry, whatever
\* the order of the messages.
THEOREM LatestIsNewestHolds == Spec => []LatestIsNewest
<1>1. IInv => LatestIsNewest
  BY DEF IInv
<1> QED
  BY <1>1, InductiveInvariant, PTL

\* The tables, the caches, the handler and the partitions keep their types, and no id
\* is in use before it is handed out.
THEOREM TypeCorrect == Spec => []TypeOK
<1>1. IInv => TypeOK
  BY DEF IInv, StoreType, TypeOK, Jobs, LoadJobs, ValuesJobs, PayloadValues
<1> QED
  BY <1>1, InductiveInvariant, PTL

\* Whatever months the rows are of and whenever the partition manager runs, a month's
\* rows are in its partition or in DEFAULT and never in both, and no two partitions
\* overlap, those of two Decembers included.
THEOREM OnePlacePerMonthHolds == Spec => []OnePlacePerMonth
<1>1. IInv => OnePlacePerMonth
  BY DEF IInv
<1> QED
  BY <1>1, InductiveInvariant, PTL

\* The reading of a row that the dashboard sees.
Reading(x) == [key |-> <<x.gw, x.ch, x.key>>, at |-> Ordinal(x.ts), value |-> x.value]

\* A commit advances the register, and no other step touches it.
LEMMA RegisterStep ==
    ASSUME IInv, [Next]_vars
    PROVE  [Register!Advance]_({[key |-> <<r.gw, r.ch, r.key>>, at |-> Ordinal(r.ts),
                                 value |-> r.value] : r \in latest})
<1>1. CASE Commit
  <2>1. latest' = job.latest /\ job.pc = "values"
    BY <1>1 DEF Commit
  <2>2. Advances(latest, latest')
    BY <2>1 DEF IInv, JobInv
  <2>3. latest \subseteq Rows /\ latest' \subseteq Rows
    BY TypeStep DEF IInv, StoreType
  <2>4. \A x, y \in latest' : SameKey(x, y) => x = y
    BY NewestStep DEF IInv, LatestIsNewest, Newest
  <2>5. \A x \in Rows : x.ts \in Months
    BY DEF Rows
  <2>6. \A x, y : SameKey(x, y) <=> Reading(x).key = Reading(y).key
    BY DEF SameKey, Reading
  <2> DEFINE shown(S) == {Reading(x) : x \in S}
  <2>7. ASSUME NEW x \in latest
        PROVE  \E y \in latest' : /\ Reading(y).key = Reading(x).key
                                  /\ Reading(y) = Reading(x) \/ Reading(x).at < Reading(y).at
    <3>1. PICK y \in latest' : SameKey(x, y) /\ (y = x \/ Before(x.ts, y.ts))
      BY <2>2 DEF Advances
    <3>2. Before(x.ts, y.ts) => Ordinal(x.ts) < Ordinal(y.ts)
      BY <2>3, <2>5, BeforeOrder
    <3>3. Reading(x).at = Ordinal(x.ts) /\ Reading(y).at = Ordinal(y.ts)
      BY DEF Reading
    <3>4. Reading(y).key = Reading(x).key
      BY <2>6, <3>1
    <3> QED
      BY <3>1, <3>2, <3>3, <3>4
  <2>8. \A a \in shown(latest) : \E b \in shown(latest') : b.key = a.key /\ (b = a \/ a.at < b.at)
    BY <2>7
  <2>9. \A a, b \in shown(latest') : a.key = b.key => a = b
    BY <2>4, <2>6
  <2> QED
    BY <2>8, <2>9 DEF Register!Advance, Reading
<1>2. CASE ~Commit
  <2>1. latest' = latest
    BY <1>2 DEF Next, Receive, LoadGateway, StoreValue, DispatchFails, WorkerRestarts,
       RegisterGateway, DeleteGateway, AddChannel, DeleteChannel, Tick, MonthTurns, PartitionJob,
       SelectGateway, SelectChannel, vars, storeVars
  <2> QED
    BY <2>1
<1> QED
  BY <1>1, <1>2

\* telemetry_latest implements the register that a dashboard relies on: once shown,
\* a reading of a key stays or gives way to a later one.
THEOREM Refinement == Spec => ImplementsRegister
<1>1. Init => Register!Init
  BY DEF Init, Register!Init
<1>2. IInv /\ [Next]_vars =>
          [Register!Advance]_({[key |-> <<r.gw, r.ch, r.key>>, at |-> Ordinal(r.ts),
                                value |-> r.value] : r \in latest})
  BY RegisterStep
<1> QED
  BY <1>1, <1>2, InductiveInvariant, PTL DEF Spec, ImplementsRegister, Register!Spec
===============================================================================
