------------------------------- MODULE Provision ------------------------------
(***************************************************************************)
(* How the database comes to its tables and first rows: the migrations     *)
(* (alembic env.py, 0001, 0002) and deploy/scripts/sim-seed.py, several    *)
(* runs of which may overlap with one another and with the API.            *)
(*                                                                         *)
(* A row that the script cares about is [table, of, id]: `of' is what its  *)
(* SELECT matches, a pair of numbers, the ids of the rows it belongs to or *)
(* the slug among them, and <<0, 0>> where it matches a constant name.     *)
(* PostgreSQL is external: READ COMMITTED, an INSERT of a key that another *)
(* open transaction has inserted waits for it, ALTER and DROP TABLE wait   *)
(* for the transactions that used the table, DDL is undone on an error.    *)
(***************************************************************************)
EXTENDS Schema, Integers, Sequences

CONSTANTS Runs,           \* runs of sim-seed.py: a set of positive integers
          MaxMigrations,  \* bound: migrations that are run
          MaxApiCalls     \* bound: calls of the API

ASSUME ProvisionAssumption ==
    /\ Runs \subseteq Nat \ {0}
    /\ IsFiniteSet(Runs)
    /\ MaxMigrations \in Nat
    /\ MaxApiCalls \in Nat

VARIABLES
    revision,    \* the revision alembic_version names; 0: none
    migrations,  \* migrations run so far
    apiCalls,    \* calls of the API so far
    rows,        \* committed rows
    seed         \* [Runs -> state of the run]
\* History: runs overlapped; a downgrade dropped slugs; the slugs of the channels that
\* a call of the API deleted after the run had found them.
VARIABLES overlapped, slugsLost, removed

histVars == <<overlapped, slugsLost, removed>>
vars == <<revision, migrations, apiCalls, rows, seed, histVars>>

Made(t) == {r \in rows : r.table = t}
-------------------------------------------------------------------------------
(* sim-seed.py *)

\* The statements of main, in order: the table, and the slug it is about.
Statements ==
    << [table |-> "companies", slug |-> 0], [table |-> "sites", slug |-> 0],
       [table |-> "users", slug |-> 0], [table |-> "user_company_roles", slug |-> 0],
       [table |-> "gateways", slug |-> 0],
       [table |-> "user_gateway_permissions", slug |-> 0],
       [table |-> "sensor_profiles", slug |-> 0],
       [table |-> "sensor_channels", slug |-> 1],     \* env-1
       [table |-> "actuator_channels", slug |-> 2],   \* relay-vent
       [table |-> "actuator_channels", slug |-> 3] >> \* relay-spray

\* Tables with a unique key over what is matched, and those whose INSERT says
\* ON CONFLICT DO NOTHING and needs no SELECT.
UniqueTables == {"users", "user_company_roles", "gateways",
                 "user_gateway_permissions"} \cup SlugTables
UnkeyedTables == {"companies", "sites", "sensor_profiles"}
OnConflict == {"user_company_roles", "user_gateway_permissions"}

NotRun == [at |-> "new"]
Ended(how) == [at |-> how]
Active(i) == seed[i].at \in {"select", "insert"}

\* What the statement of run i matches, from the ids it has so far.
Of(i) ==
    LET st == Statements[seed[i].n]
        ids == seed[i].ids
    IN  CASE st.table = "sites" -> <<ids.companies, 0>>
          [] st.table = "user_company_roles" -> <<ids.users, ids.companies>>
          [] st.table = "user_gateway_permissions" -> <<ids.users, ids.gateways>>
          [] st.table \in SlugTables -> <<ids.gateways, st.slug>>
          [] OTHER -> <<0, 0>>

Matches(set, i) == {r \in set : r.table = Statements[seed[i].n].table /\ r.of = Of(i)}

\* An id from uuid4: its run and statement.  Rows of the API have 0.
NewId(i) == 100 * i + seed[i].n

\* On to the next statement, with the id of this one's row.
NextStatement(i, id, pending) ==
    LET n == seed[i].n
        t == Statements[n].table
        next == IF n < Len(Statements) THEN Statements[n + 1].table ELSE ""
    IN  [at |-> IF n < Len(Statements) /\ next \notin OnConflict THEN "select"
                ELSE "insert",
         n |-> n + 1, pending |-> pending,
         ids |-> IF t \in DOMAIN seed[i].ids THEN [seed[i].ids EXCEPT ![t] = id]
                 ELSE seed[i].ids]

StartSeed(i) ==
    /\ seed[i] = NotRun
    /\ seed' = [seed EXCEPT ![i] =
                  [at |-> "select", n |-> 1, pending |-> {},
                   ids |-> [t \in {"companies", "sites", "users", "gateways",
                                   "sensor_profiles"} |-> 0]]]
    /\ overlapped' = (overlapped \/ \E j \in Runs : Active(j))
    /\ UNCHANGED <<revision, migrations, apiCalls, rows, slugsLost, removed>>

\* The tables and columns that the statement names are there.
Understood(i) ==
    LET t == Statements[seed[i].n].table IN
    /\ t \in DOMAIN SchemaAt(revision)
    /\ t \in SlugTables => "slug" \in Columns(SchemaAt(revision)[t])

\* Mutant of SelectRow: the script does not look for the company.
SelectRowBlind(i) ==
    /\ seed[i].at = "select"
    /\ Understood(i)
    /\ LET found == IF seed[i].n = 1 THEN {} ELSE Matches(rows \cup seed[i].pending, i) IN
       \/ \E r \in found : seed' = [seed EXCEPT ![i] = NextStatement(i, r.id, @.pending)]
       \/ /\ found = {}
          /\ seed' = [seed EXCEPT ![i].at = "insert"]
    /\ UNCHANGED <<revision, migrations, apiCalls, rows, histVars>>

\* SELECT id ...: any row that matches, or none.
SelectRow(i) ==
    /\ seed[i].at = "select"
    /\ Understood(i)
    /\ LET found == Matches(rows \cup seed[i].pending, i) IN
       \/ \E r \in found : seed' = [seed EXCEPT ![i] = NextStatement(i, r.id, @.pending)]
       \/ /\ found = {}
          /\ seed' = [seed EXCEPT ![i].at = "insert"]
    /\ UNCHANGED <<revision, migrations, apiCalls, rows, histVars>>

\* Mutant of ReferenceHolds: the channels have no foreign key to gateways.
NoReference(i) == TRUE

\* The gateway that a channel belongs to is still there.
ReferenceHolds(i) ==
    LET t == Statements[seed[i].n].table IN
    t \in SlugTables =>
        \E r \in rows \cup seed[i].pending :
            r.table = "gateways" /\ r.id = seed[i].ids.gateways

\* Another transaction has inserted the same key and is still open.
MustWait(i) ==
    /\ Statements[seed[i].n].table \in UniqueTables
    /\ \E j \in Runs \ {i} : Active(j) /\ Matches(seed[j].pending, i) # {}

\* A unique key that was committed between the SELECT and the INSERT.
Taken(i) == Statements[seed[i].n].table \in UniqueTables /\ Matches(rows, i) # {}

\* INSERT, in the run's own transaction.
InsertRow(i) ==
    /\ seed[i].at = "insert"
    /\ seed[i].n <= Len(Statements)
    /\ Understood(i) /\ ReferenceHolds(i) /\ ~MustWait(i)
    /\ LET t == Statements[seed[i].n].table
           new == [table |-> t, of |-> Of(i), id |-> NewId(i)]
           own == seed[i].pending
       IN  \/ /\ Matches(rows \cup own, i) = {} \/ t \notin UniqueTables
              /\ seed' = [seed EXCEPT ![i] = NextStatement(i, new.id, own \cup {new})]
           \/ /\ t \in OnConflict /\ Taken(i)
              /\ seed' = [seed EXCEPT ![i] = NextStatement(i, 0, own)]
    /\ UNCHANGED <<revision, migrations, apiCalls, rows, histVars>>

\* conn.commit().
CommitSeed(i) ==
    /\ seed[i].at = "insert"
    /\ seed[i].n > Len(Statements)
    /\ rows' = rows \cup seed[i].pending
    /\ seed' = [seed EXCEPT ![i] = Ended("ok")]
    /\ UNCHANGED <<revision, migrations, apiCalls, histVars>>

\* The password is missing, a statement raises (an unknown table or column, a key that was taken, a row
\* that is gone), the profile's file is missing, or the process dies: nothing is
\* caught and the transaction is rolled back.
FailSeed(i) ==
    /\ Active(i)
    /\ seed' = [seed EXCEPT ![i] = Ended("failed")]
    /\ UNCHANGED <<revision, migrations, apiCalls, rows, histVars>>
-------------------------------------------------------------------------------
(* the API, as far as it meets the script's rows (module Registry has it all) *)

ApiCall ==
    /\ revision = HeadRevision
    /\ apiCalls < MaxApiCalls
    /\ apiCalls' = apiCalls + 1
    /\ UNCHANGED <<revision, migrations, seed, overlapped, slugsLost>>

\* Row r waits for a transaction, or is refused: its key is there.
KeyInUse(r) ==
    \E q \in rows \cup UNION {seed[i].pending : i \in {j \in Runs : Active(j)}} :
        q.table = r.table /\ q.of = r.of

\* POST /companies, /sites and /sensor-profiles with the names that the script gives
\* them: nothing keeps two rows of one name apart.
ApiCreates ==
    /\ ApiCall
    /\ \E r \in {[table |-> t, of |-> <<0, 0>>, id |-> 0] : t \in {"companies", "sensor_profiles"}}
             \cup {[table |-> "sites", of |-> <<c.id, 0>>, id |-> 0] : c \in Made("companies")} :
         r \notin rows /\ rows' = rows \cup {r}
    /\ UNCHANGED removed

\* POST /gateways with the script's serial number, once.  Its row of permissions
\* outlives the gateway, which tells that 0 was used.
ApiRegistersGateway ==
    LET gateway == [table |-> "gateways", of |-> <<0, 0>>, id |-> 0]
        admin == [table |-> "user_gateway_permissions", of |-> <<0, 0>>, id |-> 0]
    IN  /\ ApiCall
        /\ ~KeyInUse(gateway)
        /\ admin \notin rows
        /\ rows' = rows \cup {gateway, admin}
        /\ UNCHANGED removed

\* POST of a channel with a slug of the script's, and an id that is not in use.
ApiAddsChannel ==
    /\ ApiCall
    /\ \E g \in Made("gateways"), n \in 8..10 :
         LET st == Statements[n]
             new == [table |-> st.table, of |-> <<g.id, st.slug>>, id |-> n]
         IN  /\ ~KeyInUse(new)
             /\ \A r \in Made(st.table) : r.id # n
             /\ rows' = rows \cup {new}
    /\ UNCHANGED removed

\* DELETE of the gateway takes its channels along; it waits for transactions
\* that have inserted rows which refer to the gateway.
ApiDeletesGateway ==
    /\ ApiCall
    /\ \E g \in Made("gateways") :
         /\ ~\E i \in Runs : Active(i) /\ \E r \in seed[i].pending :
                r.table \in SlugTables /\ r.of[1] = g.id
         /\ rows' = rows \ ({g} \cup {r \in rows : r.table \in SlugTables /\ r.of[1] = g.id})
    /\ UNCHANGED removed

\* The statement of run i about the channel's slug is done.
Passed(i, r) ==
    \E n \in 1..(seed[i].n - 1) :
        Statements[n].table = r.table /\ Statements[n].slug = r.of[2]

\* DELETE of one channel: no transaction holds it.
ApiDeletesChannel ==
    /\ ApiCall
    /\ \E r \in rows :
         /\ r.table \in SlugTables
         /\ rows' = rows \ {r}
         /\ removed' = [i \in Runs |-> IF Active(i) /\ Passed(i, r)
                                       THEN removed[i] \cup {r.of[2]} ELSE removed[i]]
-------------------------------------------------------------------------------
(* alembic: run_migrations_online runs every step of one command in one        *)
(* transaction                                                                 *)

\* The run has used a table that 0002 alters.
Uses0002Tables(i) == Active(i) /\ seed[i].n >= 5

Backfilled(r) == IF r.table \in SlugTables THEN [r EXCEPT !.of = <<@[1], r.id>>] ELSE r

\* alembic upgrade head: 0001, 0002 or both.  Slugs become the first 8 characters
\* of the ids, here the ids.
UpgradeHead ==
    /\ migrations < MaxMigrations /\ migrations' = migrations + 1
    /\ revision < HeadRevision
    /\ \A i \in Runs : ~Uses0002Tables(i)
    /\ revision' = HeadRevision
    /\ rows' = {Backfilled(r) : r \in rows}
    /\ UNCHANGED <<apiCalls, seed, histVars>>

\* It fails, if two ids begin alike, and leaves the revision as it was.
UpgradeCollides ==
    /\ migrations < MaxMigrations /\ migrations' = migrations + 1
    /\ revision = 1
    /\ \E r, s \in rows : r # s /\ r.table = s.table /\ r.table \in SlugTables
                          /\ r.of[1] = s.of[1]
    /\ UNCHANGED <<revision, apiCalls, rows, seed, histVars>>

\* downgrade of 0002: the columns slug go, the channels stay.
Downgrade0002 ==
    /\ migrations < MaxMigrations /\ migrations' = migrations + 1
    /\ revision = 2
    /\ \A i \in Runs : ~Uses0002Tables(i)
    /\ revision' = 1
    /\ rows' = {IF r.table \in SlugTables THEN [r EXCEPT !.of = <<@[1], 0>>] ELSE r : r \in rows}
    /\ slugsLost' = (slugsLost \/ \E r \in rows : r.table \in SlugTables)
    /\ UNCHANGED <<apiCalls, seed, overlapped, removed>>

\* downgrade of 0001: every table is dropped.
Downgrade0001 ==
    /\ migrations < MaxMigrations /\ migrations' = migrations + 1
    /\ revision = 1
    /\ \A i \in Runs : ~Active(i)
    /\ revision' = 0
    /\ rows' = {}
    /\ slugsLost' = FALSE
    /\ UNCHANGED <<apiCalls, seed, overlapped, removed>>

Init ==
    /\ revision = 0
    /\ migrations = 0
    /\ apiCalls = 0
    /\ rows = {}
    /\ seed = [i \in Runs |-> NotRun]
    /\ overlapped = FALSE
    /\ slugsLost = FALSE
    /\ removed = [i \in Runs |-> {}]

Next ==
    \/ \E i \in Runs : StartSeed(i) \/ SelectRow(i) \/ InsertRow(i)
                       \/ CommitSeed(i) \/ FailSeed(i)
    \/ ApiCreates \/ ApiRegistersGateway \/ ApiAddsChannel
    \/ ApiDeletesGateway \/ ApiDeletesChannel
    \/ UpgradeHead \/ UpgradeCollides \/ Downgrade0002 \/ Downgrade0001

Spec == Init /\ [][Next]_vars
-------------------------------------------------------------------------------
(* who writes which columns *)

\* A writer: the table, columns it gives a value, columns it may give None, the
\* columns of ON CONFLICT, and whether the ORM adds its defaults.
Writer(t, body, extra, target, orm) ==
    [table |-> t, set |-> body.set \cup extra, maybe |-> body.maybe,
     target |-> target, orm |-> orm]

\* The handlers that add Class(id=uuid4(), **body.model_dump()).
BodyWriters ==
    { Writer("companies", CompanyIn, {"id"}, {}, TRUE),
      Writer("sites", SiteIn, {"id"}, {}, TRUE),
      Writer("sensor_profiles", SensorProfileIn, {"id"}, {}, TRUE),
      Writer("sensor_channels", SensorChannelIn, {"id", "gateway_id"}, {}, TRUE),
      Writer("actuator_channels", ActuatorChannelIn, {"id", "gateway_id"}, {}, TRUE) }

\* register_gateway adds two rows.
RegisterWriters ==
    { Writer("gateways", GatewayIn, {"id"}, {}, TRUE),
      Writer("user_gateway_permissions", Body({}, {}),
             {"id", "user_id", "gateway_id", "permission"}, {}, TRUE) }

\* issue_command.
CommandWriter ==
    Writer("commands", Body({}, {"reason"}),
           {"id", "gateway_id", "actuator_channel_id", "action", "issued_by",
            "issued_at", "expires_at", "timeout_ms", "require_ack", "status"},
           {}, TRUE)

\* The telemetry handler: a row of telemetry and the upsert.
TelemetryWriters ==
    LET value == Body({"gateway_id", "sensor_channel_id", "measurement_key", "ts"},
                      {"value_double", "unit", "quality"})
    IN  { Writer("telemetry", Body(value.set, value.maybe \cup {"site_id"}),
                 {"company_id", "raw"}, {}, TRUE),
          Writer("telemetry_latest", value, {},
                 {"gateway_id", "sensor_channel_id", "measurement_key"}, TRUE) }

\* The INSERT statements of sim-seed.py.
SeedWriters ==
    LET Sql(t, set, target) == Writer(t, Body({}, {}), set, target, FALSE)
    IN  { Sql("companies", {"id", "name", "company_type"}, {}),
          Sql("sites", {"id", "company_id", "name"}, {}),
          Sql("users", {"id", "keycloak_user_id", "email", "name"}, {}),
          Sql("user_company_roles", {"id", "user_id", "company_id", "role"},
              {"user_id", "company_id", "role"}),
          Sql("gateways", {"id", "serial_number", "name", "company_id",
                           "site_id", "status"}, {}),
          Sql("user_gateway_permissions",
              {"id", "user_id", "gateway_id", "permission"},
              {"user_id", "gateway_id", "permission"}),
          Sql("sensor_profiles", {"id", "name", "vendor", "model", "protocol",
                                  "profile_schema", "enabled"}, {}),
          Sql("sensor_channels",
              {"id", "gateway_id", "slug", "sensor_profile_id", "display_name",
               "interface_name", "protocol", "address", "slave_id",
               "polling_interval_sec", "enabled"}, {}),
          Sql("actuator_channels",
              {"id", "gateway_id", "slug", "display_name", "actuator_type",
               "hardware_channel", "default_state", "enabled", "safety_config"}, {}) }

Writers == UNION {BodyWriters, RegisterWriters, {CommandWriter},
                  TelemetryWriters, SeedWriters}

\* The columns that are not NULL in a row that w inserts into a table with the
\* columns and defaults of db: the ORM sends NULL for an attribute that is not
\* set, unless the class leaves the column to the server.
Filled(w, db) ==
    IF w.orm THEN w.set \cup Orm[w.table].filled \cup (Orm[w.table].served \cap db.default)
    ELSE w.set \cup db.default

\* The columns that an INSERT of w names.
Named(w) ==
    w.set \cup w.maybe \cup
    (IF w.orm THEN OrmColumns(w.table) \ Orm[w.table].served ELSE {})

Accepted(w, db) ==
    /\ Named(w) \subseteq Columns(db)
    /\ db.notNull \subseteq Filled(w, db)
    /\ w.target = {} \/ w.target \in db.keys

\* Columns that can be NULL in some row: the database allows it, and an INSERT
\* leaves them out or a PATCH clears them.
CanBeNull(t, db) ==
    {c \in db.nullable :
        \/ \E w \in Writers : w.table = t /\ c \notin Filled(w, db)
        \/ t = "gateways" /\ c \in GatewayPatch.maybe}
-------------------------------------------------------------------------------
\* The variables have their types.
TypeOK ==
    /\ revision \in 0..HeadRevision
    /\ migrations \in 0..MaxMigrations
    /\ apiCalls \in 0..MaxApiCalls
    /\ \A r \in rows : r.table \in TableNames /\ r.of \in Nat \X Nat /\ r.id \in Nat
    /\ \A i \in Runs :
         \/ seed[i].at \in {"new", "ok", "failed"}
         \/ /\ seed[i].at \in {"select", "insert"}
            /\ seed[i].n \in 1..(Len(Statements) + 1)
            /\ \A r \in seed[i].pending : r.table \in TableNames
    /\ overlapped \in BOOLEAN
    /\ slugsLost \in BOOLEAN
    /\ removed \in [Runs -> SUBSET Nat]

\* Once alembic has reached the head, every INSERT of the API, of the worker and of
\* sim-seed.py is understood, leaves no NOT NULL column empty and names an existing
\* key in ON CONFLICT, every SELECT of the ORM finds its columns, and no answer lacks a
\* field that its model in schemas.py requires (FastAPI would answer 500 for rows that
\* sim-seed.py made, say): models.py, schemas.py, both migrations and the script agree.
CodeFitsSchema ==
    revision = HeadRevision =>
        LET db == SchemaAt(revision) IN
        /\ DOMAIN db = TableNames
        /\ \A t \in TableNames : /\ OrmColumns(t) \subseteq Columns(db[t])
                                 /\ Orm[t].keys = db[t].keys
                                 /\ Orm[t].refs = db[t].refs
        /\ \A w \in Writers : Accepted(w, db[w.table])
        /\ \A t \in DOMAIN Answers :
            /\ Answers[t].set \cup Answers[t].maybe \subseteq OrmColumns(t)
            /\ Answers[t].set \cap CanBeNull(t, db[t]) = {}

Slugged(t, s) == {r \in rows : r.table = t /\ r.of[2] = s}

\* However often sim-seed.py is run, and wherever a run dies, there is one company,
\* site, user, gateway, profile and channel of each slug, whatever the API registers,
\* adds and deletes meanwhile, unless runs overlapped, the API made a company, a site
\* or a profile of the script's names, or a downgrade dropped the slugs; and one user
\* and one gateway even then.
SeededOnce ==
    /\ \A t \in {"users", "gateways"} : Cardinality(Made(t)) <= 1
    /\ ~overlapped /\ ~slugsLost /\ (\A t \in UnkeyedTables : \A r \in Made(t) : r.id # 0) =>
         /\ \A t \in UnkeyedTables : Cardinality(Made(t)) <= 1
         /\ \A i \in DOMAIN Statements : LET st == Statements[i] IN
                Cardinality(Slugged(st.table, st.slug)) <= 1 \/ st.slug = 0

\* The rows that a simulated gateway needs, tied together, but for channels of the
\* slugs in D.
CompleteBut(D) ==
    \E c \in Made("companies"), u \in Made("users"), g \in Made("gateways"),
       p \in Made("sensor_profiles") :
        /\ \E s \in Made("sites") : s.of[1] = c.id
        /\ \E r \in Made("user_company_roles") : r.of = <<u.id, c.id>>
        /\ \E r \in Made("user_gateway_permissions") : r.of = <<u.id, g.id>>
        /\ 1 \in D \/ \E r \in Slugged("sensor_channels", 1) : r.of[1] = g.id
        /\ \A s \in {2, 3} \ D : \E r \in Slugged("actuator_channels", s) : r.of[1] = g.id

\* A run that adds the gateway or a channel and ends well leaves everything there but
\* the channels that it had found and a call of the API deleted before it committed:
\* company, site, user, role, gateway, permission and profile are those it found or
\* made, and what it inserted nobody could take away.  (A run that finds all of it holds
\* no lock, and the gateway may go.)
SuccessMeansComplete ==
    [][\A i \in Runs :
         /\ seed'[i].at = "ok" /\ seed[i].at # "ok"
         /\ \E r \in seed[i].pending : r.table \in SlugTables \cup {"gateways"}
         => CompleteBut(removed[i])']_vars
===============================================================================
