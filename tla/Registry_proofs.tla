--------------------------- MODULE Registry_proofs ---------------------------
(***************************************************************************)
(* What the API keeps true of the database, for any number of users,       *)
(* requests under way and rows: who administers a gateway, what a          *)
(* published command names, for whom rows are written, and that references *)
(* and keys hold although handlers act on what they read before others     *)
(* committed.                                                              *)
(***************************************************************************)
EXTENDS Registry, FiniteSetTheorems, TLAPS
-------------------------------------------------------------------------------
(* the inductive invariant *)

\* The tables that references lead to.
Targets == Registered \cup {"users", "gateway_profiles"}

\* The columns of a row.
RowColumns(t) ==
    CASE t = "sites" -> {"id", "company_id"}
      [] t = "gateways" -> {"id", "serial_number", "company_id", "site_id",
                            "gateway_profile_id"}
      [] t = "sensor_channels" -> {"id", "gateway_id", "slug", "sensor_profile_id"}
      [] t = "actuator_channels" -> {"id", "gateway_id", "slug"}
      [] t = "commands" -> {"id", "gateway_id", "actuator_channel_id"}
      [] OTHER -> {"id"}

\* Every row has the columns of its table and an id that was handed out.
RowsOK ==
    /\ db = [t \in Tables |-> db[t]]
    /\ made \in [Registered -> Nat]
    /\ \A t \in Registered : made[t] <= Cap[t]
    /\ \A t \in Registered : \A x \in db[t] : DOMAIN x = RowColumns(t) /\ x.id \in 1..made[t]
    /\ \A k \in db["commands"] : k.gateway_id # None /\ k.actuator_channel_id # None

\* EveryGatewayHasAdmin, without the list that follows from it.
HasAdmin == \A g \in db["gateways"] : \E u \in Users : Admin(u, g.id) \in Perms

DataInv == RowsOK /\ Integrity /\ HasAdmin

\* Some permission of the user grants what is needed.
Holds(u, g, needed) ==
    \E p \in Perms : p.user_id = u /\ p.gateway_id = g /\ p.permission \in {needed, "admin"}

\* An id of table t was handed out, and no row that has it belongs to another gateway.
Names(t, i, g) == i \in 1..made[t] /\ \A x \in db[t] : x.id = i => x.gateway_id = g

RequestFields == {"at", "user", "gateway", "table", "row"}

\* What a request under way has read and is still true.
StageOK(q) ==
    \/ /\ q.at = "insert" /\ q.table \in Cascaded
       /\ DOMAIN q.row = RowColumns(q.table) /\ q.row.gateway_id = q.gateway
       /\ Holds(q.user, q.gateway, "configure")
    \/ /\ q.at = "command"
       /\ DOMAIN q.row = RowColumns("commands") /\ q.row.gateway_id = q.gateway
       /\ q.table = "commands" /\ q.gateway # None
       /\ Names("actuator_channels", q.row.actuator_channel_id, q.gateway)
       /\ Holds(q.user, q.gateway, "control")
    \/ /\ q.at = "publish"
       /\ q.row \in db["commands"] /\ q.row.gateway_id = q.gateway
       /\ Names("actuator_channels", q.row.actuator_channel_id, q.gateway)
    \/ /\ q.at = "update"
       /\ DOMAIN q.row \subseteq {"id", "site_id", "gateway_profile_id"}
       /\ "id" \in DOMAIN q.row /\ q.row.id = q.gateway
       /\ Holds(q.user, q.gateway, "configure")
    \/ /\ q.at = "load"
       /\ Holds(q.user, q.gateway, "admin")
    \/ /\ q.at = "flush"
       /\ \A t \in Cascaded : \A i \in q.row[t] : Names(t, i, q.gateway)
       /\ \/ q.row["gateways"] = {} /\ Holds(q.user, q.gateway, "configure")
          \/ q.row["gateways"] = {q.gateway} /\ Holds(q.user, q.gateway, "admin")

RequestOK(q) == q = Idle \/ (DOMAIN q = RequestFields /\ StageOK(q))

\* Why no request, whatever overtakes it, breaks what another relies on.
IInv ==
    /\ DataInv
    /\ grants \in 0..MaxGrants
    /\ req = [c \in Clients |-> req[c]]
    /\ \A c \in Clients : RequestOK(req[c])

\* What every commit leaves to the requests under way: permissions and commands stay,
\* and a channel that comes has a new id.
Keeps ==
    /\ Perms \subseteq Perms'
    /\ db["commands"] \subseteq db'["commands"]
    /\ \A t \in Cascaded :
          /\ made[t] \in Nat /\ made'[t] \in Nat /\ made[t] <= made'[t]
          /\ \A x \in db'[t] : x \in db[t] \/ x.id \notin 1..made[t]
-------------------------------------------------------------------------------
(* the tables *)

\* The references of the tables, and where they lead.
LEMMA References ==
    /\ Orm["companies"].refs = {} /\ Orm["sensor_profiles"].refs = {}
    /\ Orm["sites"].refs = {<<"company_id", "companies">>}
    /\ Orm["gateways"].refs = {<<"company_id", "companies">>, <<"site_id", "sites">>,
                               <<"gateway_profile_id", "gateway_profiles">>}
    /\ Orm["sensor_channels"].refs = {<<"gateway_id", "gateways">>,
                                      <<"sensor_profile_id", "sensor_profiles">>}
    /\ Orm["actuator_channels"].refs = {<<"gateway_id", "gateways">>}
    /\ Orm["commands"].refs = {<<"gateway_id", "gateways">>, <<"issued_by", "users">>,
                               <<"actuator_channel_id", "actuator_channels">>}
<1>1. /\ Orm["companies"].refs = {} /\ Orm["sensor_profiles"].refs = {}
      /\ Orm["sites"].refs = {<<"company_id", "companies">>}
  BY DEF Orm, Company, SensorProfile, Site, Model
<1>2. Orm["gateways"].refs = {<<"company_id", "companies">>, <<"site_id", "sites">>,
                              <<"gateway_profile_id", "gateway_profiles">>}
  BY DEF Orm, Gateway, Model
<1>3. /\ Orm["sensor_channels"].refs = {<<"gateway_id", "gateways">>,
                                        <<"sensor_profile_id", "sensor_profiles">>}
      /\ Orm["actuator_channels"].refs = {<<"gateway_id", "gateways">>}
  BY DEF Orm, SensorChannel, ActuatorChannel, Model
<1>4. Orm["commands"].refs = {<<"gateway_id", "gateways">>, <<"issued_by", "users">>,
                              <<"actuator_channel_id", "actuator_channels">>}
  BY DEF Orm, Command, Model
<1> QED
  BY <1>1, <1>2, <1>3, <1>4

LEMMA RefTarget ==
    ASSUME NEW t \in Registered, NEW ref \in Orm[t].refs PROVE ref[2] \in Targets
<1>1. CASE t \in {"companies", "sites", "sensor_profiles", "gateways"}
  BY <1>1, References DEF Targets, Registered
<1>2. CASE t \in {"sensor_channels", "actuator_channels", "commands"}
  BY <1>2, References DEF Targets, Registered
<1> QED
  BY <1>1, <1>2 DEF Registered

\* The keys of the tables, all of them columns of the rows.
LEMMA Keys ==
    /\ \A t \in {"companies", "sites", "sensor_profiles", "commands"} : Orm[t].keys = {{"id"}}
    /\ Orm["gateways"].keys = {{"id"}, {"serial_number"}}
    /\ \A t \in Cascaded : Orm[t].keys = {{"id"}, {"gateway_id", "slug"}}
<1>1. /\ Orm["companies"].keys = {{"id"}} /\ Orm["sites"].keys = {{"id"}}
      /\ Orm["sensor_profiles"].keys = {{"id"}} /\ Orm["commands"].keys = {{"id"}}
  BY DEF Orm, Company, Site, SensorProfile, Command, Model
<1>2. Orm["gateways"].keys = {{"id"}, {"serial_number"}}
  BY DEF Orm, Gateway, Model
<1>3. /\ Orm["sensor_channels"].keys = {{"id"}, {"gateway_id", "slug"}}
      /\ Orm["actuator_channels"].keys = {{"id"}, {"gateway_id", "slug"}}
  BY DEF Orm, SensorChannel, ActuatorChannel, Model
<1> QED
  BY <1>1, <1>2, <1>3 DEF Cascaded

LEMMA KeyColumns ==
    ASSUME NEW t \in Registered, NEW k \in Orm[t].keys PROVE k \subseteq RowColumns(t)
<1>1. CASE t \in {"companies", "sites", "sensor_profiles", "commands"}
  BY <1>1, Keys DEF RowColumns
<1>2. CASE t = "gateways"
  BY <1>2, Keys DEF RowColumns
<1>3. CASE t \in Cascaded
  BY <1>3, Keys DEF RowColumns, Cascaded
<1> QED
  BY <1>1, <1>2, <1>3 DEF Registered, Cascaded

\* The id is a key of every table.
LEMMA IdIsKey == \A t \in Registered : {"id"} \in Orm[t].keys /\ "id" \in RowColumns(t)
<1>1. \A t \in Registered : {"id"} \in Orm[t].keys
  BY Keys DEF Registered, Cascaded
<1> QED
  BY <1>1, KeyColumns

\* Where the tables are.
LEMMA TablesHere ==
    /\ Targets \subseteq Tables /\ Registered \subseteq Targets
    /\ Cascaded \subseteq Registered /\ Deletable \subseteq Registered
    /\ "user_gateway_permissions" \in Tables \ Targets
    /\ {"companies", "sites", "sensor_profiles", "gateways", "commands"} \subseteq Registered
    /\ "commands" \notin Deletable /\ "gateways" \notin Cascaded
  BY DEF Targets, Tables, Registered, Cascaded, Deletable

\* Where the rows stay, references stay.
LEMMA RefsKept ==
    ASSUME NEW t \in Registered, NEW r, ~Dangles(t, r),
           \A u \in Targets : \A x \in db[u] : \E y \in db'[u] : y.id = x.id
    PROVE  ~Dangles(t, r)'
<1> SUFFICES ASSUME NEW ref \in Orm[t].refs, ref[1] \in DOMAIN r, r[ref[1]] # None
             PROVE  \E y \in db'[ref[2]] : y.id = r[ref[1]]
  BY DEF Dangles, Row
<1>1. ref[2] \in Targets
  BY RefTarget
<1>2. PICK x \in db[ref[2]] : x.id = r[ref[1]]
  BY DEF Dangles, Row
<1> QED
  BY <1>1, <1>2

\* Rows with the same id are the same row.
LEMMA SameId ==
    ASSUME DataInv, NEW t \in Registered, NEW x \in db[t], NEW y \in db[t], x.id = y.id
    PROVE  x = y
<1>1. {"id"} \in Orm[t].keys /\ "id" \in DOMAIN x
  BY IdIsKey DEF DataInv, RowsOK
<1>2. \A c \in {"id"} : x[c] = y[c]
  OBVIOUS
<1> QED
  BY <1>1, <1>2 DEF DataInv, Integrity
-------------------------------------------------------------------------------
(* what the steps do to the rows *)

\* An INSERT that PostgreSQL accepts, with the next id.
LEMMA AddRow ==
    ASSUME DataInv, NEW t \in Registered, NEW r, DOMAIN r = RowColumns(t),
           r.id = made[t] + 1, Adds(t, r),
           db' = [u \in Tables |-> db'[u]], db'[t] = db[t] \cup {r},
           \A u \in Targets \ {t} : db'[u] = db[u], Perms \subseteq Perms',
           t = "gateways" => \E u \in Users : Admin(u, r.id) \in Perms',
           t = "commands" => r.gateway_id # None /\ r.actuator_channel_id # None
    PROVE  DataInv' /\ Keeps
<1>1. /\ \A u \in Registered : made[u] \in Nat /\ Cap[u] \in Nat
      /\ made'[t] = made[t] + 1 /\ \A u \in Registered \ {t} : made'[u] = made[u]
      /\ made' \in [Registered -> Nat] /\ made[t] < Cap[t]
  <2>1. /\ made \in [Registered -> Nat] /\ Cap \in [Registered -> Nat]
        /\ made' = [made EXCEPT ![t] = made[t] + 1] /\ made[t] < Cap[t]
    BY RegistryAssumption DEF DataInv, RowsOK, Adds
  <2> QED
    BY <2>1
<1>2. \A u \in Registered \ {t} : db'[u] = db[u]
  BY TablesHere
<1>3. RowsOK'
  <2>1. ASSUME NEW u \in Registered
        PROVE  /\ made'[u] <= Cap[u]
               /\ \A x \in db'[u] : DOMAIN x = RowColumns(u) /\ x.id \in 1..made'[u]
    <3>1. CASE u # t
      BY <1>1, <1>2, <3>1 DEF DataInv, RowsOK
    <3>2. CASE u = t
      <4>1. made'[t] <= Cap[t] /\ r.id \in 1..made'[t]
        BY <1>1
      <4>2. \A x \in db[t] : DOMAIN x = RowColumns(t) /\ x.id \in 1..made'[t]
        BY <1>1 DEF DataInv, RowsOK
      <4> QED
        BY <3>2, <4>1, <4>2
    <3> QED
      BY <3>1, <3>2
  <2>2. \A k \in db'["commands"] : k.gateway_id # None /\ k.actuator_channel_id # None
    BY <1>2, TablesHere DEF DataInv, RowsOK
  <2> QED
    BY <1>1, <2>1, <2>2 DEF RowsOK
<1>4. \A u \in Targets : \A x \in db[u] : \E y \in db'[u] : y.id = x.id
  OBVIOUS
<1>5. ASSUME NEW u \in Registered, NEW x \in db'[u] PROVE ~Dangles(u, x)'
  <2>1. ~Dangles(u, x)
    BY <1>2, <1>5 DEF DataInv, Integrity, Adds
  <2> QED
    BY <1>4, <2>1, RefsKept
<1>6. ASSUME NEW u \in Registered, NEW k \in Orm[u].keys, NEW x \in db'[u], NEW y \in db'[u],
             \A c \in k : x[c] = y[c]
      PROVE  x = y
  <2>1. k \subseteq RowColumns(u)
    BY KeyColumns
  <2>2. CASE x \in db[u] /\ y \in db[u]
    <3>1. k \subseteq DOMAIN x
      BY <2>1, <2>2 DEF DataInv, RowsOK
    <3> QED
      BY <1>6, <2>2, <3>1 DEF DataInv, Integrity
  <2>3. CASE u = t
    <3>1. \A z \in db[t] : ~(\A c \in k : z[c] = r[c])
      BY <2>1, <2>3 DEF Adds, Taken
    <3> QED
      BY <1>6, <2>2, <2>3, <3>1
  <2> QED
    BY <1>2, <2>2, <2>3
<1>7. Integrity'
  BY <1>5, <1>6 DEF Integrity
<1>8. HasAdmin'
  <2>1. CASE t # "gateways"
    BY <1>2, <2>1, TablesHere DEF DataInv, HasAdmin
  <2>2. CASE t = "gateways"
    BY <2>2 DEF DataInv, HasAdmin
  <2> QED
    BY <2>1, <2>2
<1>9. Keeps
  <2>1. db["commands"] \subseteq db'["commands"]
    BY <1>2, TablesHere
  <2>2. ASSUME NEW v \in Cascaded
        PROVE  /\ made[v] \in Nat /\ made'[v] \in Nat /\ made[v] <= made'[v]
               /\ \A x \in db'[v] : x \in db[v] \/ x.id \notin 1..made[v]
    <3>1. CASE v = t
      BY <1>1, <3>1
    <3>2. CASE v # t
      BY <1>1, <1>2, <3>2, TablesHere
    <3> QED
      BY <3>1, <3>2
  <2> QED
    BY <2>1, <2>2 DEF Keeps
<1> QED
  BY <1>3, <1>7, <1>8, <1>9 DEF DataInv

\* A step that writes no row that anybody refers to.
LEMMA NothingWritten ==
    ASSUME DataInv, made' = made, db' = [u \in Tables |-> db'[u]],
           \A u \in Targets : db'[u] = db[u], Perms \subseteq Perms'
    PROVE  DataInv' /\ Keeps
<1>1. \A u \in Registered : db'[u] = db[u]
  BY TablesHere
<1>2. RowsOK'
  BY <1>1, TablesHere DEF DataInv, RowsOK
<1>3. ASSUME NEW u \in Registered, NEW x \in db'[u] PROVE ~Dangles(u, x)'
  <2>1. ~Dangles(u, x)
    BY <1>1 DEF DataInv, Integrity
  <2> QED
    BY <2>1, RefsKept
<1>4. \A u \in Registered : \A k \in Orm[u].keys : \A x, y \in db'[u] :
        k \subseteq DOMAIN x /\ (\A c \in k : x[c] = y[c]) => x = y
  BY <1>1 DEF DataInv, Integrity
<1>5. HasAdmin'
  BY <1>1, TablesHere DEF DataInv, HasAdmin
<1>6. Keeps
  BY <1>1, TablesHere DEF Keeps, DataInv, RowsOK
<1> QED
  BY <1>2, <1>3, <1>4, <1>5, <1>6 DEF DataInv, Integrity

\* What a request under way relies on outlasts the commits of others.
LEMMA RequestKept ==
    ASSUME Keeps, NEW q, RequestOK(q)
    PROVE  RequestOK(q)'
<1>1. ASSUME NEW u, NEW g, NEW needed, Holds(u, g, needed) PROVE Holds(u, g, needed)'
  BY <1>1 DEF Keeps, Holds
<1>2. ASSUME NEW t \in Cascaded, NEW i, NEW g, Names(t, i, g) PROVE Names(t, i, g)'
  BY <1>2 DEF Keeps, Names
<1>3. "actuator_channels" \in Cascaded
  BY DEF Cascaded
<1>4. CASE q = Idle
  BY <1>4 DEF RequestOK
<1>5. CASE DOMAIN q = RequestFields /\ StageOK(q)
  <2>1. StageOK(q)'
    <3>1. CASE q.at = "insert"
      BY <1>1, <1>5, <3>1 DEF StageOK
    <3>2. CASE q.at = "command"
      BY <1>1, <1>2, <1>3, <1>5, <3>2 DEF StageOK
    <3>3. CASE q.at = "publish"
      <4>1. q.row \in db'["commands"]
        BY <1>5, <3>3 DEF StageOK, Keeps
      <4> QED
        BY <1>2, <1>3, <1>5, <3>3, <4>1 DEF StageOK
    <3>4. CASE q.at \in {"update", "load"}
      BY <1>1, <1>5, <3>4 DEF StageOK
    <3>5. CASE q.at = "flush"
      BY <1>1, <1>2, <1>5, <3>5 DEF StageOK
    <3> QED
      BY <1>5, <3>1, <3>2, <3>3, <3>4, <3>5 DEF StageOK
  <2> QED
    BY <1>5, <2>1 DEF RequestOK
<1> QED
  BY <1>4, <1>5 DEF RequestOK

\* The requests after a step of c, and after one of nobody.
LEMMA RequestsFrom ==
    ASSUME IInv, Keeps, NEW c \in Clients, NEW q, req' = [req EXCEPT ![c] = q],
           RequestOK(q)'
    PROVE  req' = [d \in Clients |-> req'[d]] /\ \A d \in Clients : RequestOK(req[d])'
<1>1. req' = [d \in Clients |-> IF d = c THEN q ELSE req[d]]
  BY DEF IInv
<1>2. ASSUME NEW d \in Clients, d # c PROVE RequestOK(req[d])'
  <2>1. PICK p : p = req[d]
    OBVIOUS
  <2>2. RequestOK(p)'
    BY <2>1, RequestKept DEF IInv
  <2>3. p = req'[d]
    BY <1>1, <1>2, <2>1
  <2> QED
    BY <2>2, <2>3
<1>3. RequestOK(req[c])'
  <2>1. req'[c] = q
    BY <1>1
  <2> QED
    BY <2>1
<1> QED
  BY <1>1, <1>2, <1>3

LEMMA RequestsStay ==
    ASSUME IInv, Keeps, req' = req
    PROVE  req' = [d \in Clients |-> req'[d]] /\ \A d \in Clients : RequestOK(req[d])'
<1>1. ASSUME NEW d \in Clients PROVE RequestOK(req[d])'
  <2>1. PICK p : p = req[d]
    OBVIOUS
  <2>2. RequestOK(p)'
    BY <2>1, RequestKept DEF IInv
  <2> QED
    BY <2>1, <2>2
<1> QED
  BY <1>1 DEF IInv
-------------------------------------------------------------------------------
(* the steps *)

\* POST of a company, a site or a profile.
LEMMA PostStep ==
    ASSUME IInv, NEW t \in {"companies", "sites", "sensor_profiles"}, NEW r,
           DOMAIN r = RowColumns(t), r.id = made[t] + 1, Post(t, r)
    PROVE  IInv'
<1>1. /\ Adds(t, r) /\ db' = [db EXCEPT ![t] = @ \cup {r}] /\ grants' = grants /\ req' = req
  BY DEF Post
<1>2. t \in Registered /\ t \in Tables /\ t \notin {"gateways", "commands"}
  BY TablesHere
<1>3. /\ db' = [u \in Tables |-> db'[u]] /\ db'[t] = db[t] \cup {r}
      /\ \A u \in Tables \ {t} : db'[u] = db[u]
  BY <1>1, <1>2 DEF IInv, DataInv, RowsOK
<1>4. Perms' = Perms /\ \A u \in Targets \ {t} : db'[u] = db[u]
  BY <1>2, <1>3, TablesHere DEF Perms
<1>5. DataInv' /\ Keeps
  BY <1>1, <1>2, <1>3, <1>4, AddRow DEF IInv
<1> QED
  BY <1>1, <1>5, RequestsStay DEF IInv

LEMMA CreateSteps ==
    ASSUME IInv, CreateCompany \/ CreateSite \/ CreateSensorProfile
    PROVE  IInv'
<1>1. CASE CreateCompany
  <2>1. PICK r : r = [id |-> made["companies"] + 1]
    OBVIOUS
  <2>2. DOMAIN r = RowColumns("companies") /\ r.id = made["companies"] + 1
    BY <2>1 DEF RowColumns
  <2>3. Post("companies", r)
    BY <1>1, <2>1 DEF CreateCompany
  <2> QED
    BY <2>2, <2>3, PostStep
<1>2. CASE CreateSensorProfile
  <2>1. PICK r : r = [id |-> made["sensor_profiles"] + 1]
    OBVIOUS
  <2>2. DOMAIN r = RowColumns("sensor_profiles") /\ r.id = made["sensor_profiles"] + 1
    BY <2>1 DEF RowColumns
  <2>3. Post("sensor_profiles", r)
    BY <1>2, <2>1 DEF CreateSensorProfile
  <2> QED
    BY <2>2, <2>3, PostStep
<1>3. CASE CreateSite
  <2>1. PICK k \in Ids("companies") :
          Post("sites", [id |-> made["sites"] + 1, company_id |-> k])
    BY <1>3 DEF CreateSite
  <2>2. PICK r : r = [id |-> made["sites"] + 1, company_id |-> k]
    OBVIOUS
  <2>3. DOMAIN r = RowColumns("sites") /\ r.id = made["sites"] + 1
    BY <2>2 DEF RowColumns
  <2>4. Post("sites", r)
    BY <2>1, <2>2
  <2> QED
    BY <2>3, <2>4, PostStep
<1> QED
  BY <1>1, <1>2, <1>3

\* POST /gateways: the gateway comes with its permission.
LEMMA RegisterStep == ASSUME IInv, RegisterGateway PROVE IInv'
<1>1. PICK u \in Users, s \in Serials, k \in Ids("companies"),
           p \in Ids("sites") \cup {None}, h \in Profiles \cup {None} :
              Registers(u, NewGateway(s, k, p, h))
  BY DEF RegisterGateway
<1>2. PICK r : r = NewGateway(s, k, p, h)
  OBVIOUS
<1>3. DOMAIN r = RowColumns("gateways") /\ r.id = made["gateways"] + 1
  BY <1>2 DEF NewGateway, RowColumns
<1>4. /\ Adds("gateways", r) /\ grants' = grants /\ req' = req
      /\ db' = [db EXCEPT !["gateways"] = @ \cup {r},
                          !["user_gateway_permissions"] = @ \cup {Admin(u, r.id)}]
  BY <1>1, <1>2 DEF Registers, RegisterGateway
<1>5. /\ db' = [t \in Tables |-> db'[t]] /\ db'["gateways"] = db["gateways"] \cup {r}
      /\ \A t \in Targets \ {"gateways"} : db'[t] = db[t]
      /\ Perms' = Perms \cup {Admin(u, r.id)}
  BY <1>4, TablesHere DEF IInv, DataInv, RowsOK, Perms
<1>6. DataInv' /\ Keeps
  BY <1>3, <1>4, <1>5, AddRow, TablesHere DEF IInv
<1> QED
  BY <1>4, <1>6, RequestsStay DEF IInv

\* A permission that is granted by SQL.
LEMMA GrantStep == ASSUME IInv, GrantBySql PROVE IInv'
<1>1. /\ made' = made /\ req' = req /\ grants < MaxGrants /\ grants' = grants + 1
      /\ \E new : db' = [db EXCEPT !["user_gateway_permissions"] = @ \cup {new}]
  BY DEF GrantBySql
<1>2. /\ db' = [t \in Tables |-> db'[t]] /\ Perms \subseteq Perms'
      /\ \A t \in Targets : db'[t] = db[t]
  BY <1>1, TablesHere DEF IInv, DataInv, RowsOK, Perms
<1>3. DataInv' /\ Keeps
  BY <1>1, <1>2, NothingWritten DEF IInv
<1>4. grants' \in 0..MaxGrants
  BY <1>1, RegistryAssumption DEF IInv
<1> QED
  BY <1>1, <1>3, <1>4, RequestsStay DEF IInv

\* A step that only reads, and leaves request c as q.
LEMMA ReadStep ==
    ASSUME IInv, NEW c \in Clients, NEW q, req' = [req EXCEPT ![c] = q], RequestOK(q),
           UNCHANGED <<db, made, grants>>
    PROVE  IInv'
<1>1. DataInv' /\ Keeps
  <2>1. db' = [t \in Tables |-> db'[t]] /\ Perms' = Perms
    BY DEF IInv, DataInv, RowsOK, Perms
  <2> QED
    BY <2>1, NothingWritten DEF IInv
<1>2. RequestOK(q)'
  BY <1>1, RequestKept
<1> QED
  BY <1>1, <1>2, RequestsFrom DEF IInv

\* One row that grants a permission is a permission.
LEMMA GrantedHolds ==
    ASSUME NEW u, NEW g, NEW required, CheckPerm(u, g, required) PROVE Holds(u, g, required)
<1>1. Granted(u, g, required) # {}
  BY FS_EmptySet DEF CheckPerm
<1> QED
  BY <1>1 DEF Granted, Holds

\* The request that a check lets through.
LEMMA CheckedStep ==
    ASSUME IInv, NEW c \in Clients, NEW q, NEW required, Checked(c, q, required),
           DOMAIN q = RequestFields,
           Holds(q.user, q.gateway, required) => StageOK(q)
    PROVE  IInv'
<1>1. RequestOK(q)
  BY GrantedHolds DEF Checked, RequestOK
<1> QED
  BY <1>1, ReadStep DEF Checked

\* The fields of a request.
LEMMA RequestRecord ==
    ASSUME NEW op, NEW u, NEW g, NEW t, NEW r, NEW q, q = Request(op, u, g, t, r)
    PROVE  /\ DOMAIN q = RequestFields
           /\ q.at = op /\ q.user = u /\ q.gateway = g /\ q.table = t /\ q.row = r
  BY DEF Request, RequestFields

\* An id that a row has names the gateway of the row.
LEMMA RowNames ==
    ASSUME DataInv, NEW t \in Cascaded, NEW x \in db[t] PROVE Names(t, x.id, x.gateway_id)
<1>1. t \in Registered
  BY TablesHere
<1>2. x.id \in 1..made[t]
  BY <1>1 DEF DataInv, RowsOK
<1>3. \A y \in db[t] : y.id = x.id => y.gateway_id = x.gateway_id
  BY <1>1, SameId
<1> QED
  BY <1>2, <1>3 DEF Names

\* The requests that begin.
LEMMA BeginSteps ==
    ASSUME IInv, NEW c \in Clients,
           \/ AddSensorChannel(c) \/ AddActuatorChannel(c) \/ IssueCommand(c)
           \/ UpdateGateway(c) \/ DeleteGateway(c)
           \/ DeleteSensorChannel(c) \/ DeleteActuatorChannel(c)
    PROVE  IInv'
<1>1. CASE AddSensorChannel(c)
  <2>1. PICK u \in Users, g \in Ids("gateways"), s \in ChannelSlugs, p \in Ids("sensor_profiles") :
          Checked(c, Request("insert", u, g, "sensor_channels",
                             [id |-> None, gateway_id |-> g, slug |-> s, sensor_profile_id |-> p]),
                  "configure")
    BY <1>1 DEF AddSensorChannel
  <2>2. PICK r : r = [id |-> None, gateway_id |-> g, slug |-> s, sensor_profile_id |-> p]
    OBVIOUS
  <2>3. DOMAIN r = RowColumns("sensor_channels") /\ r.gateway_id = g
    BY <2>2 DEF RowColumns
  <2>4. PICK q : q = Request("insert", u, g, "sensor_channels", r)
    OBVIOUS
  <2>5. Checked(c, q, "configure")
    BY <2>1, <2>2, <2>4
  <2>6. /\ DOMAIN q = RequestFields /\ q.at = "insert" /\ q.user = u /\ q.gateway = g
        /\ q.table = "sensor_channels" /\ q.row = r
    BY <2>4, RequestRecord
  <2>7. Holds(q.user, q.gateway, "configure") => StageOK(q)
    BY <2>3, <2>6 DEF StageOK, Cascaded
  <2> QED
    BY <2>5, <2>6, <2>7, CheckedStep
<1>2. CASE AddActuatorChannel(c)
  <2>1. PICK u \in Users, g \in Ids("gateways"), s \in ChannelSlugs :
          Checked(c, Request("insert", u, g, "actuator_channels",
                             [id |-> None, gateway_id |-> g, slug |-> s]),
                  "configure")
    BY <1>2 DEF AddActuatorChannel
  <2>2. PICK r : r = [id |-> None, gateway_id |-> g, slug |-> s]
    OBVIOUS
  <2>3. DOMAIN r = RowColumns("actuator_channels") /\ r.gateway_id = g
    BY <2>2 DEF RowColumns
  <2>4. PICK q : q = Request("insert", u, g, "actuator_channels", r)
    OBVIOUS
  <2>5. Checked(c, q, "configure")
    BY <2>1, <2>2, <2>4
  <2>6. /\ DOMAIN q = RequestFields /\ q.at = "insert" /\ q.user = u /\ q.gateway = g
        /\ q.table = "actuator_channels" /\ q.row = r
    BY <2>4, RequestRecord
  <2>7. Holds(q.user, q.gateway, "configure") => StageOK(q)
    BY <2>3, <2>6 DEF StageOK, Cascaded
  <2> QED
    BY <2>5, <2>6, <2>7, CheckedStep
<1>3. CASE IssueCommand(c)
  <2>1. PICK u \in Users, g \in Ids("gateways") : \E x \in db["actuator_channels"] :
          /\ x.gateway_id = g
          /\ Checked(c, Request("command", u, g, "commands",
                                [id |-> None, gateway_id |-> g, actuator_channel_id |-> x.id]),
                     "control")
    BY <1>3 DEF IssueCommand
  <2>2. PICK a \in db["actuator_channels"] :
          /\ a.gateway_id = g
          /\ Checked(c, Request("command", u, g, "commands",
                                [id |-> None, gateway_id |-> g, actuator_channel_id |-> a.id]),
                     "control")
    BY <2>1
  <2>3. PICK r : r = [id |-> None, gateway_id |-> g, actuator_channel_id |-> a.id]
    OBVIOUS
  <2>4. DOMAIN r = RowColumns("commands") /\ r.gateway_id = g /\ r.actuator_channel_id = a.id
    BY <2>3 DEF RowColumns
  <2>5. PICK q : q = Request("command", u, g, "commands", r)
    OBVIOUS
  <2>6. Checked(c, q, "control")
    BY <2>2, <2>3, <2>5
  <2>7. /\ DOMAIN q = RequestFields /\ q.at = "command" /\ q.user = u /\ q.gateway = g
        /\ q.table = "commands" /\ q.row = r
    BY <2>5, RequestRecord
  <2>8. Names("actuator_channels", a.id, g)
    BY <2>2, RowNames DEF IInv, Cascaded
  <2>9. g # None
    BY RegistryAssumption DEF Ids, None, Registered
  <2>10. Holds(q.user, q.gateway, "control") => StageOK(q)
    BY <2>4, <2>7, <2>8, <2>9 DEF StageOK
  <2> QED
    BY <2>6, <2>7, <2>10, CheckedStep
<1>4. CASE UpdateGateway(c)
  <2> DEFINE Sent(i, p, h) == [id |-> i, site_id |-> p, gateway_profile_id |-> h]
  <2>1. PICK u \in Users, p \in Ids("sites") \cup {None}, h \in Profiles \cup {None} :
          \E x \in db["gateways"] :
             LET sent == Sent(x.id, p, h)
                 fields == {"id"} \cup {f \in {"site_id", "gateway_profile_id"} : sent[f] # x[f]}
             IN  Checked(c, Request("update", u, x.id, "gateways", [f \in fields |-> sent[f]]),
                         "configure")
    BY <1>4 DEF UpdateGateway
  <2>2. PICK x \in db["gateways"] :
          LET sent == Sent(x.id, p, h)
              fields == {"id"} \cup {f \in {"site_id", "gateway_profile_id"} : sent[f] # x[f]}
          IN  Checked(c, Request("update", u, x.id, "gateways", [f \in fields |-> sent[f]]),
                      "configure")
    BY <2>1
  <2>3. PICK sent, i : i = x.id /\ sent = Sent(i, p, h)
    OBVIOUS
  <2>4. PICK fields : fields = {"id"} \cup {f \in {"site_id", "gateway_profile_id"} : sent[f] # x[f]}
    OBVIOUS
  <2>5. PICK r : r = [f \in fields |-> sent[f]]
    OBVIOUS
  <2>6. /\ DOMAIN r \subseteq {"id", "site_id", "gateway_profile_id"}
        /\ "id" \in DOMAIN r /\ r.id = i
    <3>1. sent.id = i
      BY <2>3
    <3> QED
      BY <2>4, <2>5, <3>1
  <2>7. PICK q : q = Request("update", u, i, "gateways", r)
    OBVIOUS
  <2>8. Checked(c, q, "configure")
    BY <2>2, <2>3, <2>4, <2>5, <2>7
  <2>9. /\ DOMAIN q = RequestFields /\ q.at = "update" /\ q.user = u /\ q.gateway = i
        /\ q.row = r
    BY <2>7, RequestRecord
  <2>10. Holds(q.user, q.gateway, "configure") => StageOK(q)
    BY <2>6, <2>9 DEF StageOK
  <2> QED
    BY <2>8, <2>9, <2>10, CheckedStep
<1>5. CASE DeleteGateway(c)
  <2>1. PICK u \in Users, g \in Ids("gateways") :
          Checked(c, Request("load", u, g, "gateways", [id |-> g]), "admin")
    BY <1>5 DEF DeleteGateway
  <2>2. PICK q : q = Request("load", u, g, "gateways", [id |-> g])
    OBVIOUS
  <2>3. DOMAIN q = RequestFields /\ q.at = "load" /\ q.user = u /\ q.gateway = g
    BY <2>2, RequestRecord
  <2>4. Holds(q.user, q.gateway, "admin") => StageOK(q)
    BY <2>3 DEF StageOK
  <2> QED
    BY <2>1, <2>2, <2>3, <2>4, CheckedStep
<1>6. ASSUME NEW t \in Cascaded, DeleteChannel(c, t) PROVE IInv'
  <2>1. PICK u \in Users : \E x \in db[t] :
          Checked(c, Request("flush", u, x.gateway_id, t,
                             [v \in Deletable |-> IF v = t THEN {x.id} ELSE {}]),
                  "configure")
    BY <1>6 DEF DeleteChannel
  <2>2. PICK x \in db[t] :
          Checked(c, Request("flush", u, x.gateway_id, t,
                             [v \in Deletable |-> IF v = t THEN {x.id} ELSE {}]),
                  "configure")
    BY <2>1
  <2>3. PICK g, gone : /\ g = x.gateway_id
                       /\ gone = [v \in Deletable |-> IF v = t THEN {x.id} ELSE {}]
    OBVIOUS
  <2>4. PICK q : q = Request("flush", u, g, t, gone)
    OBVIOUS
  <2>5. Checked(c, q, "configure")
    BY <2>2, <2>3, <2>4
  <2>6. DOMAIN q = RequestFields /\ q.at = "flush" /\ q.user = u /\ q.gateway = g /\ q.row = gone
    BY <2>4, RequestRecord
  <2>7. Names(t, x.id, g)
    BY <1>6, <2>3, RowNames DEF IInv
  <2>8. gone["gateways"] = {} /\ \A v \in Cascaded : gone[v] = IF v = t THEN {x.id} ELSE {}
    BY <1>6, <2>3, TablesHere DEF Deletable
  <2>9. Holds(q.user, q.gateway, "configure") => StageOK(q)
    BY <2>6, <2>7, <2>8 DEF StageOK
  <2> QED
    BY <2>5, <2>6, <2>9, CheckedStep
<1> QED
  BY <1>1, <1>2, <1>3, <1>4, <1>5, <1>6 DEF DeleteSensorChannel, DeleteActuatorChannel, Cascaded

\* A request under way.
LEMMA UnderWay ==
    ASSUME IInv, NEW c \in Clients, req[c].at # "idle"
    PROVE  DOMAIN req[c] = RequestFields /\ StageOK(req[c])
  BY DEF IInv, RequestOK, Idle

\* The requests that end, and the one that has loaded the channels.
LEMMA EndSteps ==
    ASSUME IInv, NEW c \in Clients, Fails(c) \/ Publish(c) \/ LoadChannels(c)
    PROVE  IInv'
<1>1. CASE Fails(c) \/ Publish(c)
  <2>1. req' = [req EXCEPT ![c] = Idle] /\ UNCHANGED <<db, made, grants>>
    BY <1>1 DEF Fails, Publish
  <2> QED
    BY <2>1, ReadStep DEF RequestOK
<1>2. CASE LoadChannels(c)
  <2>1. req[c].at = "load"
    BY <1>2 DEF LoadChannels
  <2>2. DOMAIN req[c] = RequestFields /\ Holds(req[c].user, req[c].gateway, "admin")
    BY <2>1, UnderWay DEF StageOK
  <2>3. PICK p, g : p = req[c] /\ g = p.gateway
    OBVIOUS
  <2>4. PICK gone : gone = [t \in Deletable |-> IF t = "gateways" THEN {g}
                              ELSE {x.id : x \in {y \in db[t] : y.gateway_id = g}}]
    OBVIOUS
  <2>5. /\ req' = [req EXCEPT ![c].at = "flush", ![c].row = gone]
        /\ UNCHANGED <<db, made, grants>>
    BY <1>2, <2>3, <2>4 DEF LoadChannels
  <2>6. PICK q : q = [p EXCEPT !.at = "flush", !.row = gone]
    OBVIOUS
  <2>7. req' = [req EXCEPT ![c] = q]
    BY <2>3, <2>5, <2>6 DEF IInv
  <2>8. /\ DOMAIN q = RequestFields /\ q.at = "flush" /\ q.row = gone
        /\ q.user = p.user /\ q.gateway = g
    BY <2>2, <2>3, <2>6 DEF RequestFields
  <2>9. gone["gateways"] = {g}
    BY <2>4 DEF Deletable
  <2>10. ASSUME NEW t \in Cascaded, NEW i \in gone[t] PROVE Names(t, i, g)
    <3>1. i \in {x.id : x \in {y \in db[t] : y.gateway_id = g}}
      BY <2>4, <2>10, TablesHere DEF Deletable
    <3>2. PICK x \in db[t] : x.gateway_id = g /\ i = x.id
      BY <3>1
    <3> QED
      BY <3>2, RowNames DEF IInv
  <2>11. RequestOK(q)
    BY <2>2, <2>3, <2>8, <2>9, <2>10 DEF RequestOK, StageOK
  <2> QED
    BY <2>5, <2>7, <2>11, ReadStep
<1> QED
  BY <1>1, <1>2

\* Request c adds row r to table t.
Inserts(c, t, r) ==
    /\ r = NewRow(req[c]) /\ t = req[c].table /\ t \in Cascaded \cup {"commands"}
    /\ DOMAIN r = RowColumns(t) /\ r.id = made[t] + 1
    /\ r.gateway_id = req[c].gateway
    /\ t = "commands" => /\ req[c].at = "command" /\ r.gateway_id # None
                         /\ r.actuator_channel_id = req[c].row.actuator_channel_id
                         /\ r.actuator_channel_id # None
    /\ t # "commands" => req[c].at = "insert"
    /\ Holds(req[c].user, req[c].gateway, IF t = "commands" THEN "control" ELSE "configure")
    /\ Adds(t, r) /\ grants' = grants
    /\ db' = [u \in Tables |-> db'[u]] /\ db'[t] = db[t] \cup {r}
    /\ \A u \in Tables \ {t} : db'[u] = db[u]

LEMMA InsertEffect ==
    ASSUME IInv, NEW c \in Clients, InsertChannel(c) \/ InsertCommand(c)
    PROVE  \E t, r : Inserts(c, t, r)
<1>1. PICK q, t, r : q = req[c] /\ t = q.table /\ r = NewRow(q)
  OBVIOUS
<1>2. q.at \in {"insert", "command"} /\ StageOK(q)
  BY <1>1, UnderWay DEF InsertChannel, InsertCommand
<1>3. /\ t \in Cascaded \cup {"commands"} /\ DOMAIN q.row = RowColumns(t)
      /\ q.row.gateway_id = q.gateway
      /\ t = "commands" => /\ q.at = "command" /\ q.gateway # None
                           /\ q.row.actuator_channel_id \in 1..made["actuator_channels"]
      /\ t # "commands" => q.at = "insert"
      /\ Holds(q.user, q.gateway, IF t = "commands" THEN "control" ELSE "configure")
  BY <1>1, <1>2 DEF StageOK, Names, Cascaded
<1>4. {"id", "gateway_id"} \subseteq RowColumns(t)
      /\ (t = "commands" => "actuator_channel_id" \in RowColumns(t))
  BY <1>3 DEF RowColumns, Cascaded
<1>5. r = [q.row EXCEPT !.id = made[t] + 1]
  BY <1>1 DEF NewRow
<1>6. /\ DOMAIN r = RowColumns(t) /\ r.id = made[t] + 1 /\ r.gateway_id = q.gateway
      /\ t = "commands" => r.actuator_channel_id = q.row.actuator_channel_id
  BY <1>3, <1>4, <1>5
<1>7. t = "commands" => r.actuator_channel_id # None
  BY <1>3, <1>6 DEF None
<1>8. Adds(t, r) /\ grants' = grants /\ db' = [db EXCEPT ![t] = @ \cup {r}]
  BY <1>1, <1>3, UnderWay, <1>2 DEF InsertChannel, InsertCommand, StageOK
<1>9. t \in Tables
  BY <1>3, TablesHere
<1>10. /\ db' = [u \in Tables |-> db'[u]] /\ db'[t] = db[t] \cup {r}
       /\ \A u \in Tables \ {t} : db'[u] = db[u]
  BY <1>8, <1>9 DEF IInv, DataInv, RowsOK
<1> QED
  BY <1>1, <1>3, <1>6, <1>7, <1>8, <1>10 DEF Inserts

LEMMA InsertStep ==
    ASSUME IInv, NEW c \in Clients, InsertChannel(c) \/ InsertCommand(c)
    PROVE  IInv'
<1>1. PICK t, r : Inserts(c, t, r)
  BY InsertEffect
<1>2. /\ t \in Registered /\ t # "gateways" /\ Perms' = Perms
      /\ \A u \in Targets \ {t} : db'[u] = db[u]
  BY <1>1, TablesHere DEF Perms, Inserts
<1>3. DataInv' /\ Keeps
  BY <1>1, <1>2, AddRow DEF IInv, Inserts
<1>4. CASE t # "commands"
  <2>1. req' = [req EXCEPT ![c] = Idle]
    BY <1>1, <1>4 DEF InsertChannel, InsertCommand, Inserts
  <2>2. RequestOK(Idle)'
    BY DEF RequestOK
  <2> QED
    BY <1>1, <1>3, <2>1, <2>2, RequestsFrom DEF IInv, Inserts
<1>5. CASE t = "commands"
  <2>1. PICK p : p = req[c]
    OBVIOUS
  <2>2. DOMAIN p = RequestFields /\ p.at = "command" /\ StageOK(p)
    BY <1>1, <1>5, <2>1, UnderWay DEF Inserts
  <2>3. PICK q : q = [p EXCEPT !.at = "publish", !.row = r]
    OBVIOUS
  <2>4. req' = [req EXCEPT ![c].at = "publish", ![c].row = r]
    BY <1>1, <1>5 DEF InsertChannel, InsertCommand, Inserts
  <2>5. req' = [req EXCEPT ![c] = q]
    BY <2>1, <2>3, <2>4 DEF IInv
  <2>6. /\ DOMAIN q = RequestFields /\ q.at = "publish" /\ q.row = r
        /\ q.gateway = p.gateway
    BY <2>2, <2>3 DEF RequestFields
  <2>7. Names("actuator_channels", r.actuator_channel_id, p.gateway)
    BY <1>1, <1>5, <2>1, <2>2 DEF StageOK, Inserts
  <2>8. Names("actuator_channels", r.actuator_channel_id, p.gateway)'
    BY <1>3, <2>7 DEF Keeps, Names, Cascaded
  <2>9. r \in db'["commands"] /\ r.gateway_id = p.gateway
    BY <1>1, <1>5, <2>1 DEF Inserts
  <2>10. RequestOK(q)'
    BY <2>6, <2>8, <2>9 DEF RequestOK, StageOK
  <2> QED
    BY <1>1, <1>3, <2>5, <2>10, RequestsFrom DEF IInv, Inserts
<1> QED
  BY <1>4, <1>5

\* A row with the fields of a PATCH is the same row for everybody who refers to it.
LEMMA PatchedRow ==
    ASSUME NEW x, DOMAIN x = RowColumns("gateways"),
           NEW patch, DOMAIN patch \subseteq {"id", "site_id", "gateway_profile_id"},
           "id" \in DOMAIN patch, patch.id = x.id,
           NEW y, y = Patched(x, patch)
    PROVE  /\ DOMAIN y = DOMAIN x /\ y.id = x.id
           /\ y.serial_number = x.serial_number
           /\ \A f \in DOMAIN x : y[f] = IF f \in DOMAIN patch THEN patch[f] ELSE x[f]
<1>1. {"id", "serial_number"} \subseteq DOMAIN x
  BY DEF RowColumns
<1>2. /\ DOMAIN y = DOMAIN x
      /\ \A f \in DOMAIN x : y[f] = IF f \in DOMAIN patch THEN patch[f] ELSE x[f]
  BY DEF Patched
<1> QED
  BY <1>1, <1>2

\* PATCH /gateways by request c: the rows before and after.
Updates(c, patch, old) ==
    /\ patch.id = req[c].gateway /\ "id" \in DOMAIN patch
    /\ DOMAIN patch \subseteq {"id", "site_id", "gateway_profile_id"}
    /\ ~Dangles("gateways", patch)
    /\ old = {x \in db["gateways"] : x.id = patch.id}
    /\ Holds(req[c].user, req[c].gateway, "configure")
    /\ db' = [u \in Tables |-> db'[u]] /\ \A u \in Tables \ {"gateways"} : db'[u] = db[u]
    /\ db'["gateways"] = (db["gateways"] \ old) \cup {Patched(x, patch) : x \in old}
    /\ made' = made /\ grants' = grants /\ req' = [req EXCEPT ![c] = Idle]

LEMMA UpdateEffect ==
    ASSUME IInv, NEW c \in Clients, WriteUpdate(c)
    PROVE  \E patch, old : Updates(c, patch, old)
<1>1. PICK q, patch, old : q = req[c] /\ patch = q.row /\ old = Row("gateways", patch.id)
  OBVIOUS
<1>2. q.at = "update" /\ StageOK(q)
  BY <1>1, UnderWay DEF WriteUpdate
<1>3. /\ patch.id = q.gateway /\ Holds(q.user, q.gateway, "configure")
      /\ DOMAIN patch \subseteq {"id", "site_id", "gateway_profile_id"} /\ "id" \in DOMAIN patch
  BY <1>1, <1>2 DEF StageOK
<1>4. /\ ~Dangles("gateways", patch) /\ made' = made /\ grants' = grants
      /\ req' = [req EXCEPT ![c] = Idle]
      /\ db' = [db EXCEPT !["gateways"] = (@ \ old) \cup {Patched(x, patch) : x \in old}]
  BY <1>1 DEF WriteUpdate
<1>5. PICK new : new = {Patched(x, patch) : x \in old}
  OBVIOUS
<1>6. db' = [db EXCEPT !["gateways"] = (@ \ old) \cup new]
  BY <1>4, <1>5
<1>7. /\ db' = [u \in Tables |-> db'[u]] /\ \A u \in Tables \ {"gateways"} : db'[u] = db[u]
      /\ db'["gateways"] = (db["gateways"] \ old) \cup new
  BY <1>6, TablesHere DEF IInv, DataInv, RowsOK
<1>8. db'["gateways"] = (db["gateways"] \ old) \cup {Patched(x, patch) : x \in old}
  BY <1>5, <1>7
<1>9. old = {x \in db["gateways"] : x.id = patch.id}
  BY <1>1 DEF Row
<1>10. Updates(c, patch, old)
  BY <1>1, <1>3, <1>4, <1>7, <1>8, <1>9 DEF Updates
<1> QED
  BY <1>10

LEMMA UpdateStep == ASSUME IInv, NEW c \in Clients, WriteUpdate(c) PROVE IInv'
<1>1. PICK patch, old : Updates(c, patch, old)
  BY UpdateEffect
<1> DEFINE Up(x) == Patched(x, patch)
<1>2. \A x \in db["gateways"] : DOMAIN x = RowColumns("gateways")
  BY TablesHere DEF IInv, DataInv, RowsOK
<1>3. old \subseteq db["gateways"]
  BY <1>1 DEF Updates
<1>4. ASSUME NEW x \in old
      PROVE  /\ DOMAIN Up(x) = DOMAIN x /\ Up(x).id = x.id
             /\ Up(x).serial_number = x.serial_number
             /\ \A f \in DOMAIN x : Up(x)[f] = IF f \in DOMAIN patch THEN patch[f] ELSE x[f]
  <2>1. DOMAIN x = RowColumns("gateways") /\ patch.id = x.id
    BY <1>1, <1>2, <1>3 DEF Updates
  <2> QED
    BY <1>1, <2>1, PatchedRow DEF Updates
<1>5. db'["gateways"] = (db["gateways"] \ old) \cup {Up(x) : x \in old}
  BY <1>1 DEF Updates
<1> HIDE DEF Up
<1>6. /\ \A y \in db'["gateways"] : \E x \in db["gateways"] :
            y = IF x \in old THEN Up(x) ELSE x
      /\ \A u \in Tables \ {"gateways"} : db'[u] = db[u]
      /\ made' = made /\ grants' = grants
  BY <1>1, <1>3, <1>5 DEF Updates
<1>7. \A u \in Targets : \A x \in db[u] : \E y \in db'[u] : y.id = x.id
  <2>1. \A x \in db["gateways"] : \E y \in db'["gateways"] : y.id = x.id
    BY <1>3, <1>4, <1>5
  <2> QED
    BY <1>6, <2>1, TablesHere
<1>8. ASSUME NEW x \in old PROVE ~Dangles("gateways", Up(x))
  <2>1. ~Dangles("gateways", x) /\ ~Dangles("gateways", patch)
    BY <1>1, <1>3, TablesHere DEF Updates, IInv, DataInv, Integrity
  <2>2. ASSUME NEW ref \in Orm["gateways"].refs, ref[1] \in DOMAIN Up(x), Up(x)[ref[1]] # None
        PROVE  Row(ref[2], Up(x)[ref[1]]) # {}
    <3>1. ref[1] \in DOMAIN x /\ Up(x)[ref[1]] = IF ref[1] \in DOMAIN patch THEN patch[ref[1]]
                                                 ELSE x[ref[1]]
      BY <1>4, <2>2
    <3>2. CASE ref[1] \in DOMAIN patch
      BY <2>1, <2>2, <3>1, <3>2 DEF Dangles
    <3>3. CASE ref[1] \notin DOMAIN patch
      BY <2>1, <2>2, <3>1, <3>3 DEF Dangles
    <3> QED
      BY <3>2, <3>3
  <2> QED
    BY <2>2 DEF Dangles
<1>9. ASSUME NEW u \in Registered, NEW y \in db'[u]
      PROVE  DOMAIN y = RowColumns(u) /\ y.id \in 1..made[u] /\ ~Dangles(u, y)
  <2>1. CASE u # "gateways"
    <3>1. y \in db[u]
      BY <1>6, <1>9, <2>1, TablesHere
    <3> QED
      BY <3>1 DEF IInv, DataInv, RowsOK, Integrity
  <2>2. CASE u = "gateways"
    <3>1. PICK x \in db["gateways"] : y = IF x \in old THEN Up(x) ELSE x
      BY <1>6, <1>9, <2>2
    <3>2. DOMAIN x = RowColumns(u) /\ x.id \in 1..made[u] /\ ~Dangles(u, x)
      BY <2>2, TablesHere DEF IInv, DataInv, RowsOK, Integrity
    <3> QED
      BY <1>4, <1>8, <2>2, <3>1, <3>2
  <2> QED
    BY <2>1, <2>2
<1>10. RowsOK'
  <2>1. db' = [u \in Tables |-> db'[u]] /\ db'["commands"] = db["commands"]
    BY <1>1, <1>6, TablesHere DEF Updates
  <2> QED
    BY <1>6, <1>9, <2>1 DEF IInv, DataInv, RowsOK
<1>11. \A u \in Registered : \A y \in db'[u] : ~Dangles(u, y)'
  BY <1>7, <1>9, RefsKept
<1>12. ASSUME NEW u \in Registered, NEW k \in Orm[u].keys, NEW y \in db'[u], NEW z \in db'[u],
              \A a \in k : y[a] = z[a]
       PROVE  y = z
  <2>1. k \subseteq RowColumns(u)
    BY KeyColumns
  <2>2. CASE u # "gateways"
    <3>1. y \in db[u] /\ z \in db[u]
      BY <1>6, <1>12, <2>2, TablesHere
    <3>2. k \subseteq DOMAIN y
      BY <2>1, <3>1 DEF IInv, DataInv, RowsOK
    <3> QED
      BY <1>12, <3>1, <3>2 DEF IInv, DataInv, Integrity
  <2>3. CASE u = "gateways"
    <3>1. PICK x \in db["gateways"] : y = IF x \in old THEN Up(x) ELSE x
      BY <1>6, <1>12, <2>3
    <3>2. PICK w \in db["gateways"] : z = IF w \in old THEN Up(w) ELSE w
      BY <1>6, <1>12, <2>3
    <3>3. k = {"id"} \/ k = {"serial_number"}
      BY <1>12, <2>3, Keys
    <3>4. \A a \in k : x[a] = w[a]
      BY <1>4, <1>12, <3>1, <3>2, <3>3
    <3>5. k \subseteq DOMAIN x
      BY <1>2, <2>1, <2>3
    <3>6. x = w
      BY <1>12, <2>3, <3>4, <3>5 DEF IInv, DataInv, Integrity
    <3> QED
      BY <3>1, <3>2, <3>6
  <2> QED
    BY <2>2, <2>3
<1>13. HasAdmin'
  <2>1. Perms' = Perms
    BY <1>6, TablesHere DEF Perms
  <2>2. ASSUME NEW y \in db'["gateways"] PROVE \E u \in Users : Admin(u, y.id) \in Perms'
    <3>1. PICK x \in db["gateways"] : y = IF x \in old THEN Up(x) ELSE x
      BY <1>6
    <3>2. y.id = x.id
      BY <1>4, <3>1
    <3> QED
      BY <2>1, <3>2 DEF IInv, DataInv, HasAdmin
  <2> QED
    BY <2>2 DEF HasAdmin
<1>14. Keeps
  BY <1>6, TablesHere DEF Keeps, IInv, DataInv, RowsOK, Perms
<1>15. DataInv'
  BY <1>10, <1>11, <1>12, <1>13 DEF DataInv, Integrity
<1>16. req' = [req EXCEPT ![c] = Idle]
  BY <1>1 DEF Updates
<1>17. RequestOK(Idle)'
  BY DEF RequestOK
<1> QED
  BY <1>6, <1>14, <1>15, <1>16, <1>17, RequestsFrom DEF IInv

\* DELETE: whatever was committed since the channels were loaded, a row that stays
\* refers to rows that stay.
LEMMA FlushStep == ASSUME IInv, NEW c \in Clients, FlushDelete(c) PROVE IInv'
<1>1. PICK gone : gone = req[c].row
  OBVIOUS
<1>2. /\ ~InUse(gone) /\ db' = Left(gone) /\ req' = [req EXCEPT ![c] = Idle]
      /\ made' = made /\ grants' = grants
  BY <1>1 DEF FlushDelete
<1>3. /\ db' = [u \in Tables |-> db'[u]]
      /\ \A u \in Tables \ Deletable : db'[u] = db[u]
      /\ \A u \in Deletable : db'[u] = {x \in db[u] : x.id \notin gone[u]}
  BY <1>2, TablesHere DEF Left
<1>4. \A u \in Tables : db'[u] \subseteq db[u]
  BY <1>3
<1>5. RowsOK'
  BY <1>2, <1>3, <1>4, TablesHere DEF IInv, DataInv, RowsOK
<1>6. ASSUME NEW u \in Registered, NEW x \in db'[u] PROVE ~Dangles(u, x)'
  <2>1. ASSUME NEW ref \in Orm[u].refs, ref[1] \in DOMAIN x, x[ref[1]] # None
        PROVE  \E y \in db'[ref[2]] : y.id = x[ref[1]]
    <3>1. ref[2] \in Targets /\ x \in db[u] /\ u \in Tables
      BY <1>4, RefTarget, TablesHere
    <3>2. PICK y \in db[ref[2]] : y.id = x[ref[1]]
      BY <2>1, <3>1 DEF IInv, DataInv, Integrity, Dangles, Row
    <3>3. CASE ref[2] \in Deletable
      <4>1. x \in Left(gone)[u]
        BY <1>2
      <4>2. x[ref[1]] \notin gone[ref[2]]
        BY <1>2, <2>1, <3>1, <3>3, <4>1 DEF InUse
      <4> QED
        BY <1>3, <3>2, <3>3, <4>2
    <3>4. CASE ref[2] \notin Deletable
      BY <1>3, <3>1, <3>2, <3>4, TablesHere
    <3> QED
      BY <3>3, <3>4
  <2> QED
    BY <2>1 DEF Dangles, Row
<1>7. ASSUME NEW u \in Registered, NEW k \in Orm[u].keys, NEW x \in db'[u], NEW y \in db'[u],
             k \subseteq DOMAIN x, \A a \in k : x[a] = y[a]
      PROVE  x = y
  <2>1. x \in db[u] /\ y \in db[u]
    BY <1>4, TablesHere
  <2> QED
    BY <1>7, <2>1 DEF IInv, DataInv, Integrity
<1>8. Perms' = Perms
  BY <1>3, TablesHere DEF Perms
<1>9. HasAdmin'
  BY <1>4, <1>8, TablesHere DEF IInv, DataInv, HasAdmin
<1>10. Keeps
  <2>1. db'["commands"] = db["commands"]
    BY <1>3, TablesHere
  <2> QED
    BY <1>2, <1>4, <1>8, <2>1, TablesHere DEF Keeps, IInv, DataInv, RowsOK
<1>11. DataInv'
  BY <1>5, <1>6, <1>7, <1>9 DEF DataInv, Integrity
<1>12. RequestOK(Idle)'
  BY DEF RequestOK
<1> QED
  BY <1>2, <1>10, <1>11, <1>12, RequestsFrom DEF IInv

\* At the start there are the users and the profiles, and nobody asks.
LEMMA IInvInit == Init => IInv
<1> SUFFICES ASSUME Init PROVE IInv
  OBVIOUS
<1>1. /\ db = [t \in Tables |-> db[t]] /\ \A t \in Registered : db[t] = {}
  BY TablesHere DEF Init, Registered, Tables
<1>2. made = [t \in Registered |-> 0] /\ grants = 0 /\ req = [c \in Clients |-> Idle]
  BY DEF Init
<1>3. RowsOK
  BY <1>1, <1>2, RegistryAssumption, TablesHere DEF RowsOK
<1>4. Integrity /\ HasAdmin
  BY <1>1, TablesHere DEF Integrity, HasAdmin
<1>5. grants \in 0..MaxGrants
  BY <1>2, RegistryAssumption
<1>6. req = [c \in Clients |-> req[c]] /\ \A c \in Clients : RequestOK(req[c])
  BY <1>2 DEF RequestOK
<1> QED
  BY <1>3, <1>4, <1>5, <1>6 DEF IInv, DataInv

\* Nothing happens.
LEMMA StutterStep == ASSUME IInv, UNCHANGED vars PROVE IInv'
<1>1. UNCHANGED <<db, made, grants, req>>
  BY DEF vars
<1>2. db' = [t \in Tables |-> db'[t]] /\ Perms' = Perms
  BY <1>1 DEF IInv, DataInv, RowsOK, Perms
<1>3. DataInv' /\ Keeps
  BY <1>1, <1>2, NothingWritten DEF IInv
<1> QED
  BY <1>1, <1>3, RequestsStay DEF IInv

LEMMA IInvStep == IInv /\ [Next]_vars => IInv'
<1> SUFFICES ASSUME IInv, [Next]_vars PROVE IInv'
  OBVIOUS
<1>1. CASE CreateCompany \/ CreateSite \/ CreateSensorProfile
  BY <1>1, CreateSteps
<1>2. CASE RegisterGateway \/ GrantBySql
  BY <1>2, RegisterStep, GrantStep
<1>3. ASSUME NEW c \in Clients,
             \/ AddSensorChannel(c) \/ AddActuatorChannel(c) \/ IssueCommand(c)
             \/ UpdateGateway(c) \/ DeleteGateway(c)
             \/ DeleteSensorChannel(c) \/ DeleteActuatorChannel(c)
      PROVE  IInv'
  BY <1>3, BeginSteps
<1>4. ASSUME NEW c \in Clients, Fails(c) \/ Publish(c) \/ LoadChannels(c) PROVE IInv'
  BY <1>4, EndSteps
<1>5. ASSUME NEW c \in Clients,
             InsertChannel(c) \/ InsertCommand(c) \/ WriteUpdate(c) \/ FlushDelete(c)
      PROVE  IInv'
  BY <1>5, InsertStep, UpdateStep, FlushStep
<1> QED
  BY <1>1, <1>2, <1>3, <1>4, <1>5, StutterStep DEF Next
-------------------------------------------------------------------------------
(* what it means *)

\* The rows a request relies on stay, whatever other requests commit between its steps.
THEOREM InductiveInvariant == Spec => []IInv
  BY IInvInit, IInvStep, PTL DEF Spec

\* Ids are those that were handed out and every request is at one of its awaits.
THEOREM TypeCorrect == Spec => []TypeOK
<1>1. IInv => TypeOK
  BY DEF IInv, DataInv, RowsOK, TypeOK, RequestOK, StageOK, Idle
<1> QED
  BY <1>1, InductiveInvariant, PTL

\* However a commit cascades, no reference of a row dangles and no key occurs twice.
THEOREM IntegrityHolds == Spec => []Integrity
<1>1. IInv => Integrity
  BY DEF IInv, DataInv
<1> QED
  BY <1>1, InductiveInvariant, PTL

\* Every gateway has somebody who may administer it and finds it in the list.
THEOREM EveryGatewayHasAdminHolds == Spec => []EveryGatewayHasAdmin
<1>1. ASSUME IInv PROVE EveryGatewayHasAdmin
  <2>1. ASSUME NEW g \in db["gateways"], NEW u, Admin(u, g.id) \in Perms
        PROVE  g \in ListGateways(u)
    <3>1. PICK p : p = Admin(u, g.id)
      OBVIOUS
    <3>2. p.user_id = u /\ p.gateway_id = g.id /\ p \in Perms
      BY <2>1, <3>1 DEF Admin
    <3> QED
      BY <3>2 DEF ListGateways
  <2> QED
    BY <1>1, <2>1 DEF EveryGatewayHasAdmin, IInv, DataInv, HasAdmin
<1> QED
  BY <1>1, InductiveInvariant, PTL

\* A row of a table that a reference names.
LEMMA CommandRows ==
    ASSUME IInv, NEW k \in db["commands"]
    PROVE  Row("gateways", k.gateway_id) # {}
           /\ Row("actuator_channels", k.actuator_channel_id) # {}
<1>1. /\ ~Dangles("commands", k) /\ k.gateway_id # None /\ k.actuator_channel_id # None
      /\ {"gateway_id", "actuator_channel_id"} \subseteq DOMAIN k
  BY TablesHere DEF IInv, DataInv, Integrity, RowsOK, RowColumns
<1>2. /\ <<"gateway_id", "gateways">> \in Orm["commands"].refs
      /\ <<"actuator_channel_id", "actuator_channels">> \in Orm["commands"].refs
  BY References
<1> QED
  BY <1>1, <1>2 DEF Dangles

\* The gateway and the channel of a command exist when it is published.
THEOREM PublishedNamesExistHolds == Spec => []PublishedNamesExist
<1>1. ASSUME IInv PROVE PublishedNamesExist
  <2> SUFFICES ASSUME NEW c \in Clients, req[c].at = "publish"
               PROVE  /\ Row("gateways", req[c].gateway) # {}
                      /\ \E a \in Row("actuator_channels", req[c].row.actuator_channel_id) :
                            a.gateway_id = req[c].gateway
    BY DEF PublishedNamesExist
  <2>1. PICK k, g : k = req[c].row /\ g = req[c].gateway
    OBVIOUS
  <2>2. /\ k \in db["commands"] /\ k.gateway_id = g
        /\ Names("actuator_channels", k.actuator_channel_id, g)
    BY <1>1, <2>1, UnderWay DEF StageOK
  <2>3. Row("gateways", g) # {} /\ Row("actuator_channels", k.actuator_channel_id) # {}
    BY <1>1, <2>2, CommandRows
  <2>4. \E a \in Row("actuator_channels", k.actuator_channel_id) : a.gateway_id = g
    BY <2>2, <2>3 DEF Names, Row
  <2> QED
    BY <2>1, <2>3, <2>4
<1> QED
  BY <1>1, InductiveInvariant, PTL

\* The permission that a request holds is enough for what it writes.
LEMMA InsertPermitted ==
    ASSUME IInv, NEW c \in Clients, InsertChannel(c) \/ InsertCommand(c), NEW t \in Tables
    PROVE  /\ \A x \in db'[t] \ db[t] : May(req[c].user, t, x, FALSE)
           /\ db[t] \ db'[t] = {}
<1>1. PICK v, r : Inserts(c, v, r)
  BY InsertEffect
<1>2. v # "gateways" /\ (v = "commands" \/ v \in Cascaded)
  BY <1>1, TablesHere DEF Inserts
<1>3. May(req[c].user, v, r, FALSE)
  BY <1>1, <1>2 DEF Inserts, May, Holds
<1> QED
  BY <1>1, <1>3 DEF Inserts

LEMMA UpdatePermitted ==
    ASSUME IInv, NEW c \in Clients, WriteUpdate(c), NEW t \in Tables
    PROVE  /\ \A x \in db'[t] \ db[t] : May(req[c].user, t, x, FALSE)
           /\ \A x \in db[t] \ db'[t] :
                 May(req[c].user, t, x, \A y \in db'[t] : y.id # x.id)
<1>1. PICK patch, old : Updates(c, patch, old)
  BY UpdateEffect
<1>2. CASE t # "gateways"
  BY <1>1, <1>2 DEF Updates
<1>3. CASE t = "gateways"
  <2> DEFINE Up(x) == Patched(x, patch)
  <2>1. ASSUME NEW x \in old PROVE Up(x).id = x.id /\ x.id = req[c].gateway
    <3>1. /\ DOMAIN x = RowColumns("gateways") /\ patch.id = x.id /\ "id" \in DOMAIN patch
          /\ DOMAIN patch \subseteq {"id", "site_id", "gateway_profile_id"}
          /\ x.id = req[c].gateway
      BY <1>1, TablesHere DEF Updates, IInv, DataInv, RowsOK
    <3> QED
      BY <3>1, PatchedRow
  <2>2. db'["gateways"] = (db["gateways"] \ old) \cup {Up(x) : x \in old}
    BY <1>1 DEF Updates
  <2>3. Holds(req[c].user, req[c].gateway, "configure")
    BY <1>1 DEF Updates
  <2> HIDE DEF Up
  <2>4. ASSUME NEW x \in db'[t] \ db[t] PROVE May(req[c].user, t, x, FALSE)
    <3>1. x.id = req[c].gateway
      BY <1>3, <2>1, <2>2
    <3> QED
      BY <1>3, <2>3, <3>1 DEF May, Holds
  <2>5. ASSUME NEW x \in db[t] \ db'[t], NEW gone \in BOOLEAN,
               gone = \A y \in db'[t] : y.id # x.id
        PROVE  May(req[c].user, t, x, gone)
    <3>1. x \in old
      BY <1>3, <2>2
    <3>2. Up(x) \in db'[t] /\ Up(x).id = x.id
      BY <1>3, <2>1, <2>2, <3>1
    <3>3. ~gone /\ x.id = req[c].gateway
      BY <2>1, <2>5, <3>1, <3>2
    <3> QED
      BY <1>3, <2>3, <3>3 DEF May, Holds
  <2> QED
    BY <2>4, <2>5
<1> QED
  BY <1>2, <1>3

LEMMA FlushPermitted ==
    ASSUME IInv, NEW c \in Clients, FlushDelete(c), NEW t \in Tables
    PROVE  /\ db'[t] \ db[t] = {}
           /\ \A x \in db[t] \ db'[t], gone \in BOOLEAN : May(req[c].user, t, x, gone)
<1>1. PICK q, gone : q = req[c] /\ gone = q.row
  OBVIOUS
<1>2. /\ \A v \in Cascaded : \A i \in gone[v] : Names(v, i, q.gateway)
      /\ \/ gone["gateways"] = {} /\ Holds(q.user, q.gateway, "configure")
         \/ gone["gateways"] = {q.gateway} /\ Holds(q.user, q.gateway, "admin")
  BY <1>1, UnderWay DEF FlushDelete, StageOK
<1>3. db' = Left(gone)
  BY <1>1 DEF FlushDelete
<1>4. db'[t] = IF t \in Deletable THEN {x \in db[t] : x.id \notin gone[t]} ELSE db[t]
  BY <1>3 DEF Left
<1>5. ASSUME NEW x \in db[t] \ db'[t], NEW d \in BOOLEAN PROVE May(q.user, t, x, d)
  <2>1. t \in Deletable /\ x \in db[t] /\ x.id \in gone[t]
    BY <1>4, <1>5
  <2>2. CASE t = "gateways"
    <3>1. x.id = q.gateway /\ Holds(q.user, q.gateway, "admin")
      BY <1>2, <2>1, <2>2
    <3> QED
      BY <2>2, <3>1 DEF May, Holds
  <2>3. CASE t \in Cascaded
    <3>1. x.gateway_id = q.gateway
      BY <1>2, <2>1, <2>3 DEF Names
    <3>2. t # "gateways" /\ t # "commands"
      BY <2>3 DEF Cascaded
    <3> QED
      BY <1>2, <3>1, <3>2 DEF May, Holds
  <2> QED
    BY <2>1, <2>2, <2>3 DEF Deletable
<1> QED
  BY <1>1, <1>4, <1>5

\* What a step changes besides the request that takes it.
LEMMA Others ==
    ASSUME IInv, NEW c \in Clients, NEW d \in Clients, c # d,
           \E q : req' = [req EXCEPT ![c] = q]
    PROVE  req'[d] = req[d]
  BY DEF IInv

\* No request writes a row of a gateway for which its user lacks the permission.
THEOREM WritesPermittedHolds == Spec => WritesPermitted
<1> DEFINE Permitted ==
      \A c \in Clients : req[c] # Idle /\ req'[c] # req[c] =>
         \A t \in Tables :
           /\ \A x \in db'[t] \ db[t] : May(req[c].user, t, x, FALSE)
           /\ \A x \in db[t] \ db'[t] :
                 May(req[c].user, t, x, \A y \in db'[t] : y.id # x.id)
<1>1. ASSUME IInv, [Next]_vars PROVE Permitted
  <2> SUFFICES ASSUME NEW d \in Clients, req[d] # Idle, req'[d] # req[d], NEW t \in Tables
               PROVE  /\ \A x \in db'[t] \ db[t] : May(req[d].user, t, x, FALSE)
                      /\ \A x \in db[t] \ db'[t] :
                            May(req[d].user, t, x, \A y \in db'[t] : y.id # x.id)
    BY DEF Permitted
  <2>1. CASE db' = db
    BY <2>1
  <2>2. CASE req' = req
    BY <2>2
  <2>3. ASSUME NEW c \in Clients,
               \/ AddSensorChannel(c) \/ AddActuatorChannel(c) \/ IssueCommand(c)
               \/ UpdateGateway(c) \/ DeleteGateway(c)
               \/ DeleteSensorChannel(c) \/ DeleteActuatorChannel(c)
        PROVE  db' = db
    BY <2>3, ZenonT(30) DEF AddSensorChannel, AddActuatorChannel, IssueCommand, UpdateGateway,
       DeleteGateway, DeleteSensorChannel, DeleteActuatorChannel, DeleteChannel, Checked
  <2>4. ASSUME NEW c \in Clients, Fails(c) \/ Publish(c) \/ LoadChannels(c) PROVE db' = db
    BY <2>4 DEF Fails, Publish, LoadChannels
  <2>5. CASE \/ CreateCompany \/ CreateSite \/ CreateSensorProfile
             \/ RegisterGateway \/ GrantBySql
    BY <2>2, <2>5 DEF CreateCompany, CreateSite, CreateSensorProfile, Post, RegisterGateway,
       GrantBySql
  <2>6. ASSUME NEW c \in Clients,
               InsertChannel(c) \/ InsertCommand(c) \/ WriteUpdate(c) \/ FlushDelete(c)
        PROVE  c = d
    <3>1. \E q : req' = [req EXCEPT ![c] = q]
      <4>1. CASE InsertChannel(c) \/ WriteUpdate(c) \/ FlushDelete(c)
        BY <4>1 DEF InsertChannel, WriteUpdate, FlushDelete
      <4>2. CASE InsertCommand(c)
        <5>1. PICK r : req' = [req EXCEPT ![c].at = "publish", ![c].row = r]
          BY <4>2 DEF InsertCommand
        <5>2. PICK q : q = [req[c] EXCEPT !.at = "publish", !.row = r]
          OBVIOUS
        <5> QED
          BY <1>1, <5>1, <5>2 DEF IInv
      <4> QED
        BY <2>6, <4>1, <4>2
    <3> QED
      BY <1>1, <3>1, Others
  <2>7. CASE InsertChannel(d) \/ InsertCommand(d)
    BY <1>1, <2>7, InsertPermitted
  <2>8. CASE WriteUpdate(d)
    BY <1>1, <2>8, UpdatePermitted
  <2>9. CASE FlushDelete(d)
    <3>1. /\ db'[t] \ db[t] = {}
          /\ \A x \in db[t] \ db'[t], gone \in BOOLEAN : May(req[d].user, t, x, gone)
      BY <1>1, <2>9, FlushPermitted
    <3>2. ASSUME NEW x \in db[t] \ db'[t], NEW gone \in BOOLEAN,
                 gone = \A y \in db'[t] : y.id # x.id
          PROVE  May(req[d].user, t, x, gone)
      BY <3>1
    <3> QED
      BY <3>1, <3>2
  <2>10. CASE UNCHANGED vars
    BY <2>2, <2>10 DEF vars
  <2> QED
    BY <1>1, <2>1, <2>3, <2>4, <2>5, <2>6, <2>7, <2>8, <2>9, <2>10 DEF Next
<1>2. IInv /\ [Next]_vars => [Permitted]_vars
  BY <1>1
<1> QED
  BY <1>2, InductiveInvariant, PTL DEF Spec, WritesPermitted

\* Every command's gateway and channel are in their tables.
CommandsAnchored ==
    \A k \in db["commands"] :
       /\ \E g \in db["gateways"] : g.id = k.gateway_id
       /\ \E a \in db["actuator_channels"] : a.id = k.actuator_channel_id

LEMMA Anchored == IInv => CommandsAnchored
  BY CommandRows DEF CommandsAnchored, Row

\* No step deletes a command.
LEMMA CommandsStay ==
    ASSUME IInv, [Next]_vars
    PROVE  db["commands"] \subseteq db'["commands"]
<1>1. CASE db' = db
  BY <1>1
<1>2. ASSUME NEW c \in Clients,
             \/ AddSensorChannel(c) \/ AddActuatorChannel(c) \/ IssueCommand(c)
             \/ UpdateGateway(c) \/ DeleteGateway(c)
             \/ DeleteSensorChannel(c) \/ DeleteActuatorChannel(c)
      PROVE  db' = db
  BY <1>2, ZenonT(30) DEF AddSensorChannel, AddActuatorChannel, IssueCommand, UpdateGateway,
     DeleteGateway, DeleteSensorChannel, DeleteActuatorChannel, DeleteChannel, Checked
<1>3. ASSUME NEW c \in Clients, Fails(c) \/ Publish(c) \/ LoadChannels(c) PROVE db' = db
  BY <1>3 DEF Fails, Publish, LoadChannels
<1>4. "commands" \in Tables /\ "commands" \notin Deletable /\ DOMAIN db = Tables
  <2>1. db = [t \in Tables |-> db[t]]
    BY DEF IInv, DataInv, RowsOK
  <2> HIDE DEF Tables
  <2>2. DOMAIN db = Tables
    BY <2>1
  <2> QED
    BY <2>2, TablesHere DEF Tables, Registered
<1>5. CASE CreateCompany \/ CreateSite \/ CreateSensorProfile
  <2>1. \E t, r : db' = [db EXCEPT ![t] = @ \cup {r}]
    BY <1>5 DEF CreateCompany, CreateSite, CreateSensorProfile, Post
  <2> QED
    BY <1>4, <2>1
<1>6. CASE RegisterGateway
  BY <1>4, <1>6 DEF RegisterGateway, Registers
<1>7. CASE GrantBySql
  BY <1>4, <1>7 DEF GrantBySql
<1>8. ASSUME NEW c \in Clients, InsertChannel(c) \/ InsertCommand(c)
      PROVE  db["commands"] \subseteq db'["commands"]
  BY <1>4, <1>8, InsertPermitted
<1>9. ASSUME NEW c \in Clients, WriteUpdate(c) PROVE db["commands"] \subseteq db'["commands"]
  BY <1>4, <1>9 DEF WriteUpdate
<1>10. ASSUME NEW c \in Clients, FlushDelete(c) PROVE db["commands"] \subseteq db'["commands"]
  BY <1>4, <1>10 DEF FlushDelete, Left
<1>11. CASE UNCHANGED vars
  BY <1>1, <1>11 DEF vars
<1> QED
  BY <1>1, <1>2, <1>3, <1>5, <1>6, <1>7, <1>8, <1>9, <1>10, <1>11 DEF Next

\* No step deletes a command, its gateway or its channel.
THEOREM CommandHistoryKeptHolds == Spec => CommandHistoryKept
<1> DEFINE Kept ==
      \A k \in db["commands"] :
         /\ k \in db'["commands"]
         /\ \E g \in db'["gateways"] : g.id = k.gateway_id
         /\ \E a \in db'["actuator_channels"] : a.id = k.actuator_channel_id
<1>1. IInv /\ [Next]_vars /\ CommandsAnchored' => [Kept]_vars
  BY CommandsStay DEF CommandsAnchored
<1>2. IInv => CommandsAnchored
  BY Anchored
<1> QED
  BY <1>1, <1>2, InductiveInvariant, PTL DEF Spec, CommandHistoryKept
===============================================================================
