------------------------------- MODULE Registry -------------------------------
(***************************************************************************)
(* The API over companies, sites, gateways, sensor profiles, channels and  *)
(* commands (server/app/routers), with requests of several users at once   *)
(* on one database whose keys and references are those of module Schema.   *)
(*                                                                         *)
(* A row keeps its id, its references and its unique keys.  A request is a *)
(* step per await that can be told apart: the SELECTs of its checks, the   *)
(* flush and commit of what it writes, the publish of a command.  Another  *)
(* request may commit between any two.  A request that its checks refuse   *)
(* (403, 404, 422, or 500 where they raise) and one that only reads leave  *)
(* the database alone: they are no steps.                                  *)
(*                                                                         *)
(* PostgreSQL is external: a flush that breaks a key or a reference raises *)
(* and undoes the transaction, which the API answers with 500 (Fails).     *)
(***************************************************************************)
EXTENDS Schema, Integers

CONSTANTS Users,        \* ids of provisioned users
          Profiles,     \* ids in gateway_profiles, which no handler writes
          Clients,      \* requests that may be under way at once
          Serials,      \* serial_number in POST /gateways
          ChannelSlugs, \* slug in POST .../sensor-channels, .../actuator-channels
          Grants,       \* permissions that an administrator grants by SQL
          Cap,          \* bound: [table -> rows ever made]
          MaxGrants     \* bound: grants by SQL

Registered == {"companies", "sites", "gateways", "sensor_profiles",
               "sensor_channels", "actuator_channels", "commands"}
Tables == Registered \cup {"users", "gateway_profiles", "user_gateway_permissions"}

ASSUME RegistryAssumption ==
    /\ Cap \in [Registered -> Nat]
    /\ MaxGrants \in Nat
    /\ Grants \subseteq {"view", "control", "configure", "maintain", "admin"}

None == 0

VARIABLES
    db,      \* [table -> set of rows]
    made,    \* [table -> ids handed out]
    grants,  \* grants by SQL so far
    req      \* [Clients -> request under way]

vars == <<db, made, grants, req>>

Idle == [at |-> "idle"]
Ids(t) == 1..Cap[t]
Perms == db["user_gateway_permissions"]
Row(t, id) == {r \in db[t] : r.id = id}

\* A reference of r to a row that is not there.
Dangles(t, r) ==
    \E ref \in Orm[t].refs :
        ref[1] \in DOMAIN r /\ r[ref[1]] # None /\ Row(ref[2], r[ref[1]]) = {}

\* A key of r that another row has.
Taken(t, r) ==
    \E k \in Orm[t].keys :
        k \subseteq DOMAIN r /\ \E x \in db[t] : \A c \in k : x[c] = r[c]

Init ==
    /\ db = [t \in Tables |-> CASE t = "users" -> {[id |-> u] : u \in Users}
                                [] t = "gateway_profiles" -> {[id |-> h] : h \in Profiles}
                                [] OTHER -> {}]
    /\ made = [t \in Registered |-> 0]
    /\ grants = 0
    /\ req = [c \in Clients |-> Idle]
-------------------------------------------------------------------------------
(* gateways.py: _check_perm *)

\* Mutant of Granted: any permission will do.
GrantedAny(u, g, required) == {p \in Perms : p.user_id = u /\ p.gateway_id = g}

Granted(u, g, required) ==
    {p \in Perms : p.user_id = u /\ p.gateway_id = g /\ p.permission \in {required, "admin"}}

\* The gateway is there and one row grants the permission: without either the answer
\* is 404 or 403, and scalar_one_or_none raises when two rows match.
CheckPerm(u, g, required) ==
    Row("gateways", g) # {} /\ Cardinality(Granted(u, g, required)) = 1

\* A request: what it is about, and what has been read for it.
Request(op, u, g, t, r) == [at |-> op, user |-> u, gateway |-> g, table |-> t, row |-> r]

\* Request q of user u passes its check and goes on.
Checked(c, q, required) ==
    /\ req[c] = Idle
    /\ CheckPerm(q.user, q.gateway, required)
    /\ req' = [req EXCEPT ![c] = q]
    /\ UNCHANGED <<db, made, grants>>

\* An await of a request raises: the flush breaks a key or a reference, or writes NULL
\* where the table has none, expires_in_sec is beyond what timedelta takes or
\* timeout_ms beyond an integer of the table, the row to update is gone, the database
\* is lost.  The transaction is undone.
Fails(c) ==
    /\ req[c] # Idle /\ req[c].at # "publish"
    /\ req' = [req EXCEPT ![c] = Idle]
    /\ UNCHANGED <<db, made, grants>>
-------------------------------------------------------------------------------
(* requests without a check: POST /companies, /sites, /sensor-profiles, and    *)
(* POST /gateways.  The refresh that follows a commit only reads.              *)

\* The next row of table t is r.
Adds(t, r) ==
    /\ made[t] < Cap[t]
    /\ ~Dangles(t, r) /\ ~Taken(t, r)
    /\ made' = [made EXCEPT ![t] = r.id]

Post(t, r) ==
    /\ Adds(t, r)
    /\ db' = [db EXCEPT ![t] = @ \cup {r}]
    /\ UNCHANGED <<grants, req>>

CreateCompany == Post("companies", [id |-> made["companies"] + 1])

CreateSite ==
    \E k \in Ids("companies") :
        Post("sites", [id |-> made["sites"] + 1, company_id |-> k])

\* The profile has passed the shared JSON schema (422 otherwise).
CreateSensorProfile == Post("sensor_profiles", [id |-> made["sensor_profiles"] + 1])

Admin(u, g) == [user_id |-> u, gateway_id |-> g, permission |-> "admin"]

\* A gateway as it is registered.
NewGateway(s, k, p, h) ==
    [id |-> made["gateways"] + 1, serial_number |-> s, company_id |-> k, site_id |-> p,
     gateway_profile_id |-> h]

\* Mutant of Registers: the permission is left to a later transaction.
RegistersAlone(u, r) ==
    /\ Adds("gateways", r)
    /\ db' = [db EXCEPT !["gateways"] = @ \cup {r}]

\* The gateway and the permission in one transaction.
Registers(u, r) ==
    /\ Adds("gateways", r)
    /\ db' = [db EXCEPT !["gateways"] = @ \cup {r},
                        !["user_gateway_permissions"] = @ \cup {Admin(u, r.id)}]

RegisterGateway ==
    /\ \E u \in Users, s \in Serials, k \in Ids("companies"),
          p \in Ids("sites") \cup {None}, h \in Profiles \cup {None} :
             Registers(u, NewGateway(s, k, p, h))
    /\ UNCHANGED <<grants, req>>
-------------------------------------------------------------------------------
(* requests with a check first *)

\* add_sensor_channel and add_actuator_channel: the check, then the row.
AddSensorChannel(c) ==
    \E u \in Users, g \in Ids("gateways"), s \in ChannelSlugs, p \in Ids("sensor_profiles") :
        Checked(c, Request("insert", u, g, "sensor_channels",
                           [id |-> None, gateway_id |-> g, slug |-> s, sensor_profile_id |-> p]),
                "configure")

AddActuatorChannel(c) ==
    \E u \in Users, g \in Ids("gateways"), s \in ChannelSlugs :
        Checked(c, Request("insert", u, g, "actuator_channels",
                           [id |-> None, gateway_id |-> g, slug |-> s]),
                "configure")

\* The row that a request adds.
NewRow(q) == [q.row EXCEPT !.id = made[q.table] + 1]

InsertChannel(c) ==
    /\ req[c].at = "insert"
    /\ Adds(req[c].table, NewRow(req[c]))
    /\ db' = [db EXCEPT ![req[c].table] = @ \cup {NewRow(req[c])}]
    /\ req' = [req EXCEPT ![c] = Idle]
    /\ UNCHANGED grants

\* issue_command: the permission, then the gateway and a channel of this gateway; the
\* serial number and the slug that will be published are read here.  The last SELECT
\* is the channel's: while it is there its gateway is.
IssueCommand(c) ==
    \E u \in Users, g \in Ids("gateways") : \E a \in db["actuator_channels"] :
        /\ a.gateway_id = g
        /\ Checked(c, Request("command", u, g, "commands",
                              [id |-> None, gateway_id |-> g, actuator_channel_id |-> a.id]),
                   "control")

\* Mutant of InsertCommand: it is published first.
InsertCommandLate(c) ==
    /\ req[c].at = "command"
    /\ req' = [req EXCEPT ![c].at = "publish"]
    /\ UNCHANGED <<db, made, grants>>

\* The row of the command is committed before it is published.
InsertCommand(c) ==
    /\ req[c].at = "command"
    /\ Adds("commands", NewRow(req[c]))
    /\ db' = [db EXCEPT !["commands"] = @ \cup {NewRow(req[c])}]
    /\ req' = [req EXCEPT ![c].at = "publish", ![c].row = NewRow(req[c])]
    /\ UNCHANGED grants

\* The publish works or fails (202, 503), or the refresh before it raises; the row
\* stays (module CommandLifecycle goes on).
Publish(c) ==
    /\ req[c].at = "publish"
    /\ req' = [req EXCEPT ![c] = Idle]
    /\ UNCHANGED <<db, made, grants>>

\* update_gateway, of whose fields the site and the profile are references.  The UPDATE
\* has the fields that are sent and differ from the row that was loaded.
UpdateGateway(c) ==
    \E u \in Users, p \in Ids("sites") \cup {None}, h \in Profiles \cup {None} :
    \E x \in db["gateways"] :
        LET sent == [id |-> x.id, site_id |-> p, gateway_profile_id |-> h]
            fields == {"id"} \cup {f \in {"site_id", "gateway_profile_id"} : sent[f] # x[f]}
        IN  Checked(c, Request("update", u, x.id, "gateways", [f \in fields |-> sent[f]]),
                    "configure")

\* Row x with the fields of the UPDATE.
Patched(x, patch) == [f \in DOMAIN x |-> IF f \in DOMAIN patch THEN patch[f] ELSE x[f]]

\* An UPDATE of a row that is gone raises StaleDataError.
WriteUpdate(c) ==
    /\ req[c].at = "update"
    /\ LET patch == req[c].row
           old == Row("gateways", patch.id)
       IN  /\ old # {} /\ ~Dangles("gateways", patch)
           /\ db' = [db EXCEPT !["gateways"] =
                        (@ \ old) \cup {Patched(x, patch) : x \in old}]
    /\ req' = [req EXCEPT ![c] = Idle]
    /\ UNCHANGED <<made, grants>>

\* Mutant of Cascaded: the commands are cascaded to as well.
CascadedToCommands == {"sensor_channels", "actuator_channels", "commands"}

\* cascade="all, delete-orphan" of a gateway.
Cascaded == {"sensor_channels", "actuator_channels"}
Deletable == Cascaded \cup {"gateways"}

DeleteGateway(c) ==
    \E u \in Users, g \in Ids("gateways") :
        Checked(c, Request("load", u, g, "gateways", [id |-> g]), "admin")

\* session.delete loads the channels, to delete them first.
LoadChannels(c) ==
    /\ req[c].at = "load"
    /\ LET g == req[c].gateway
           gone == [t \in Deletable |-> IF t = "gateways" THEN {g}
                                        ELSE {x.id : x \in {y \in db[t] : y.gateway_id = g}}]
       IN  req' = [req EXCEPT ![c].at = "flush", ![c].row = gone]
    /\ UNCHANGED <<db, made, grants>>

\* The channel, then the check of its gateway.
DeleteChannel(c, t) ==
    \E u \in Users : \E x \in db[t] :
        Checked(c, Request("flush", u, x.gateway_id, t,
                           [v \in Deletable |-> IF v = t THEN {x.id} ELSE {}]),
                "configure")

DeleteSensorChannel(c) == DeleteChannel(c, "sensor_channels")
DeleteActuatorChannel(c) == DeleteChannel(c, "actuator_channels")

\* The rows that the DELETE statements of `gone' leave.
Left(gone) ==
    [t \in Tables |-> IF t \in Deletable THEN {x \in db[t] : x.id \notin gone[t]} ELSE db[t]]

\* A row that is left refers to one that is not.
InUse(gone) ==
    \E t \in Tables : \E x \in Left(gone)[t], ref \in Orm[t].refs :
        ref[1] \in DOMAIN x /\ ref[2] \in Deletable /\ x[ref[1]] \in gone[ref[2]]

\* The DELETE statements: a row that is already gone is no error.
FlushDelete(c) ==
    /\ req[c].at = "flush"
    /\ ~InUse(req[c].row)
    /\ db' = Left(req[c].row)
    /\ req' = [req EXCEPT ![c] = Idle]
    /\ UNCHANGED <<made, grants>>

\* GET /gateways: those for which the user has any permission.
ListGateways(u) == {g \in db["gateways"] : \E p \in Perms : p.user_id = u /\ p.gateway_id = g.id}

\* An administrator grants a permission by SQL: no handler does (external).
GrantBySql ==
    /\ grants < MaxGrants
    /\ \E u \in Users, p \in Grants : \E g \in db["gateways"] :
         LET new == [user_id |-> u, gateway_id |-> g.id, permission |-> p] IN
         /\ new \notin Perms
         /\ db' = [db EXCEPT !["user_gateway_permissions"] = @ \cup {new}]
    /\ grants' = grants + 1
    /\ UNCHANGED <<made, req>>

Next ==
    \/ CreateCompany \/ CreateSite \/ CreateSensorProfile \/ RegisterGateway \/ GrantBySql
    \/ \E c \in Clients :
         \/ AddSensorChannel(c) \/ AddActuatorChannel(c) \/ InsertChannel(c)
         \/ IssueCommand(c) \/ InsertCommand(c) \/ Publish(c)
         \/ UpdateGateway(c) \/ WriteUpdate(c)
         \/ DeleteGateway(c) \/ LoadChannels(c) \/ FlushDelete(c)
         \/ DeleteSensorChannel(c) \/ DeleteActuatorChannel(c)
         \/ Fails(c)

Spec == Init /\ [][Next]_vars
-------------------------------------------------------------------------------
\* The variables have their types, and ids are those that were handed out.
TypeOK ==
    /\ made \in [Registered -> Nat] /\ \A t \in Registered : made[t] <= Cap[t]
    /\ \A t \in Registered : \A r \in db[t] : r.id \in 1..made[t]
    /\ grants \in 0..MaxGrants
    /\ \A c \in Clients :
         req[c].at \in {"idle", "insert", "command", "publish", "update", "load", "flush"}

\* Every reference that models.py declares leads to a row, and no key occurs twice,
\* although a cascade deletes the channels that session.delete loaded before others
\* committed.
Integrity ==
    \A t \in Registered :
        /\ \A r \in db[t] : ~Dangles(t, r)
        /\ \A k \in Orm[t].keys : \A r, x \in db[t] :
             k \subseteq DOMAIN r /\ (\A c \in k : r[c] = x[c]) => r = x

\* Whoever deletes or fails meanwhile, a gateway in the table has somebody who may
\* administer it and finds it in GET /gateways (no handler can grant a permission
\* later).
EveryGatewayHasAdmin ==
    \A g \in db["gateways"] : \E u \in Users :
        Admin(u, g.id) \in Perms /\ g \in ListGateways(u)

\* The serial number and slug that issue_command read before its commit still name
\* the command's gateway and channel when it publishes them after it: the row of the
\* command keeps both from being deleted.
PublishedNamesExist ==
    \A c \in Clients : req[c].at = "publish" =>
        /\ Row("gateways", req[c].gateway) # {}
        /\ \E a \in Row("actuator_channels", req[c].row.actuator_channel_id) :
              a.gateway_id = req[c].gateway

\* What user u may do to row x of table t: with "admin" anything.
May(u, t, x, deleted) ==
    LET g == IF t = "gateways" THEN x.id ELSE x.gateway_id
        needed == CASE t = "commands" -> "control"
                    [] t = "gateways" /\ deleted -> "admin"
                    [] OTHER -> "configure"
    IN  \E p \in Perms :
            p.user_id = u /\ p.gateway_id = g /\ p.permission \in {needed, "admin"}

\* The permission is checked steps before the commit, on a gateway or a channel that
\* was read then, and a cascade deletes what was loaded in between.  Still no request
\* adds, changes or deletes a row of a gateway for which its user does not have the
\* permission that this takes.
WritesPermitted ==
    [][\A c \in Clients : req[c] # Idle /\ req'[c] # req[c] =>
         \A t \in Tables :
           /\ \A x \in db'[t] \ db[t] : May(req[c].user, t, x, FALSE)
           /\ \A x \in db[t] \ db'[t] :
                 May(req[c].user, t, x, \A y \in db'[t] : y.id # x.id)]_vars

\* No step deletes a command, nor the gateway or the channel that a command was for.
CommandHistoryKept ==
    [][\A k \in db["commands"] :
         /\ k \in db'["commands"]
         /\ \E g \in db'["gateways"] : g.id = k.gateway_id
         /\ \E a \in db'["actuator_channels"] : a.id = k.actuator_channel_id]_vars
===============================================================================
