-------------------------------- MODULE Schema --------------------------------
(***************************************************************************)
(* The same tables, five times over: what the ORM believes                 *)
(* (server/app/models.py), what the migrations make (alembic 0001, 0002),  *)
(* what requests must carry and what answers must carry                    *)
(* (server/app/schemas.py), and what the writers give.  Nothing in the     *)
(* code keeps them in step.                                                *)
(*                                                                         *)
(* A column is its name; of its type only NOT NULL, the default and the    *)
(* constraints are kept.  A key is a set of columns, a reference a pair    *)
(* <<column, table>>.                                                      *)
(***************************************************************************)
EXTENDS FiniteSets

\* A table of the database.
Table(notNull, nullable, default, keys, refs) ==
    [notNull |-> notNull, nullable |-> nullable, default |-> default,
     keys |-> keys, refs |-> refs]

\* A class of the ORM: columns a writer must give, columns that get a default=
\* of Python, columns left to the server, columns that may be None.
Model(required, filled, served, nullable, keys, refs) ==
    [required |-> required, filled |-> filled, served |-> served,
     nullable |-> nullable, keys |-> keys, refs |-> refs]

\* A request or an answer: fields that have a value, fields that may be None.
Body(set, maybe) == [set |-> set, maybe |-> maybe]
-------------------------------------------------------------------------------
(* models.py *)

Company == Model({"name", "company_type"}, {"id", "status"},
                 {"created_at", "updated_at"}, {}, {{"id"}}, {})
Site == Model({"company_id", "name"}, {"id"}, {"created_at"},
              {"address", "latitude", "longitude"}, {{"id"}},
              {<<"company_id", "companies">>})
User == Model({"keycloak_user_id", "email", "name"}, {"id", "status"},
              {"created_at"}, {}, {{"id"}, {"keycloak_user_id"}, {"email"}}, {})
UserCompanyRole ==
    Model({"user_id", "company_id", "role"}, {"id"}, {"created_at"}, {},
          {{"id"}, {"user_id", "company_id", "role"}},
          {<<"user_id", "users">>, <<"company_id", "companies">>})
UserGatewayPermission ==
    Model({"user_id", "gateway_id", "permission"}, {"id"}, {"created_at"}, {},
          {{"id"}, {"user_id", "gateway_id", "permission"}},
          {<<"user_id", "users">>})
GatewayProfile == Model({"name", "model", "hardware_schema"}, {"id"},
                        {"created_at"}, {"description"}, {{"id"}}, {})
Gateway ==
    Model({"serial_number", "name", "company_id"},
          {"id", "status", "config_version"}, {"registered_at"},
          {"site_id", "gateway_profile_id", "firmware_version", "app_version",
           "last_seen_at"},
          {{"id"}, {"serial_number"}},
          {<<"company_id", "companies">>, <<"site_id", "sites">>,
           <<"gateway_profile_id", "gateway_profiles">>})
SensorProfile == Model({"name", "protocol", "profile_schema"}, {"id", "enabled"},
                       {"created_at"}, {"vendor", "model", "description"},
                       {{"id"}}, {})
SensorChannel ==
    Model({"gateway_id", "slug", "sensor_profile_id", "display_name",
           "interface_name", "protocol"},
          {"id", "polling_interval_sec", "enabled"}, {"created_at"},
          {"address", "slave_id", "config"}, {{"id"}, {"gateway_id", "slug"}},
          {<<"gateway_id", "gateways">>,
           <<"sensor_profile_id", "sensor_profiles">>})
ActuatorChannel ==
    Model({"gateway_id", "slug", "display_name", "actuator_type",
           "hardware_channel"},
          {"id", "default_state", "enabled"}, {"created_at"},
          {"current_state", "safety_config"}, {{"id"}, {"gateway_id", "slug"}},
          {<<"gateway_id", "gateways">>})

\* Mutant of Telemetry: id without Identity(), so that None is inserted.
TelemetryNoIdentity ==
    Model({"company_id", "gateway_id", "sensor_channel_id", "measurement_key",
           "ts"}, {}, {},
          {"id", "site_id", "value_double", "value_text", "value_bool",
           "value_json", "unit", "quality", "raw"}, {{"id", "ts"}}, {})

Telemetry ==
    Model({"company_id", "gateway_id", "sensor_channel_id", "measurement_key",
           "ts"}, {}, {"id"},
          {"site_id", "value_double", "value_text", "value_bool", "value_json",
           "unit", "quality", "raw"}, {{"id", "ts"}}, {})
TelemetryLatest ==
    Model({"gateway_id", "sensor_channel_id", "measurement_key", "ts"}, {}, {},
          {"value_double", "value_text", "value_bool", "value_json", "unit",
           "quality"}, {{"gateway_id", "sensor_channel_id", "measurement_key"}}, {})
Command ==
    Model({"id", "gateway_id", "action", "issued_at", "expires_at"},
          {"timeout_ms", "require_ack", "status"}, {},
          {"actuator_channel_id", "issued_by", "reason", "response",
           "completed_at"}, {{"id"}},
          {<<"gateway_id", "gateways">>, <<"issued_by", "users">>,
           <<"actuator_channel_id", "actuator_channels">>})
AuditLog == Model({"action"}, {"id"}, {"ts"},
                  {"user_id", "target_type", "target_id", "payload"}, {{"id"}},
                  {<<"user_id", "users">>})

\* Base.metadata: the tables that the ORM knows.
Orm == [companies |-> Company, sites |-> Site, users |-> User,
        user_company_roles |-> UserCompanyRole,
        user_gateway_permissions |-> UserGatewayPermission,
        gateway_profiles |-> GatewayProfile, gateways |-> Gateway,
        sensor_profiles |-> SensorProfile, sensor_channels |-> SensorChannel,
        actuator_channels |-> ActuatorChannel, telemetry |-> Telemetry,
        telemetry_latest |-> TelemetryLatest, commands |-> Command,
        audit_logs |-> AuditLog]

TableNames == DOMAIN Orm
OrmColumns(t) ==
    UNION {Orm[t].required, Orm[t].filled, Orm[t].served, Orm[t].nullable}
-------------------------------------------------------------------------------
(* alembic 0001 *)

CreateIdentity ==
    [companies |->
        Table({"id", "name", "company_type", "status"},
              {"created_at", "updated_at"}, {"status", "created_at", "updated_at"},
              {{"id"}}, {}),
     sites |->
        Table({"id", "company_id", "name"},
              {"address", "latitude", "longitude", "created_at"}, {"created_at"},
              {{"id"}}, {<<"company_id", "companies">>}),
     users |->
        Table({"id", "keycloak_user_id", "email", "name", "status"},
              {"created_at"}, {"status", "created_at"},
              {{"id"}, {"keycloak_user_id"}, {"email"}}, {}),
     user_company_roles |->
        Table({"id", "user_id", "company_id", "role"}, {"created_at"},
              {"created_at"}, {{"id"}, {"user_id", "company_id", "role"}},
              {<<"user_id", "users">>, <<"company_id", "companies">>}),
     user_gateway_permissions |->
        Table({"id", "user_id", "gateway_id", "permission"}, {"created_at"},
              {"created_at"}, {{"id"}, {"user_id", "gateway_id", "permission"}},
              {<<"user_id", "users">>})]

\* The table gateways, with the default of config_version given or not.
GatewaysTable(defaults) ==
    Table({"id", "serial_number", "name", "company_id", "status"},
          {"site_id", "gateway_profile_id", "firmware_version", "app_version",
           "config_version", "last_seen_at", "registered_at"}, defaults,
          {{"id"}, {"serial_number"}},
          {<<"company_id", "companies">>, <<"site_id", "sites">>,
           <<"gateway_profile_id", "gateway_profiles">>})
ProfilesTable ==
    Table({"id", "name", "model", "hardware_schema"},
          {"description", "created_at"}, {"created_at"}, {{"id"}}, {})

CreateGateways ==
    [gateway_profiles |-> ProfilesTable,
     gateways |-> GatewaysTable({"status", "config_version", "registered_at"})]

CreateChannels ==
    [sensor_profiles |->
        Table({"id", "name", "protocol", "profile_schema"},
              {"vendor", "model", "description", "enabled", "created_at"},
              {"enabled", "created_at"}, {{"id"}}, {}),
     sensor_channels |->
        Table({"id", "gateway_id", "sensor_profile_id", "display_name",
               "interface_name", "protocol"},
              {"address", "slave_id", "polling_interval_sec", "enabled",
               "config", "created_at"},
              {"polling_interval_sec", "enabled", "created_at"}, {{"id"}},
              {<<"gateway_id", "gateways">>,
               <<"sensor_profile_id", "sensor_profiles">>}),
     actuator_channels |->
        Table({"id", "gateway_id", "display_name", "actuator_type",
               "hardware_channel", "default_state"},
              {"current_state", "enabled", "safety_config", "created_at"},
              {"default_state", "enabled", "created_at"}, {{"id"}},
              {<<"gateway_id", "gateways">>})]

CreateTelemetry ==
    [telemetry |->
        Table({"id", "company_id", "gateway_id", "sensor_channel_id",
               "measurement_key", "ts"},
              {"site_id", "value_double", "value_text", "value_bool",
               "value_json", "unit", "quality", "raw"}, {"id"},
              {{"id", "ts"}}, {})]

CreateTelemetryLatest ==
    [telemetry_latest |->
        Table({"gateway_id", "sensor_channel_id", "measurement_key", "ts"},
              {"value_double", "value_text", "value_bool", "value_json", "unit",
               "quality"}, {},
              {{"gateway_id", "sensor_channel_id", "measurement_key"}}, {})]

CreateOperations ==
    [commands |->
        Table({"id", "gateway_id", "action", "issued_at", "expires_at", "status"},
              {"actuator_channel_id", "issued_by", "timeout_ms", "require_ack",
               "reason", "response", "completed_at"},
              {"timeout_ms", "require_ack", "status"}, {{"id"}},
              {<<"gateway_id", "gateways">>, <<"issued_by", "users">>,
               <<"actuator_channel_id", "actuator_channels">>}),
     audit_logs |->
        Table({"id", "action"},
              {"user_id", "target_type", "target_id", "payload", "ts"}, {"ts"},
              {{"id"}}, {<<"user_id", "users">>})]

\* The six parts together.
Merge(f, g) == [t \in DOMAIN f \cup DOMAIN g |-> IF t \in DOMAIN f THEN f[t] ELSE g[t]]
Upgrade0001 ==
    Merge(Merge(CreateIdentity, CreateGateways),
          Merge(CreateChannels,
                Merge(CreateTelemetry, Merge(CreateTelemetryLatest, CreateOperations))))
-------------------------------------------------------------------------------
(* alembic 0002 *)

\* The tables that get the wire identifier.
SlugTables == {"sensor_channels", "actuator_channels"}

\* slug is added, filled, made NOT NULL and unique within a gateway.
Upgrade0002(tables) ==
    [t \in DOMAIN tables |->
        IF t \notin SlugTables THEN tables[t]
        ELSE [tables[t] EXCEPT !.notNull = @ \cup {"slug"},
                               !.keys = @ \cup {{"gateway_id", "slug"}}]]

\* The revisions, in order: nothing, 0001, 0002.
HeadRevision == 2
SchemaAt(revision) ==
    CASE revision = 0 -> << >>
      [] revision = 1 -> Upgrade0001
      [] revision = 2 -> Upgrade0002(Upgrade0001)
Columns(table) == table.notNull \cup table.nullable
-------------------------------------------------------------------------------
(* schemas.py *)

CompanyIn == Body({"name", "company_type", "status"}, {})
CompanyOut == Body(CompanyIn.set \cup {"id", "created_at"}, CompanyIn.maybe)
SiteIn == Body({"company_id", "name"}, {"address", "latitude", "longitude"})
SiteOut == Body(SiteIn.set \cup {"id", "created_at"}, SiteIn.maybe)
GatewayIn == Body({"serial_number", "name", "company_id"},
                  {"site_id", "gateway_profile_id"})
GatewayPatch == Body({}, {"name", "site_id", "gateway_profile_id", "status",
                          "firmware_version", "app_version"})
GatewayOut ==
    Body({"id", "serial_number", "name", "company_id", "status",
          "config_version", "registered_at"},
         {"site_id", "gateway_profile_id", "firmware_version", "app_version",
          "last_seen_at"})
SensorProfileIn == Body({"name", "protocol", "profile_schema", "enabled"},
                        {"vendor", "model", "description"})
SensorProfileOut ==
    Body(SensorProfileIn.set \cup {"id", "created_at"}, SensorProfileIn.maybe)
SensorChannelIn ==
    Body({"slug", "sensor_profile_id", "display_name", "interface_name",
          "protocol", "polling_interval_sec", "enabled"},
         {"address", "slave_id", "config"})
SensorChannelOut ==
    Body(SensorChannelIn.set \cup {"id", "gateway_id", "created_at"},
         SensorChannelIn.maybe)
ActuatorChannelIn ==
    Body({"slug", "display_name", "actuator_type", "hardware_channel",
          "default_state", "enabled"}, {"safety_config"})
ActuatorChannelOut ==
    Body(ActuatorChannelIn.set \cup {"id", "gateway_id", "created_at"},
         ActuatorChannelIn.maybe \cup {"current_state"})
CommandIn == Body({"actuator_channel_id", "action", "expires_in_sec",
                   "timeout_ms", "require_ack"}, {"reason"})
CommandOut == Body({"id", "gateway_id", "action", "issued_at", "expires_at",
                    "status"},
                   {"actuator_channel_id", "response", "completed_at"})
TelemetryLatestOut ==
    Body({"gateway_id", "sensor_channel_id", "measurement_key", "ts"},
         {"value_double", "value_text", "value_bool", "unit", "quality"})
TelemetryRow == Body({"ts", "measurement_key"}, {"value_double", "unit", "quality"})

\* What the GET handlers answer with, by table.
Answers ==
    [companies |-> CompanyOut, sites |-> SiteOut, gateways |-> GatewayOut,
     sensor_profiles |-> SensorProfileOut, sensor_channels |-> SensorChannelOut,
     actuator_channels |-> ActuatorChannelOut, commands |-> CommandOut,
     telemetry_latest |-> TelemetryLatestOut, telemetry |-> TelemetryRow]
===============================================================================
