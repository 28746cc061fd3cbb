--------------------------- MODULE ModelScheduler ---------------------------
(***************************************************************************)
(* schedule_all_available on a miss: four queries, each seeing the tables  *)
(* as they are when it runs, put together to what the proxy may try.  The  *)
(* priorities are left out (ScheduleOrder has the order), and with them    *)
(* all columns that only travel along.  ProxyRequest has the cache itself. *)
(***************************************************************************)
EXTENDS ModelTables

CONSTANT MaxDisturbed   \* bound: the rows that come or go during a load

VARIABLES
  load,    \* the load under way, with the answers so far
  kept,    \* history: rows that have been there since the load began
  seen     \* history: rows that have been there at some time since

schedulerVars == <<tableVars, load, kept, seen>>

NoLoad == [at |-> "idle"]

(* The rows the load is about: active models and credentials, providers    *)
(* and maps.  list_filtered returns a map whether it is switched on or off *)
(* (MapRows); that it is on is a fact of its own (EnabledRows).            *)
ModelRows == {<<"model", m>> : m \in {n \in Models : model_config[n] = "active"}}
MapRows == {row \in {"map"} \X Models \X Providers : Mapped(row[2], row[3])}
EnabledRows ==
  {row \in {"enabled"} \X Models \X Providers :
     provider_model_map[row[2]][row[3]] = "active"}
ProviderRows == {<<"provider", p>> : p \in provider_config}
CredentialRows ==
  {<<"credential", c, provider_credential[c].provider>> :
     c \in {d \in Creds : provider_credential[d].is_active}}
Rows == ModelRows \cup MapRows \cup EnabledRows \cup ProviderRows \cup CredentialRows

SchedulerInit ==
  /\ TablesInit
  /\ load = NoLoad
  /\ kept = {}
  /\ seen = {}

(* History: what the tables hold after a step, while a load is under way.  *)
Watch ==
  /\ kept' = IF load' = NoLoad THEN {}
             ELSE IF load = NoLoad THEN Rows' ELSE kept \cap Rows'
  /\ seen' = IF load' = NoLoad THEN {}
             ELSE IF load = NoLoad THEN Rows' ELSE seen \cup Rows'
-----------------------------------------------------------------------------
(* list_all_active_ordered; no active model ends the load with an empty    *)
(* schedule.                                                               *)
QueryModels ==
  /\ load = NoLoad /\ importer = NoImport
  /\ load' = IF ModelRows = {} THEN [at |-> "loaded", schedule |-> {}]
             ELSE [at |-> "maps", models |-> ModelRows]
  /\ UNCHANGED tableVars

(* list_filtered(None, None) *)
QueryMaps ==
  /\ load.at = "maps"
  /\ load' = [at |-> "providers", models |-> load.models, maps |-> MapRows]
  /\ UNCHANGED tableVars

ProviderIds == {row[3] : row \in load.maps}

(* list_by_ids *)
QueryProviders ==
  /\ load.at = "providers"
  /\ load' = [at |-> "credentials", models |-> load.models, maps |-> load.maps,
              providers |-> {row \in ProviderRows : row[2] \in ProviderIds}]
  /\ UNCHANGED tableVars

(* build_model_info: maps without their provider are passed over, and so   *)
(* is a model that has no other; a map without credentials stays (its      *)
(* credential is "none").                                                  *)
NoCredential == <<"credential", "none">>
EntryOf(row, cred) == [model |-> row[2], provider |-> row[3], credential |-> cred[2]]

\* Mutant: a model one of whose maps has no provider is passed over.
ScheduleOfWhole(models, maps, providers, credentials) ==
  LET resolved == {row \in maps : /\ <<"model", row[2]>> \in models
                                  /\ \A other \in maps : other[2] = row[2] =>
                                       <<"provider", other[3]>> \in providers}
      of(row) == {credential \in credentials : credential[3] = row[3]}
  IN  UNION {{EntryOf(row, cred) : cred \in of(row) \cup {NoCredential}} :
                row \in resolved}

ScheduleOf(models, maps, providers, credentials) ==
  LET resolved == {row \in maps : /\ <<"model", row[2]>> \in models
                                  /\ <<"provider", row[3]>> \in providers}
      of(row) == {credential \in credentials : credential[3] = row[3]}
  IN  UNION {{EntryOf(row, cred) : cred \in of(row) \cup {NoCredential}} :
                row \in resolved}

LoadedWith(credentials) ==
  [at |-> "loaded",
   schedule |-> ScheduleOf(load.models, load.maps, load.providers, credentials)]

\* Mutant: the credentials are not filtered by is_active.
QueryAllCredentials ==
  /\ load.at = "credentials"
  /\ load' = LoadedWith({<<"credential", c, provider_credential[c].provider>> : c \in Creds})
  /\ UNCHANGED tableVars

(* list_active_by_provider_ids, and the rest, which awaits nothing.        *)
QueryCredentials ==
  /\ load.at = "credentials"
  /\ load' = LoadedWith({row \in CredentialRows : row[3] \in ProviderIds})
  /\ UNCHANGED tableVars

(* A query fails, one credential cannot be decrypted, which fails the      *)
(* whole load, or the schedule has been handed out and cached.             *)
LoadOver ==
  /\ load # NoLoad
  /\ load' = NoLoad
  /\ UNCHANGED tableVars

(* What an import writes, the operator may write as well: imports are left *)
(* out while a load is under way.                                          *)
SchedulerNext ==
  /\ \/ /\ Cardinality(seen \ kept) < MaxDisturbed
        /\ OperatorNext
        /\ UNCHANGED load
     \/ load = NoLoad /\ ImportNext /\ UNCHANGED load
     \/ QueryModels \/ QueryMaps \/ QueryProviders \/ QueryCredentials
     \/ LoadOver
  /\ Watch

SchedulerSpec == SchedulerInit /\ [][SchedulerNext]_schedulerVars
-----------------------------------------------------------------------------
(* Three places compute which models are available: get_all_model_names    *)
(* for /v1/models, count_available_models for /admin/service/status, and   *)
(* the schedule.                                                           *)
ActiveProviders == {row[3] : row \in CredentialRows}

ListedModels ==
  {m \in Models : /\ model_config[m] = "active"
                  /\ \E p \in ActiveProviders : Mapped(m, p)}

CountedModels ==
  {m \in Models : /\ model_config[m] = "active"
                  /\ \E p \in ActiveProviders : provider_model_map[m][p] = "active"}

ScheduledNow == ScheduleOf(ModelRows, MapRows, ProviderRows, CredentialRows)

(* They agree this far: the proxy finds a credential to try for each model *)
(* that is counted, and it tries none that is not listed.  Nothing is said *)
(* of a model whose maps are all switched off (see OnlyActiveMaps).        *)
TriedModels == {entry.model : entry \in {e \in ScheduledNow : e.credential # "none"}}

CountedListedScheduled ==
  /\ CountedModels \subseteq TriedModels
  /\ TriedModels \subseteq ListedModels

(* However the tables change between the four queries, the schedule holds  *)
(* every combination whose rows have all been there throughout, with the   *)
(* map switched on: no row that comes or goes takes others with it.        *)
CredentialIn(entry, rows) ==
  entry.credential = "none" \/
    <<"credential", entry.credential, entry.provider>> \in rows

Entries ==
  [model : Models, provider : Providers, credential : Creds \cup {"none"}]

Stayed(entry) ==
  /\ {<<"model", entry.model>>, <<"enabled", entry.model, entry.provider>>,
      <<"provider", entry.provider>>} \subseteq kept
  /\ CredentialIn(entry, kept)

ScheduleHoldsWhatStayed ==
  load.at = "loaded" => \A entry \in Entries : Stayed(entry) => entry \in load.schedule

(* And it holds only what is made of rows that have each been there at     *)
(* some time of the load, if not at the same time: a map and a credential  *)
(* that never met may be paired.                                           *)
WasThere(entry) ==
  /\ {<<"model", entry.model>>, <<"map", entry.model, entry.provider>>,
      <<"provider", entry.provider>>} \subseteq seen
  /\ CredentialIn(entry, seen)

ScheduleHoldsWhatWasThere ==
  load.at = "loaded" => \A entry \in load.schedule : WasThere(entry)

(* What the comments in schedule_all_available and caching_strategy.md say *)
(* of the maps: the active ones are queried.  A map that has been switched *)
(* off throughout the load is not in the schedule.                         *)
OnlyActiveMaps ==
  load.at = "loaded" =>
    \A entry \in load.schedule : <<"enabled", entry.model, entry.provider>> \in seen
=============================================================================
