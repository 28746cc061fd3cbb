----------------------------- MODULE ModelTables -----------------------------
(***************************************************************************)
(* The tables the scheduler reads, as the admin handlers change them       *)
(* (handler/admin/model.rs, provider.rs, provider_model_map.rs,            *)
(* provider_credential.rs, import_models.rs over db/impls), with the       *)
(* foreign keys of migrations/001_sqlite_schema.sql.  A handler's last     *)
(* statement decides: updates write the columns they are given, and fail   *)
(* when the row is gone.                                                   *)
(***************************************************************************)
EXTENDS Naturals, FiniteSets

CONSTANTS Models, Providers, Creds

ASSUME CredsAssumption == "none" \notin Creds

VARIABLES
  model_config,         \* "absent", "inactive" or "active", by model
  provider_config,      \* the providers there are
  provider_model_map,   \* "absent", "inactive" or "active", by model and provider
  provider_credential,  \* the rows by credential, or NoRow
  importer              \* import_one: where it is, its model and provider

tableVars == <<model_config, provider_config, provider_model_map,
               provider_credential, importer>>

NoRow == [provider |-> "none", is_active |-> FALSE]
CredentialRow == [provider : Providers, is_active : BOOLEAN]

NoImport == [at |-> "idle", model |-> "none", provider |-> "none"]

TablesInit ==
  /\ model_config = [m \in Models |-> "absent"]
  /\ provider_config = {}
  /\ provider_model_map = [m \in Models |-> [p \in Providers |-> "absent"]]
  /\ provider_credential = [c \in Creds |-> NoRow]
  /\ importer = NoImport

ModelExists(m) == model_config[m] # "absent"
Mapped(m, p) == provider_model_map[m][p] # "absent"
CredentialExists(c) == provider_credential[c] # NoRow
-----------------------------------------------------------------------------
SaveModel(m, status) ==
  /\ model_config' = [model_config EXCEPT ![m] = status]
  /\ UNCHANGED <<provider_config, provider_model_map, provider_credential, importer>>

(* ON DELETE CASCADE *)
DeleteModel(m) ==
  /\ ModelExists(m)
  /\ model_config' = [model_config EXCEPT ![m] = "absent"]
  /\ provider_model_map' =
       [provider_model_map EXCEPT ![m] = [p \in Providers |-> "absent"]]
  /\ UNCHANGED <<provider_config, provider_credential, importer>>

CreateProvider(p) ==
  /\ provider_config' = provider_config \cup {p}
  /\ UNCHANGED <<model_config, provider_model_map, provider_credential, importer>>

\* Mutant: the foreign keys are not enforced.
DeleteProviderAlone(p) ==
  /\ p \in provider_config
  /\ provider_config' = provider_config \ {p}
  /\ UNCHANGED <<model_config, provider_model_map, provider_credential, importer>>

(* Refused while a credential refers to the provider; its maps go with it. *)
DeleteProvider(p) ==
  /\ p \in provider_config
  /\ \A c \in Creds : provider_credential[c].provider # p
  /\ provider_config' = provider_config \ {p}
  /\ provider_model_map' =
       [m \in Models |-> [provider_model_map[m] EXCEPT ![p] = "absent"]]
  /\ UNCHANGED <<model_config, provider_credential, importer>>

SaveMap(m, p, status) ==
  /\ ModelExists(m) /\ p \in provider_config
  /\ provider_model_map' = [provider_model_map EXCEPT ![m][p] = status]
  /\ UNCHANGED <<model_config, provider_config, provider_credential, importer>>

(* An update may move a credential to another provider or switch it on and *)
(* off.                                                                    *)
SaveCredential(c, row) ==
  /\ row \in CredentialRow /\ row.provider \in provider_config
  /\ provider_credential' = [provider_credential EXCEPT ![c] = row]
  /\ UNCHANGED <<model_config, provider_config, provider_model_map, importer>>

DeleteCredential(c) ==
  /\ CredentialExists(c)
  /\ provider_credential' = [provider_credential EXCEPT ![c] = NoRow]
  /\ UNCHANGED <<model_config, provider_config, provider_model_map, importer>>
-----------------------------------------------------------------------------
(* import_one: find the model, look for its map, write one.  The map may   *)
(* come or go between the look and the write.                              *)
ImportFind(m, p) ==
  /\ importer = NoImport
  /\ ModelExists(m) /\ p \in provider_config
  /\ importer' = [at |-> IF Mapped(m, p) THEN "update" ELSE "create",
                  model |-> m, provider |-> p]
  /\ UNCHANGED <<model_config, provider_config, provider_model_map, provider_credential>>

\* Mutant: the map is replaced, as a new one, whatever was found.
ImportReplaces ==
  LET m == importer.model
      p == importer.provider
  IN  /\ importer # NoImport
      /\ ModelExists(m) /\ p \in provider_config
      /\ provider_model_map' = [provider_model_map EXCEPT ![m][p] = "active"]
      /\ importer' = NoImport
      /\ UNCHANGED <<model_config, provider_config, provider_credential>>

(* An update leaves is_active, priority, status, timeout and headers as    *)
(* they are; a create is refused when there is a map by now, or no model   *)
(* or provider any more.                                                   *)
ImportWrite ==
  LET m == importer.model
      p == importer.provider
      creates == importer.at = "create" /\ ModelExists(m) /\ p \in provider_config
                   /\ ~Mapped(m, p)
  IN  /\ importer # NoImport
      /\ provider_model_map' =
           IF creates THEN [provider_model_map EXCEPT ![m][p] = "active"]
           ELSE provider_model_map
      /\ importer' = NoImport
      /\ UNCHANGED <<model_config, provider_config, provider_credential>>

OperatorNext ==
  \/ \E m \in Models :
       \/ \E status \in {"inactive", "active"} : SaveModel(m, status)
       \/ DeleteModel(m)
       \/ \E p \in Providers, status \in {"absent", "inactive", "active"} :
            SaveMap(m, p, status)
  \/ \E p \in Providers : CreateProvider(p) \/ DeleteProvider(p)
  \/ \E c \in Creds :
       \/ \E row \in CredentialRow : SaveCredential(c, row)
       \/ DeleteCredential(c)

ImportNext ==
  \/ \E m \in Models, p \in Providers : ImportFind(m, p)
  \/ ImportWrite
-----------------------------------------------------------------------------
(* Nobody but the operator switches a map on: an import of a model that is *)
(* mapped already leaves a map that was switched off switched off, even if *)
(* it was made or changed after the import had looked for it.              *)
ImportKeepsMapsOff ==
  [][importer' = NoImport /\ importer # NoImport =>
       \A m \in Models, p \in Providers :
         provider_model_map[m][p] = "inactive" =>
           provider_model_map'[m][p] = "inactive"]_tableVars
=============================================================================
