------------------------ MODULE ModelSchedulerProofs ------------------------
(***************************************************************************)
(* What a load of the schedule promises while the tables change under it,  *)
(* and what the tables promise between loads, for any models, providers    *)
(* and credentials.                                                        *)
(***************************************************************************)
EXTENDS ModelScheduler, TLAPS

(* The kinds of rows are told apart by their first component.              *)
LEMMA RowKinds ==
  /\ \A row \in ModelRows : row[1] = "model"
  /\ \A row \in MapRows :
       row[1] = "map" /\ row = <<"map", row[2], row[3]>>
  /\ \A row \in EnabledRows :
       row[1] = "enabled" /\ <<"map", row[2], row[3]>> \in MapRows
  /\ \A row \in ProviderRows : row[1] = "provider"
  /\ \A row \in CredentialRows :
       row[1] = "credential" /\ row = <<"credential", row[2], row[3]>>
<1>1. \A row \in ModelRows : row[1] = "model"  BY DEF ModelRows
<1>2. \A row \in MapRows : row[1] = "map" /\ row = <<"map", row[2], row[3]>>
  BY DEF MapRows
<1>3. ASSUME NEW row \in EnabledRows
      PROVE  row[1] = "enabled" /\ <<"map", row[2], row[3]>> \in MapRows
  <2>1. /\ row[1] = "enabled" /\ row[2] \in Models /\ row[3] \in Providers
        /\ provider_model_map[row[2]][row[3]] = "active"
    BY DEF EnabledRows
  <2>2. <<"map", row[2], row[3]>> \in {"map"} \X Models \X Providers
    BY <2>1
  <2> QED  BY <2>1, <2>2 DEF MapRows, Mapped
<1>4. \A row \in ProviderRows : row[1] = "provider"  BY DEF ProviderRows
<1>5. \A row \in CredentialRows :
        row[1] = "credential" /\ row = <<"credential", row[2], row[3]>>
  BY DEF CredentialRows
<1> QED  BY <1>1, <1>2, <1>3, <1>4, <1>5

LEMMA RowsByKind ==
  /\ \A row \in Rows : row[1] = "model" => row \in ModelRows
  /\ \A row \in Rows : row[1] = "enabled" => row \in EnabledRows
  /\ \A row \in Rows : row[1] = "provider" => row \in ProviderRows
  /\ \A row \in Rows : row[1] = "credential" => row \in CredentialRows
BY RowKinds DEF Rows

(* What the schedule is made of: which combinations it holds, and where    *)
(* those it holds come from.                                               *)
Joined(row, cred, models, maps, providers, credentials) ==
  /\ row \in maps
  /\ <<"model", row[2]>> \in models
  /\ <<"provider", row[3]>> \in providers
  /\ cred = NoCredential \/ (cred \in credentials /\ cred[3] = row[3])

LEMMA ScheduleMembers ==
  ASSUME NEW models, NEW maps, NEW providers, NEW credentials
  PROVE  /\ \A row, cred : Joined(row, cred, models, maps, providers, credentials) =>
              EntryOf(row, cred) \in ScheduleOf(models, maps, providers, credentials)
         /\ \A entry \in ScheduleOf(models, maps, providers, credentials) :
              \E row, cred : /\ Joined(row, cred, models, maps, providers, credentials)
                            /\ entry = EntryOf(row, cred)
<1> DEFINE resolved == {row \in maps : /\ <<"model", row[2]>> \in models
                                       /\ <<"provider", row[3]>> \in providers}
           creds(row) == {c \in credentials : c[3] = row[3]} \cup {NoCredential}
           entries(row) == {EntryOf(row, cred) : cred \in creds(row)}
<1>1. ScheduleOf(models, maps, providers, credentials)
        = UNION {entries(row) : row \in resolved}
  BY DEF ScheduleOf
<1>2. ASSUME NEW row, NEW cred,
             Joined(row, cred, models, maps, providers, credentials)
      PROVE  EntryOf(row, cred) \in UNION {entries(r) : r \in resolved}
  <2>1. row \in resolved /\ cred \in creds(row)  BY <1>2 DEF Joined
  <2>2. EntryOf(row, cred) \in entries(row)  BY <2>1
  <2> HIDE DEF entries, resolved
  <2> QED  BY <2>1, <2>2
<1>3. ASSUME NEW entry \in UNION {entries(row) : row \in resolved}
      PROVE  \E row, cred : /\ Joined(row, cred, models, maps, providers, credentials)
                           /\ entry = EntryOf(row, cred)
  <2>1. PICK row \in resolved : entry \in entries(row)
    <3> HIDE DEF entries, resolved
    <3> QED  OBVIOUS
  <2>2. PICK cred \in creds(row) : entry = EntryOf(row, cred)  BY <2>1
  <2>3. Joined(row, cred, models, maps, providers, credentials)
    BY <2>1, <2>2 DEF Joined
  <2> QED  BY <2>2, <2>3
<1> HIDE DEF entries, resolved
<1> QED  BY <1>1, <1>2, <1>3
-----------------------------------------------------------------------------
(* An answer holds the rows of its kind that have been there throughout,   *)
(* and only such as have been there.                                       *)
Answers(answer, kind) ==
  /\ \A row \in kept : row[1] = kind => row \in answer
  /\ answer \subseteq seen

(* Of the maps, those that have been switched on throughout.               *)
MapAnswer ==
  /\ \A row \in kept : row[1] = "enabled" => <<"map", row[2], row[3]>> \in load.maps
  /\ load.maps \subseteq seen
  /\ \A row \in load.maps : row = <<"map", row[2], row[3]>>

ProviderAnswer ==
  /\ \A row \in kept :
       row[1] = "provider" /\ row[2] \in ProviderIds => row \in load.providers
  /\ load.providers \subseteq seen

LoadInv ==
  /\ load # NoLoad => kept \subseteq Rows /\ Rows \subseteq seen
  /\ load.at \in {"maps", "providers", "credentials"} =>
       Answers(load.models, "model")
  /\ load.at \in {"providers", "credentials"} => MapAnswer
  /\ load.at = "credentials" => ProviderAnswer
  /\ ScheduleHoldsWhatStayed
  /\ ScheduleHoldsWhatWasThere

LEMMA LoadInitInv == SchedulerInit => LoadInv
BY DEF SchedulerInit, NoLoad, LoadInv, ScheduleHoldsWhatStayed,
       ScheduleHoldsWhatWasThere

(* While the load stays where it is, rows only leave kept and join seen.   *)
LEMMA WatchedStep == ASSUME LoadInv, load' = load, Watch PROVE LoadInv'
<1>1. CASE load = NoLoad
  BY <1>1 DEF NoLoad, LoadInv, ScheduleHoldsWhatStayed, ScheduleHoldsWhatWasThere
<1>2. CASE load # NoLoad
  <2>1. /\ kept' \subseteq kept /\ kept' \subseteq Rows'
        /\ seen \subseteq seen' /\ Rows' \subseteq seen'
    BY <1>2 DEF Watch
  <2>2. ASSUME NEW answer, NEW kind, Answers(answer, kind)
        PROVE  /\ \A row \in kept' : row[1] = kind => row \in answer
               /\ answer \subseteq seen'
    BY <2>1, <2>2 DEF Answers
  <2>3. load'.at \in {"maps", "providers", "credentials"} =>
          Answers(load.models, "model")'
    BY <2>2 DEF LoadInv, Answers
  <2>4. load'.at \in {"providers", "credentials"} => MapAnswer'
    BY <2>1 DEF LoadInv, MapAnswer
  <2>5. load'.at = "credentials" => ProviderAnswer'
    BY <2>1 DEF LoadInv, ProviderAnswer, ProviderIds
  <2>6. ScheduleHoldsWhatStayed'
    <3> SUFFICES ASSUME load.at = "loaded", NEW entry \in Entries,
                        Stayed(entry)'
                 PROVE  entry \in load.schedule
      BY DEF ScheduleHoldsWhatStayed, Stayed
    <3>1. Stayed(entry)
      BY <2>1 DEF Stayed, CredentialIn
    <3> QED  BY <3>1 DEF LoadInv, ScheduleHoldsWhatStayed
  <2>7. ScheduleHoldsWhatWasThere'
    <3> SUFFICES ASSUME load.at = "loaded", NEW entry \in load.schedule
                 PROVE  WasThere(entry)'
      BY DEF ScheduleHoldsWhatWasThere, WasThere
    <3>1. WasThere(entry)
      BY DEF LoadInv, ScheduleHoldsWhatWasThere
    <3> QED  BY <2>1, <3>1 DEF WasThere, CredentialIn
  <2> QED  BY <2>1, <2>3, <2>4, <2>5, <2>6, <2>7 DEF LoadInv
<1> QED  BY <1>1, <1>2
-----------------------------------------------------------------------------
(* A query changes no table, so its rows are those there have been.        *)
LEMMA QueryRows ==
  ASSUME LoadInv, UNCHANGED tableVars, Watch, load # NoLoad, load' # NoLoad
  PROVE  /\ kept' = kept /\ seen' = seen /\ Rows' = Rows
         /\ kept \subseteq Rows /\ Rows \subseteq seen
BY DEF LoadInv, Watch, tableVars, Rows, ModelRows, MapRows, EnabledRows, ProviderRows,
       CredentialRows, Mapped

LEMMA FirstQuery == ASSUME LoadInv, QueryModels, Watch PROVE LoadInv'
<1>1. /\ load = NoLoad /\ load' # NoLoad
      /\ kept' = Rows' /\ seen' = Rows' /\ Rows' = Rows
  BY DEF QueryModels, NoLoad, Watch, tableVars, Rows, ModelRows, MapRows,
         EnabledRows, ProviderRows, CredentialRows, Mapped
<1>2. CASE ModelRows = {}
  <2>1. load' = [at |-> "loaded", schedule |-> {}]  BY <1>2 DEF QueryModels
  <2>2. ScheduleHoldsWhatStayed'
    <3> SUFFICES ASSUME NEW entry \in Entries, Stayed(entry)'
                 PROVE  FALSE
      BY <2>1 DEF ScheduleHoldsWhatStayed, Stayed
    <3>1. <<"model", entry.model>> \in Rows  BY <1>1 DEF Stayed
    <3> QED  BY <1>2, <3>1, RowsByKind
  <2>3. ScheduleHoldsWhatWasThere'  BY <2>1 DEF ScheduleHoldsWhatWasThere
  <2> QED  BY <1>1, <2>1, <2>2, <2>3 DEF LoadInv
<1>3. CASE ModelRows # {}
  <2>1. load' = [at |-> "maps", models |-> ModelRows]  BY <1>3 DEF QueryModels
  <2>2. Answers(load.models, "model")'
    BY <1>1, <2>1, RowsByKind DEF Answers, Rows
  <2> QED
    BY <1>1, <2>1, <2>2
    DEF LoadInv, ScheduleHoldsWhatStayed, ScheduleHoldsWhatWasThere
<1> QED  BY <1>2, <1>3

LEMMA MapsQuery == ASSUME LoadInv, QueryMaps, Watch PROVE LoadInv'
<1>1. load' = [at |-> "providers", models |-> load.models, maps |-> MapRows]
  BY DEF QueryMaps
<1>2. load # NoLoad /\ load' # NoLoad  BY <1>1 DEF QueryMaps, NoLoad
<1>3. /\ kept' = kept /\ seen' = seen /\ Rows' = Rows
      /\ kept \subseteq Rows /\ Rows \subseteq seen
  BY <1>2, QueryRows DEF QueryMaps
<1>4. Answers(load.models, "model")'
  BY <1>1, <1>3 DEF QueryMaps, LoadInv, Answers
<1>5. MapAnswer'
  <2>1. \A row \in kept : row[1] = "enabled" => <<"map", row[2], row[3]>> \in MapRows
    BY <1>3, RowsByKind, RowKinds
  <2> QED  BY <1>1, <1>3, <2>1, RowKinds DEF MapAnswer, Rows
<1> QED
  BY <1>1, <1>3, <1>4, <1>5
  DEF LoadInv, ScheduleHoldsWhatStayed, ScheduleHoldsWhatWasThere

LEMMA ProvidersQuery == ASSUME LoadInv, QueryProviders, Watch PROVE LoadInv'
<1> DEFINE found == {row \in ProviderRows : row[2] \in ProviderIds}
<1>1. load' = [at |-> "credentials", models |-> load.models, maps |-> load.maps,
               providers |-> found]
  BY DEF QueryProviders
<1>2. load # NoLoad /\ load' # NoLoad  BY <1>1 DEF QueryProviders, NoLoad
<1>3. /\ kept' = kept /\ seen' = seen /\ Rows' = Rows
      /\ kept \subseteq Rows /\ Rows \subseteq seen
  BY <1>2, QueryRows DEF QueryProviders
<1>4. Answers(load.models, "model")'
  BY <1>1, <1>3 DEF QueryProviders, LoadInv, Answers
<1>5. MapAnswer'
  BY <1>1, <1>3 DEF QueryProviders, LoadInv, MapAnswer
<1>6. ProviderIds' = ProviderIds  BY <1>1 DEF ProviderIds
<1>7. ProviderAnswer'
  BY <1>1, <1>3, <1>6, RowsByKind DEF ProviderAnswer, Rows
<1> QED
  BY <1>1, <1>3, <1>4, <1>5, <1>7
  DEF LoadInv, ScheduleHoldsWhatStayed, ScheduleHoldsWhatWasThere

LEMMA CredentialsQuery == ASSUME LoadInv, QueryCredentials, Watch PROVE LoadInv'
<1> DEFINE found == {row \in CredentialRows : row[3] \in ProviderIds}
<1>1. load' = [at |-> "loaded",
               schedule |-> ScheduleOf(load.models, load.maps, load.providers, found)]
  BY DEF QueryCredentials, LoadedWith
<1>2. load # NoLoad /\ load' # NoLoad /\ load.at = "credentials"
  BY <1>1 DEF QueryCredentials, NoLoad
<1>3. /\ kept' = kept /\ seen' = seen /\ Rows' = Rows
      /\ kept \subseteq Rows /\ Rows \subseteq seen
  BY <1>2, QueryRows DEF QueryCredentials
<1>4. Answers(load.models, "model") /\ MapAnswer /\ ProviderAnswer
  BY <1>2 DEF LoadInv
<1>5. ScheduleHoldsWhatStayed'
  <2> SUFFICES ASSUME NEW entry \in Entries, Stayed(entry)
               PROVE  entry \in ScheduleOf(load.models, load.maps, load.providers, found)
    BY <1>1, <1>3 DEF ScheduleHoldsWhatStayed, Stayed
  <2> DEFINE map == <<"map", entry.model, entry.provider>>
             credential == <<"credential", entry.credential, entry.provider>>
  <2>1. /\ <<"model", entry.model>> \in load.models /\ map \in load.maps
        /\ <<"provider", entry.provider>> \in kept
    <3> DEFINE enabled == <<"enabled", entry.model, entry.provider>>
    <3>1. enabled \in kept /\ enabled[1] = "enabled"
          /\ enabled[2] = entry.model /\ enabled[3] = entry.provider
      BY DEF Stayed
    <3>2. map \in load.maps
      <4> HIDE DEF enabled
      <4> QED  BY <1>4, <3>1 DEF MapAnswer
    <3> QED  BY <1>4, <3>2 DEF Stayed, Answers
  <2>2. entry.provider \in ProviderIds  BY <2>1 DEF ProviderIds
  <2>3. <<"provider", entry.provider>> \in load.providers
    BY <1>4, <2>1, <2>2 DEF ProviderAnswer
  <2>4. /\ map[2] = entry.model /\ map[3] = entry.provider
        /\ credential[1] = "credential" /\ credential[2] = entry.credential
        /\ credential[3] = entry.provider
        /\ NoCredential[2] = "none"
    BY DEF NoCredential
  <2>5. entry = [model |-> entry.model, provider |-> entry.provider,
                 credential |-> entry.credential]
    BY DEF Entries
  <2>6. PICK cred : /\ cred = NoCredential \/ (cred \in found /\ cred[3] = entry.provider)
                    /\ cred[2] = entry.credential
    <3>1. CASE entry.credential = "none"  BY <2>4, <3>1
    <3>2. CASE credential \in kept
      <4>1. credential \in CredentialRows  BY <1>3, <2>4, <3>2, RowsByKind
      <4>2. credential \in found  BY <2>2, <2>4, <4>1
      <4> QED  BY <2>4, <4>2
    <3> QED  BY <3>1, <3>2 DEF Stayed, CredentialIn
  <2>7. Joined(map, cred, load.models, load.maps, load.providers, found)
    BY <2>1, <2>3, <2>4, <2>6 DEF Joined
  <2>8. entry = EntryOf(map, cred)  BY <2>4, <2>5, <2>6 DEF EntryOf
  <2> HIDE DEF map, credential, found
  <2> QED  BY <2>7, <2>8, ScheduleMembers
<1>6. ScheduleHoldsWhatWasThere'
  <2> SUFFICES ASSUME NEW entry \in ScheduleOf(load.models, load.maps, load.providers, found)
               PROVE  WasThere(entry)
    BY <1>1, <1>3 DEF ScheduleHoldsWhatWasThere, WasThere
  <2> HIDE DEF found
  <2>1. PICK row, cred :
          /\ Joined(row, cred, load.models, load.maps, load.providers, found)
          /\ entry = EntryOf(row, cred)
    BY ScheduleMembers
  <2>2. /\ row \in load.maps /\ <<"model", row[2]>> \in load.models
        /\ <<"provider", row[3]>> \in load.providers
        /\ cred = NoCredential \/ (cred \in found /\ cred[3] = row[3])
    BY <2>1 DEF Joined
  <2>3. entry.model = row[2] /\ entry.provider = row[3] /\ entry.credential = cred[2]
    BY <2>1 DEF EntryOf
  <2>4. {<<"model", entry.model>>, <<"map", entry.model, entry.provider>>,
         <<"provider", entry.provider>>} \subseteq seen
    BY <1>4, <2>2, <2>3 DEF Answers, MapAnswer, ProviderAnswer
  <2>5. CredentialIn(entry, seen)
    <3>1. CASE cred = NoCredential
      BY <2>3, <3>1 DEF CredentialIn, NoCredential
    <3>2. CASE cred \in found /\ cred[3] = row[3]
      <4>1. cred \in CredentialRows /\ cred = <<"credential", cred[2], cred[3]>>
        BY <3>2, RowKinds DEF found
      <4>2. cred \in seen  BY <1>3, <4>1 DEF Rows
      <4> QED  BY <2>3, <3>2, <4>1, <4>2 DEF CredentialIn
    <3> QED  BY <2>2, <3>1, <3>2
  <2> QED  BY <2>4, <2>5 DEF WasThere
<1> QED  BY <1>1, <1>3, <1>5, <1>6 DEF LoadInv

LEMMA LoadStep == LoadInv /\ [SchedulerNext]_schedulerVars => LoadInv'
<1> SUFFICES ASSUME LoadInv, [SchedulerNext]_schedulerVars PROVE LoadInv'
  OBVIOUS
<1>1. ASSUME UNCHANGED schedulerVars PROVE LoadInv'
  BY <1>1 DEF schedulerVars, tableVars, LoadInv, Answers, MapAnswer, ProviderAnswer,
     ProviderIds, ScheduleHoldsWhatStayed, Stayed, ScheduleHoldsWhatWasThere, WasThere,
     Rows, ModelRows, MapRows, EnabledRows, ProviderRows, CredentialRows, Mapped
<1>2. ASSUME load' = load, Watch PROVE LoadInv'  BY <1>2, WatchedStep
<1>3. ASSUME LoadOver, Watch PROVE LoadInv'
  BY <1>3 DEF LoadOver, NoLoad, LoadInv, ScheduleHoldsWhatStayed, ScheduleHoldsWhatWasThere
<1> QED
  BY <1>1, <1>2, <1>3, FirstQuery, MapsQuery, ProvidersQuery, CredentialsQuery
  DEF SchedulerNext

(* For any tables, however they change between the four queries: the       *)
(* schedule holds every combination whose rows stayed throughout, with the *)
(* map switched on.                                                        *)
THEOREM ScheduleHoldsWhatStayedHolds == SchedulerSpec => []ScheduleHoldsWhatStayed
<1>1. SchedulerInit => LoadInv  BY LoadInitInv
<1>2. LoadInv /\ [SchedulerNext]_schedulerVars => LoadInv'  BY LoadStep
<1>3. LoadInv => ScheduleHoldsWhatStayed  BY DEF LoadInv
<1> QED  BY <1>1, <1>2, <1>3, PTL DEF SchedulerSpec

(* And it holds nothing whose rows have not been there since the load      *)
(* began.                                                                  *)
THEOREM ScheduleHoldsWhatWasThereHolds ==
  SchedulerSpec => []ScheduleHoldsWhatWasThere
<1>1. SchedulerInit => LoadInv  BY LoadInitInv
<1>2. LoadInv /\ [SchedulerNext]_schedulerVars => LoadInv'  BY LoadStep
<1>3. LoadInv => ScheduleHoldsWhatWasThere  BY DEF LoadInv
<1> QED  BY <1>1, <1>2, <1>3, PTL DEF SchedulerSpec
-----------------------------------------------------------------------------
(* What the tables promise.  Foreign keys: no active credential is without *)
(* its provider.                                                           *)
CredentialsHaveProviders ==
  \A c \in Creds : provider_credential[c].is_active =>
    provider_credential[c].provider \in provider_config

TablesInv ==
  /\ provider_model_map \in [Models -> [Providers -> {"absent", "inactive", "active"}]]
  /\ provider_credential \in [Creds -> CredentialRow \cup {NoRow}]
  /\ CredentialsHaveProviders

LEMMA TablesInitInv == SchedulerInit => TablesInv
BY DEF SchedulerInit, TablesInit, TablesInv, CredentialsHaveProviders, NoRow

LEMMA OperatorStep == ASSUME TablesInv, OperatorNext PROVE TablesInv'
<1> USE DEF TablesInv, CredentialsHaveProviders
<1>1. ASSUME NEW m \in Models, NEW status \in {"inactive", "active"}, SaveModel(m, status)
      PROVE  TablesInv'
  BY <1>1 DEF SaveModel
<1>2. ASSUME NEW m \in Models, DeleteModel(m) PROVE TablesInv'
  BY <1>2 DEF DeleteModel
<1>3. ASSUME NEW m \in Models, NEW p \in Providers,
             NEW status \in {"absent", "inactive", "active"}, SaveMap(m, p, status)
      PROVE  TablesInv'
  BY <1>3 DEF SaveMap
<1>4. ASSUME NEW p \in Providers, CreateProvider(p) PROVE TablesInv'
  BY <1>4 DEF CreateProvider
<1>5. ASSUME NEW p \in Providers, DeleteProvider(p) PROVE TablesInv'
  BY <1>5 DEF DeleteProvider
<1>6. ASSUME NEW c \in Creds, NEW row \in CredentialRow, SaveCredential(c, row)
      PROVE  TablesInv'
  BY <1>6 DEF SaveCredential
<1>7. ASSUME NEW c \in Creds, DeleteCredential(c) PROVE TablesInv'
  BY <1>7 DEF DeleteCredential, NoRow
<1> QED  BY <1>1, <1>2, <1>3, <1>4, <1>5, <1>6, <1>7 DEF OperatorNext

LEMMA TablesStep == TablesInv /\ [SchedulerNext]_schedulerVars => TablesInv'
<1> SUFFICES ASSUME TablesInv, [SchedulerNext]_schedulerVars PROVE TablesInv'
  OBVIOUS
<1>1. ASSUME UNCHANGED tableVars PROVE TablesInv'
  BY <1>1 DEF tableVars, TablesInv, CredentialsHaveProviders
<1>2. ASSUME ImportNext PROVE TablesInv'
  BY <1>2 DEF ImportNext, ImportFind, ImportWrite, TablesInv, CredentialsHaveProviders
<1> QED
  BY <1>1, <1>2, OperatorStep
  DEF SchedulerNext, schedulerVars, QueryModels, QueryMaps, QueryProviders,
      QueryCredentials, LoadOver

(* For any tables with their foreign keys: the proxy finds a credential to *)
(* try for each model count_available_models counts, and tries none that   *)
(* get_all_model_names does not list.                                      *)
THEOREM CountedListedScheduledHolds == SchedulerSpec => []CountedListedScheduled
<1>1. SchedulerInit => TablesInv  BY TablesInitInv
<1>2. TablesInv /\ [SchedulerNext]_schedulerVars => TablesInv'  BY TablesStep
<1>3. TablesInv => CountedListedScheduled
  <2> SUFFICES ASSUME TablesInv PROVE CountedListedScheduled
    OBVIOUS
  <2> DEFINE tried == {e \in ScheduledNow : e.credential # "none"}
  <2>1. ASSUME NEW m \in CountedModels PROVE \E e \in tried : e.model = m
    <3>1. PICK p \in ActiveProviders : Mapped(m, p)  BY DEF CountedModels, Mapped
    <3>2. PICK c \in Creds : provider_credential[c].is_active
                              /\ p = provider_credential[c].provider
      BY <3>1 DEF ActiveProviders, CredentialRows
    <3>3. p \in Providers /\ p \in provider_config
      BY <3>2 DEF TablesInv, CredentialsHaveProviders, CredentialRow, NoRow
    <3> DEFINE row == <<"map", m, p>>
               cred == <<"credential", c, p>>
    <3>4. row \in MapRows
      BY <3>1, <3>3 DEF MapRows, CountedModels
    <3>5. cred \in CredentialRows  BY <3>2 DEF CredentialRows
    <3>6. <<"model", m>> \in ModelRows /\ <<"provider", p>> \in ProviderRows
      BY <3>3 DEF ModelRows, ProviderRows, CountedModels
    <3>7. row[2] = m /\ row[3] = p /\ cred[2] = c /\ cred[3] = p
      OBVIOUS
    <3> HIDE DEF row, cred
    <3>8. Joined(row, cred, ModelRows, MapRows, ProviderRows, CredentialRows)
      BY <3>4, <3>5, <3>6, <3>7 DEF Joined
    <3>9. EntryOf(row, cred) \in ScheduledNow
      BY <3>8, ScheduleMembers DEF ScheduledNow
    <3>10. EntryOf(row, cred).model = m /\ EntryOf(row, cred).credential # "none"
      BY <3>7, CredsAssumption DEF EntryOf
    <3> QED  BY <3>9, <3>10
  <2>2. ASSUME NEW e \in tried PROVE e.model \in ListedModels
    <3>1. PICK row, cred :
            /\ Joined(row, cred, ModelRows, MapRows, ProviderRows, CredentialRows)
            /\ e = EntryOf(row, cred)
      BY ScheduleMembers DEF ScheduledNow
    <3>2. e.model = row[2] /\ cred[2] # "none"  BY <3>1 DEF EntryOf
    <3>3. cred \in CredentialRows /\ cred[3] = row[3]
      BY <3>1, <3>2 DEF Joined, NoCredential
    <3>4. row[3] \in ActiveProviders  BY <3>3 DEF ActiveProviders
    <3>5. Mapped(row[2], row[3])  BY <3>1 DEF Joined, MapRows
    <3>6. row[2] \in Models /\ model_config[row[2]] = "active"
      BY <3>1 DEF Joined, ModelRows
    <3> QED  BY <3>2, <3>4, <3>5, <3>6 DEF ListedModels
  <2> HIDE DEF tried
  <2>3. /\ CountedModels \subseteq {entry.model : entry \in tried}
        /\ {entry.model : entry \in tried} \subseteq ListedModels
    BY <2>1, <2>2
  <2> QED  BY <2>3 DEF CountedListedScheduled, TriedModels, tried
<1> QED  BY <1>1, <1>2, <1>3, PTL DEF SchedulerSpec

(* For any tables an import leaves a map that is switched off as it is.    *)
THEOREM ImportKeepsMapsOffHolds == SchedulerSpec => ImportKeepsMapsOff
<1> DEFINE Step == importer' = NoImport /\ importer # NoImport =>
                     \A m \in Models, p \in Providers :
                       provider_model_map[m][p] = "inactive" =>
                         provider_model_map'[m][p] = "inactive"
<1>1. SchedulerInit => TablesInv  BY TablesInitInv
<1>2. TablesInv /\ [SchedulerNext]_schedulerVars => TablesInv'  BY TablesStep
<1>3. TablesInv /\ [SchedulerNext]_schedulerVars => [Step]_tableVars
  <2> SUFFICES ASSUME TablesInv, [SchedulerNext]_schedulerVars,
                      importer' = NoImport, importer # NoImport
               PROVE  Step
    OBVIOUS
  <2>1. ImportWrite
    BY DEF SchedulerNext, schedulerVars, tableVars, OperatorNext, SaveModel, DeleteModel,
       CreateProvider, DeleteProvider, SaveMap, SaveCredential, DeleteCredential,
       ImportNext, ImportFind, QueryModels, QueryMaps, QueryProviders,
       QueryCredentials, LoadOver
  <2> QED  BY <2>1 DEF ImportWrite, TablesInv, Mapped
<1> QED  BY <1>1, <1>2, <1>3, PTL DEF SchedulerSpec, ImportKeepsMapsOff
=============================================================================
