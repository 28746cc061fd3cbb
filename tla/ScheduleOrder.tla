---------------------------- MODULE ScheduleOrder ---------------------------
(***************************************************************************)
(* The order in which a chat request tries what it may try.  A schedule is *)
(* the nest the scheduler hands out (ModelScheduleInfo, ModelProviderMap,  *)
(* CredentialInfo): models in order, each with its maps, each map with the *)
(* ids of its provider's credentials.  The handler moves the model the     *)
(* request names to the front; reorder_by_affinity then looks up the last  *)
(* success of this API key on the first model.  A hit moves its provider's *)
(* maps to the front, a miss spreads keys over the credentials of a map.   *)
(***************************************************************************)
EXTENDS SequencesExt, FiniteSets, Naturals

ModelProviderMap == [provider : STRING, credentials : Seq(Nat)]
ModelScheduleInfo == [model : STRING, maps : Seq(ModelProviderMap)]

(* What build_model_info hands out: a model has one map for each of its    *)
(* providers, UNIQUE (model_id, provider_id), with that provider's own     *)
(* credentials.  Two providers may have the same name.                     *)
OneMapForEachCredential(model) ==
  \A i, j \in DOMAIN model.maps :
    i # j => ToSet(model.maps[i].credentials) \cap
               ToSet(model.maps[j].credentials) = {}

(* Iterator::partition: those of a sequence in a set, in their order.      *)
Those(s, S) ==
  LET those[i \in 0..Len(s)] ==
        IF i = 0 THEN <<>>
        ELSE those[i - 1] \o (IF s[i] \in S THEN <<s[i]>> ELSE <<>>)
  IN those[Len(s)]

MergePreferredFirst(models, name) ==
  LET preferred == {m \in ModelScheduleInfo : m.model = name} IN
  Those(models, preferred) \o Those(models, ModelScheduleInfo \ preferred)

(* A hit.  `affinity_maps.pop()` keeps the last map that holds the         *)
(* credential; the credentials inside the maps stay in priority order.     *)
SameProvider(target) ==
  {map \in ModelProviderMap : map.provider = target.provider}
Affinity(target) ==
  {map \in SameProvider(target) : target.credential \in ToSet(map.credentials)}

\* Mutant: the maps of the other providers are forgotten.
ByTargetOnly(model, target) ==
  [model EXCEPT !.maps = Those(@, SameProvider(target))]

Pop(s) == IF s = <<>> THEN <<>> ELSE <<Last(s)>>

TargetFirst(maps, target) ==
  Pop(Those(maps, Affinity(target)))
    \o Those(maps, SameProvider(target) \ Affinity(target))
    \o Those(maps, ModelProviderMap \ SameProvider(target))

ByTarget(model, target) == [model EXCEPT !.maps = TargetFirst(@, target)]

ReorderByTarget(models, target) ==
  [i \in DOMAIN models |-> ByTarget(models[i], target)]

(* A miss.  load[c] is count_by_credential(c): the affinity records that   *)
(* point at c.  sort_by_key puts a credential behind all that are lighter. *)
ByLoad(model, load) ==
  LET Lighter(c, d) == load[c] < load[d] \/ (load[c] = load[d] /\ c < d)
      Sorted(ids) ==
        [k \in 1..Cardinality(ids) |->
           CHOOSE c \in ids : Cardinality({d \in ids : Lighter(d, c)}) = k - 1]
      Spread(map) == [map EXCEPT !.credentials = Sorted(ToSet(@))]
  IN [model EXCEPT !.maps = [i \in DOMAIN @ |-> Spread(@[i])]]

ReorderByLoad(models, load) ==
  [i \in DOMAIN models |-> ByLoad(models[i], load)]

(* The triple loop `for model { for map { for cred` as one sequence.       *)
OfMap(model, map) ==
  [i \in DOMAIN map.credentials |->
     [model |-> model.model, provider |-> map.provider,
      credential |-> map.credentials[i]]]

OfModel(model) ==
  FlattenSeq([i \in DOMAIN model.maps |-> OfMap(model, model.maps[i])])

Candidates(models) ==
  FlattenSeq([i \in DOMAIN models |-> OfModel(models[i])])
=============================================================================
