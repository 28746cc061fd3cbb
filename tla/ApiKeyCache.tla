----------------------------- MODULE ApiKeyCache -----------------------------
(***************************************************************************)
(* The set of keys the proxy accepts (util/api_key_cache.rs), the table it *)
(* is loaded from and the admin calls that change the table and load it    *)
(* again (handler/admin/api_key.rs, refresh_cache in stats.rs).  A call    *)
(* awaits the database and does not exclude others.  Nothing is awaited    *)
(* between invalidate_all and the inserts, but the workers are threads.    *)
(***************************************************************************)
EXTENDS Naturals, FiniteSets

CONSTANTS
  ApiKeyValues,   \* the key_values there may be
  KeyCalls,       \* slots for admin calls under way
  KeyCapacity     \* max_capacity of the cache

VARIABLES
  api_key,     \* the table: "absent", "inactive" or "active", by key_value
  keyCache,    \* ApiKeyCache
  keyCall,     \* the admin call in each slot
  keyServer,   \* "down" or "up"
  settled,     \* history: the last load to end did so alone and succeeded,
               \* and no key has been evicted since
  steady       \* history: keys active since a load that ended so

keyVars == <<api_key, keyCache, keyCall, keyServer, settled, steady>>

KeyStatus == {"absent", "inactive", "active"}
ActiveKeys == {k \in ApiKeyValues : api_key[k] = "active"}

(* `keys` is the answer of load_active_keys, less what has been inserted.  *)
(* alone is history: no other call has been under way beside this one, and *)
(* no key has been evicted.                                                *)
NoCall == [at |-> "idle", keys |-> {}, alone |-> FALSE]

KeyInit ==
  /\ api_key \in [ApiKeyValues -> KeyStatus]
  /\ keyCache = {}
  /\ keyCall = [c \in KeyCalls |-> NoCall]
  /\ keyServer = "down"
  /\ settled = FALSE
  /\ steady = {}

CallAt(c, at) == keyServer = "up" /\ keyCall[c].at = at
Quiet == \A c \in KeyCalls : keyCall[c].at = "idle"
-----------------------------------------------------------------------------
(* load_all at startup, before anything is served: a load that fails       *)
(* leaves the cache empty.                                                 *)
LoadAll ==
  /\ keyServer = "down"
  /\ keyServer' = "up"
  /\ \/ keyCache' = ActiveKeys /\ settled' = TRUE /\ steady' = ActiveKeys
     \/ keyCache' = {} /\ settled' = FALSE /\ steady' = {}
  /\ UNCHANGED <<api_key, keyCall>>

(* The process ends at any point, and the calls with it.                   *)
KeyServerStops ==
  /\ keyServer = "up"
  /\ keyServer' = "down"
  /\ keyCache' = {}
  /\ keyCall' = [c \in KeyCalls |-> NoCall]
  /\ settled' = FALSE
  /\ steady' = {}
  /\ UNCHANGED api_key

Begins(c) ==
  keyCall' = [d \in KeyCalls |->
    IF d = c THEN [at |-> "load", keys |-> {}, alone |-> Quiet]
    ELSE [keyCall[d] EXCEPT !.alone = FALSE]]

(* create, update and delete of the row                                    *)
Saved(k, status) == [api_key EXCEPT ![k] = status]

(* The row, and then the refresh.  An update may leave is_active as it is, *)
(* and a delete that finds no row refreshes, too; a call that fails ends   *)
(* without.                                                                *)
ChangeKey(c, k, status) ==
  /\ CallAt(c, "idle")
  /\ api_key' = Saved(k, status)
  /\ Begins(c)
  /\ steady' = IF status = "active" THEN steady ELSE steady \ {k}
  /\ UNCHANGED <<keyCache, keyServer, settled>>

(* /admin/cache/refresh *)
RefreshCache(c) ==
  /\ CallAt(c, "idle")
  /\ Begins(c)
  /\ UNCHANGED <<api_key, keyCache, keyServer, settled, steady>>

LoadActiveKeys(c) ==
  /\ CallAt(c, "load")
  /\ keyCall' = [keyCall EXCEPT ![c].at = "replace", ![c].keys = ActiveKeys]
  /\ UNCHANGED <<api_key, keyCache, keyServer, settled, steady>>

\* Mutant: like load_all, a refresh goes on with no keys.
LoadFailsEmpty(c) ==
  /\ CallAt(c, "load")
  /\ keyCall' = [keyCall EXCEPT ![c].at = "replace"]
  /\ UNCHANGED <<api_key, keyCache, keyServer, settled, steady>>

(* A refresh whose load fails leaves the cache as it is.                   *)
LoadFails(c) ==
  /\ CallAt(c, "load")
  /\ keyCall' = [keyCall EXCEPT ![c] = NoCall]
  /\ settled' = FALSE
  /\ UNCHANGED <<api_key, keyCache, keyServer, steady>>

\* Mutant: the keys are inserted into the cache as it is.
InvalidateNothing(c) ==
  /\ CallAt(c, "replace")
  /\ keyCall' = [keyCall EXCEPT ![c].at = "insert"]
  /\ UNCHANGED <<api_key, keyCache, keyServer, settled, steady>>

InvalidateAll(c) ==
  /\ CallAt(c, "replace")
  /\ keyCache' = {}
  /\ keyCall' = [keyCall EXCEPT ![c].at = "insert"]
  /\ UNCHANGED <<api_key, keyServer, settled, steady>>

InsertKey(c, k) ==
  /\ CallAt(c, "insert")
  /\ k \in keyCall[c].keys
  /\ keyCache' = keyCache \cup {k}
  /\ keyCall' = [keyCall EXCEPT ![c].keys = @ \ {k}]
  /\ UNCHANGED <<api_key, keyServer, settled, steady>>

CallEnds(c) ==
  /\ CallAt(c, "insert")
  /\ keyCall[c].keys = {}
  /\ keyCall' = [keyCall EXCEPT ![c] = NoCall]
  /\ settled' = keyCall[c].alone
  /\ steady' = IF keyCall[c].alone THEN ActiveKeys ELSE steady
  /\ UNCHANGED <<api_key, keyCache, keyServer>>

(* Above its capacity the cache gives keys up.                             *)
EvictKey(k) ==
  /\ k \in keyCache
  /\ Cardinality(keyCache) > KeyCapacity
  /\ keyCache' = keyCache \ {k}
  /\ keyCall' = [c \in KeyCalls |-> [keyCall[c] EXCEPT !.alone = FALSE]]
  /\ settled' = FALSE
  /\ steady' = steady \ {k}
  /\ UNCHANGED <<api_key, keyServer>>

KeyNext ==
  \/ LoadAll \/ KeyServerStops
  \/ \E c \in KeyCalls :
       \/ \E k \in ApiKeyValues, status \in KeyStatus : ChangeKey(c, k, status)
       \/ RefreshCache(c)
       \/ LoadActiveKeys(c) \/ LoadFails(c)
       \/ InvalidateAll(c) \/ CallEnds(c)
       \/ \E k \in ApiKeyValues : InsertKey(c, k)
  \/ \E k \in ApiKeyValues : EvictKey(k)

KeySpec == KeyInit /\ [][KeyNext]_keyVars
-----------------------------------------------------------------------------
KeyTypeOK ==
  /\ api_key \in [ApiKeyValues -> KeyStatus]
  /\ keyCache \subseteq ApiKeyValues
  /\ keyCall \in [KeyCalls -> [at : {"idle", "load", "replace", "insert"},
                               keys : SUBSET ApiKeyValues, alone : BOOLEAN]]
  /\ keyServer \in {"down", "up"}
  /\ settled \in BOOLEAN
  /\ steady \subseteq ApiKeyValues

(* AuthMiddleware: everything but /health and /admin/ needs a bearer token *)
(* that the cache holds.                                                   *)
Accepted == keyCache

(* Once a call has ended that was alone from its change to its end and     *)
(* whose load succeeded, the keys that are accepted are the active ones,   *)
(* until the next call begins: a revoked key is refused.  After overlapping*)
(* refreshes the code promises nothing: an older answer may come last.     *)
QuietCacheIsCurrent ==
  keyServer = "up" /\ Quiet /\ settled => Accepted = ActiveKeys

(* A key that has been active since the last such call (or the start) is   *)
(* refused only while a refresh that has emptied the cache still has to    *)
(* insert it, however refreshes of other keys overlap or fail, unless the  *)
(* cache is too small.                                                     *)
StillToInsert(k) == \E c \in KeyCalls : CallAt(c, "insert") /\ k \in keyCall[c].keys

SteadyKeysAreAccepted ==
  \A k \in steady : k \in Accepted \/ StillToInsert(k)
=============================================================================
