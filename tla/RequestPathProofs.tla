-------------------------- MODULE RequestPathProofs --------------------------
(***************************************************************************)
(* Four parts of the server a request comes across that share no state:    *)
(* the accepted API keys, the admin middleware, the check of the target's  *)
(* URL, and the scanner of the streams that come back.  Each part has its  *)
(* invariant and its theorems.                                             *)
(***************************************************************************)
EXTENDS ApiKeyCache, AdminAuth, UrlCheck, SseScanner, DataLemmas

-----------------------------------------------------------------------------
(* Part one, for any keys, any number of admin calls and any capacity: the *)
(* types of ApiKeyCache, and its two safety properties by one inductive    *)
(* invariant.                                                              *)

(* A call that is alone has no other beside it, and what it has loaded is  *)
(* what is active.                                                         *)
AloneIsAlone ==
  \A c \in KeyCalls : keyCall[c].alone =>
    /\ keyCall[c].at # "idle"
    /\ \A d \in KeyCalls \ {c} : keyCall[d].at = "idle"
    /\ keyCall[c].at = "replace" => keyCall[c].keys = ActiveKeys
    /\ keyCall[c].at = "insert" => keyCache \cup keyCall[c].keys = ActiveKeys

SettledIsCurrent == settled /\ Quiet => keyCache = ActiveKeys

(* Steady keys are active, every call that has loaded has them, and they   *)
(* are in the cache or to be inserted.                                     *)
SteadyIsHeld ==
  \A k \in steady :
    /\ k \in ActiveKeys
    /\ \A c \in KeyCalls : keyCall[c].at = "replace" => k \in keyCall[c].keys
    /\ \/ k \in keyCache
       \/ \E c \in KeyCalls : keyCall[c].at = "insert" /\ k \in keyCall[c].keys

DownIsIdle == keyServer = "down" => Quiet /\ steady = {} /\ ~settled /\ keyCache = {}

KeyInv ==
  /\ KeyTypeOK
  /\ DownIsIdle
  /\ AloneIsAlone
  /\ SettledIsCurrent
  /\ SteadyIsHeld
-----------------------------------------------------------------------------
LEMMA KeyInitInv == KeyInit => KeyInv
<1> SUFFICES ASSUME KeyInit PROVE KeyInv
  OBVIOUS
<1> USE DEF KeyInit, NoCall
<1>1. KeyTypeOK  BY DEF KeyTypeOK, KeyStatus
<1>2. DownIsIdle  BY DEF DownIsIdle, Quiet
<1>3. AloneIsAlone  BY DEF AloneIsAlone
<1>4. SettledIsCurrent  BY DEF SettledIsCurrent
<1>5. SteadyIsHeld  BY DEF SteadyIsHeld
<1> QED  BY <1>1, <1>2, <1>3, <1>4, <1>5 DEF KeyInv

(* The types are kept by every action.                                     *)
LEMMA KeyTypeStep == KeyTypeOK /\ [KeyNext]_keyVars => KeyTypeOK'
<1> SUFFICES ASSUME KeyTypeOK, [KeyNext]_keyVars PROVE KeyTypeOK'
  OBVIOUS
<1> USE DEF KeyTypeOK, KeyStatus, NoCall, ActiveKeys
<1>1. CASE LoadAll  BY <1>1 DEF LoadAll
<1>2. CASE KeyServerStops  BY <1>2 DEF KeyServerStops
<1>3. ASSUME NEW c \in KeyCalls, NEW k \in ApiKeyValues, NEW status \in KeyStatus,
             ChangeKey(c, k, status)
      PROVE  KeyTypeOK'
  BY <1>3 DEF ChangeKey, Begins, CallAt, Saved, Quiet
<1>4. ASSUME NEW c \in KeyCalls, RefreshCache(c) PROVE KeyTypeOK'
  BY <1>4 DEF RefreshCache, Begins, CallAt, Quiet
<1>5. ASSUME NEW c \in KeyCalls, LoadActiveKeys(c) PROVE KeyTypeOK'
  BY <1>5 DEF LoadActiveKeys, CallAt
<1>6. ASSUME NEW c \in KeyCalls, LoadFails(c) PROVE KeyTypeOK'
  BY <1>6 DEF LoadFails, CallAt
<1>7. ASSUME NEW c \in KeyCalls, InvalidateAll(c) PROVE KeyTypeOK'
  BY <1>7 DEF InvalidateAll, CallAt
<1>8. ASSUME NEW c \in KeyCalls, CallEnds(c) PROVE KeyTypeOK'
  BY <1>8 DEF CallEnds, CallAt
<1>9. ASSUME NEW c \in KeyCalls, NEW k \in ApiKeyValues, InsertKey(c, k) PROVE KeyTypeOK'
  BY <1>9 DEF InsertKey, CallAt
<1>10. ASSUME NEW k \in ApiKeyValues, EvictKey(k) PROVE KeyTypeOK'
  BY <1>10 DEF EvictKey
<1>11. CASE UNCHANGED keyVars  BY <1>11 DEF keyVars
<1> QED
  BY <1>1, <1>2, <1>3, <1>4, <1>5, <1>6, <1>7, <1>8, <1>9, <1>10, <1>11 DEF KeyNext

LEMMA KeyStep == KeyInv /\ [KeyNext]_keyVars => KeyInv'
<1> SUFFICES ASSUME KeyInv, [KeyNext]_keyVars PROVE KeyInv'
  OBVIOUS
<1>0. KeyTypeOK'  BY KeyTypeStep DEF KeyInv
<1> DEFINE Rest == DownIsIdle /\ AloneIsAlone /\ SettledIsCurrent /\ SteadyIsHeld
<1> USE DEF KeyInv, KeyTypeOK, DownIsIdle, AloneIsAlone, SettledIsCurrent, SteadyIsHeld,
            NoCall, ActiveKeys, Quiet, CallAt, KeyStatus
<1>1. CASE LoadAll  BY <1>1 DEF LoadAll
<1>2. CASE KeyServerStops  BY <1>2 DEF KeyServerStops
<1>3. ASSUME NEW c \in KeyCalls, NEW k \in ApiKeyValues, NEW status \in KeyStatus,
             ChangeKey(c, k, status)
      PROVE  Rest'
  BY <1>3 DEF ChangeKey, Begins, Saved
<1>4. ASSUME NEW c \in KeyCalls, RefreshCache(c) PROVE Rest'
  BY <1>4 DEF RefreshCache, Begins
<1>5. ASSUME NEW c \in KeyCalls, LoadActiveKeys(c) PROVE Rest'
  BY <1>5 DEF LoadActiveKeys
<1>6. ASSUME NEW c \in KeyCalls, LoadFails(c) PROVE Rest'
  BY <1>6 DEF LoadFails
<1>7. ASSUME NEW c \in KeyCalls, InvalidateAll(c) PROVE Rest'
  BY <1>7 DEF InvalidateAll
<1>8. ASSUME NEW c \in KeyCalls, CallEnds(c) PROVE Rest'
  BY <1>8 DEF CallEnds
<1>9. ASSUME NEW c \in KeyCalls, NEW k \in ApiKeyValues, InsertKey(c, k) PROVE Rest'
  BY <1>9 DEF InsertKey
<1>10. ASSUME NEW k \in ApiKeyValues, EvictKey(k) PROVE Rest'
  BY <1>10 DEF EvictKey
<1>11. CASE UNCHANGED keyVars  BY <1>11 DEF keyVars
<1> QED
  BY <1>0, <1>1, <1>2, <1>3, <1>4, <1>5, <1>6, <1>7, <1>8, <1>9, <1>10, <1>11 DEF KeyNext

(* The inductive invariant: of ApiKeyCache::refresh, its callers and       *)
(* load_all together.                                                      *)
THEOREM KeyInvariance == KeySpec => []KeyInv
  BY KeyInitInv, KeyStep, PTL DEF KeySpec

(* The state of api_key_cache.rs and of the calls in handler/admin/api_key *)
(* keeps its types.                                                        *)
THEOREM KeyTypeCorrect == KeySpec => []KeyTypeOK
<1>1. KeyInv => KeyTypeOK  BY DEF KeyInv
<1> QED  BY <1>1, KeyInvariance, PTL

(* With no call under way, and none that overlapped or failed at the end,  *)
(* contains (api_key_cache.rs) accepts the active keys and no others.      *)
THEOREM QuietIsCurrent == KeySpec => []QuietCacheIsCurrent
<1>1. KeyInv => QuietCacheIsCurrent
  BY DEF KeyInv, SettledIsCurrent, QuietCacheIsCurrent, Accepted
<1> QED  BY <1>1, KeyInvariance, PTL

(* A key that stays active is refused only between the invalidate_all and  *)
(* the insert of a refresh, whatever other refreshes do.                   *)
THEOREM SteadyAccepted == KeySpec => []SteadyKeysAreAccepted
<1>1. ASSUME KeyInv PROVE SteadyKeysAreAccepted
  <2> SUFFICES ASSUME NEW k \in steady, k \notin keyCache PROVE StillToInsert(k)
    BY DEF SteadyKeysAreAccepted, Accepted
  <2>1. PICK c \in KeyCalls : keyCall[c].at = "insert" /\ k \in keyCall[c].keys
    BY <1>1 DEF KeyInv, SteadyIsHeld
  <2>2. keyServer = "up"
    BY <1>1, <2>1 DEF KeyInv, KeyTypeOK, DownIsIdle, Quiet
  <2> QED  BY <2>1, <2>2 DEF StillToInsert, CallAt
<1> QED  BY <1>1, KeyInvariance, PTL

-----------------------------------------------------------------------------
(* Part two, for any window, workers, calls and requests: the types of     *)
(* AdminAuth and that a worker hands a request with a nonce on once.  The  *)
(* invariant says that such a request leaves a trace for as long as it is  *)
(* fresh: a nonce kept with a second that is not before its timestamp.     *)

Pairs == AdminWorkers \X SignedRequests

InFlight(w, r) == \E c \in AdminCalls : lookup[c] = Lookup(w, r)

Traced(w, r) ==
  \/ ~Fresh(r)
  \/ \E n \in used_nonces[w] : n.nonce = r.nonce /\ n.at >= r.timestamp

(* The requests the property is about.                                     *)
Counted(w, r) == r.nonce # NoNonce /\ <<w, r>> \notin ahead

TracesKept ==
  \A w \in AdminWorkers, r \in SignedRequests :
    Counted(w, r) /\ (InFlight(w, r) \/ <<w, r>> \in accepted) => Traced(w, r)

OneInFlight ==
  \A w \in AdminWorkers, r \in SignedRequests, c, d \in AdminCalls :
    Counted(w, r) /\ lookup[c] = Lookup(w, r) /\ lookup[d] = Lookup(w, r) => c = d

NotYetAccepted ==
  \A w \in AdminWorkers, r \in SignedRequests :
    Counted(w, r) /\ InFlight(w, r) => <<w, r>> \notin accepted

NoneTwice ==
  \A w \in AdminWorkers, r \in SignedRequests :
    Counted(w, r) => <<w, r>> \notin twice

AdminInv ==
  AdminTypeOK /\ TracesKept /\ OneInFlight /\ NotYetAccepted /\ NoneTwice
-----------------------------------------------------------------------------
LEMMA LookupIsCall ==
  /\ \A w, r : Lookup(w, r) # NoLookup
  /\ \A w, r : Lookup(w, r).worker = w /\ Lookup(w, r).request = r
BY DEF Lookup, NoLookup

LEMMA RequestTypes ==
  \A r \in SignedRequests : r.nonce \in NonceValues \cup {NoNonce} /\ r.timestamp \in Nat
BY AdminAuthAssumption

(* Retain drops no trace of a request that is fresh.                       *)
LEMMA RetainKeepsTraces ==
  ASSUME AdminTypeOK, NEW w \in AdminWorkers, NEW r \in SignedRequests, Fresh(r),
         NEW n \in used_nonces[w], n.at >= r.timestamp
  PROVE  n \in Retained(w)
<1>1. n.at \in Nat /\ now \in Nat /\ r.timestamp \in Nat /\ Window \in Nat
  BY RequestTypes, AdminAuthAssumption DEF AdminTypeOK
<1> QED  BY <1>1 DEF Fresh, Retained, SaturatingSub

LEMMA RetainedIsUsed ==
  ASSUME NEW w \in AdminWorkers PROVE Retained(w) \subseteq used_nonces[w]
BY DEF Retained

(* A request that still counts and has left a trace is refused as used.    *)
LEMMA TracedIsUsed ==
  ASSUME AdminTypeOK, NEW w \in AdminWorkers, NEW r \in SignedRequests,
         Fresh(r), Traced(w, r)
  PROVE  Used(w, r.nonce)
BY RetainKeepsTraces DEF Traced, Used

LEMMA AdminTypeStep == AdminTypeOK /\ [AdminNext]_adminVars => AdminTypeOK'
<1> SUFFICES ASSUME AdminTypeOK, [AdminNext]_adminVars PROVE AdminTypeOK'
  OBVIOUS
<1> USE DEF AdminTypeOK
<1>1. ASSUME NEW c \in AdminCalls, NEW w \in AdminWorkers, NEW r \in SignedRequests,
             Arrive(c, w, r)
      PROVE  AdminTypeOK'
  <2>1. NoncesAfter(w, r) \subseteq [nonce : NonceValues, at : Nat]
    BY RequestTypes, RetainedIsUsed DEF NoncesAfter
  <2>2. used_nonces' \in [AdminWorkers -> SUBSET [nonce : NonceValues, at : Nat]]
    BY <1>1, <2>1 DEF Arrive
  <2>3. lookup' \in [AdminCalls ->
          {NoLookup} \cup {Lookup(v, q) : v \in AdminWorkers, q \in SignedRequests}]
    BY <1>1 DEF Arrive
  <2> QED  BY <1>1, <2>2, <2>3 DEF Arrive
<1>2. ASSUME NEW w \in AdminWorkers, NEW r \in SignedRequests, RefuseUsed(w, r)
      PROVE  AdminTypeOK'
  BY <1>2, RetainedIsUsed DEF RefuseUsed
<1>3. ASSUME NEW c \in AdminCalls, Admit(c) PROVE AdminTypeOK'
  <2>1. PICK w \in AdminWorkers, r \in SignedRequests : lookup[c] = Lookup(w, r)
    BY <1>3 DEF Admit
  <2>2. <<lookup[c].worker, lookup[c].request>> = <<w, r>>
    BY <2>1, LookupIsCall
  <2>3. accepted' \subseteq Pairs /\ twice' \subseteq Pairs
    BY <1>3, <2>2 DEF Admit, Pairs
  <2>4. lookup' \in [AdminCalls ->
          {NoLookup} \cup {Lookup(v, q) : v \in AdminWorkers, q \in SignedRequests}]
    BY <1>3 DEF Admit
  <2> QED  BY <1>3, <2>3, <2>4 DEF Admit, Pairs
<1>4. ASSUME NEW c \in AdminCalls, Refuse(c) PROVE AdminTypeOK'
  BY <1>4 DEF Refuse
<1>5. CASE AdminTick  BY <1>5 DEF AdminTick
<1>6. ASSUME NEW status \in {"absent", "inactive", "active"}, EditAdminKey(status)
      PROVE  AdminTypeOK'
  BY <1>6 DEF EditAdminKey
<1>7. CASE StartAdmin  BY <1>7 DEF StartAdmin
<1>8. CASE StopAdmin  BY <1>8 DEF StopAdmin
<1>9. CASE UNCHANGED adminVars  BY <1>9 DEF adminVars
<1> HIDE DEF AdminTypeOK
<1> QED
  BY <1>1, <1>2, <1>3, <1>4, <1>5, <1>6, <1>7, <1>8, <1>9 DEF AdminNext
-----------------------------------------------------------------------------
LEMMA AdminInitInv == AdminInit => AdminInv
<1> SUFFICES ASSUME AdminInit PROVE AdminInv
  OBVIOUS
<1>1. AdminTypeOK  BY DEF AdminInit, AdminTypeOK
<1>2. \A w \in AdminWorkers, r \in SignedRequests : ~InFlight(w, r)
  BY LookupIsCall DEF AdminInit, InFlight
<1>3. TracesKept /\ NotYetAccepted /\ NoneTwice
  BY <1>2 DEF AdminInit, TracesKept, NotYetAccepted, NoneTwice
<1>4. OneInFlight  BY <1>2 DEF OneInFlight, InFlight
<1> QED  BY <1>1, <1>3, <1>4 DEF AdminInv

(* A step after which no more requests are in flight, accepted, twice or   *)
(* counted than before, and which loses no trace, keeps the invariant.     *)
LEMMA QuietStep ==
  ASSUME AdminInv, AdminTypeOK',
         \A c \in AdminCalls : lookup'[c] \in {lookup[c], NoLookup},
         accepted' \subseteq accepted, twice' \subseteq twice, ahead' = ahead,
         \A w \in AdminWorkers, r \in SignedRequests :
           Counted(w, r) /\ Traced(w, r) => Traced(w, r)'
  PROVE  AdminInv'
<1>1. \A w \in AdminWorkers, r \in SignedRequests :
        /\ Counted(w, r)' = Counted(w, r)
        /\ InFlight(w, r)' => InFlight(w, r)
  BY LookupIsCall DEF Counted, InFlight
<1>2. TracesKept' /\ NotYetAccepted' /\ NoneTwice'
  BY <1>1 DEF AdminInv, TracesKept, NotYetAccepted, NoneTwice
<1>3. OneInFlight'
  BY <1>1, LookupIsCall DEF AdminInv, OneInFlight
<1> QED  BY <1>2, <1>3 DEF AdminInv

(* A request arrives: it has left no trace, so it is neither in flight nor *)
(* accepted yet, unless it does not count.                                 *)
LEMMA ArriveStep ==
  ASSUME AdminInv, AdminTypeOK', NEW c \in AdminCalls, NEW w \in AdminWorkers,
         NEW r \in SignedRequests, Arrive(c, w, r)
  PROVE  AdminInv'
<1> USE DEF AdminInv
<1>1. lookup' = [lookup EXCEPT ![c] = Lookup(w, r)] /\ lookup[c] = NoLookup
  BY DEF Arrive
<1>2. /\ accepted' = accepted /\ twice' = twice /\ now' = now
      /\ ahead \subseteq ahead' /\ ahead' \subseteq ahead \cup {<<w, r>>}
  BY DEF Arrive
<1>3. ASSUME Counted(w, r)' PROVE Counted(w, r) /\ ~InFlight(w, r) /\ <<w, r>> \notin accepted
  <2>1. Counted(w, r)  BY <1>2, <1>3 DEF Counted
  <2>2. ~Traced(w, r)  BY <2>1, TracedIsUsed DEF Arrive, Counted
  <2> QED  BY <2>1, <2>2 DEF TracesKept
<1>4. \A v \in AdminWorkers, q \in SignedRequests :
        /\ Counted(v, q)' => Counted(v, q)
        /\ InFlight(v, q)' => InFlight(v, q) \/ (v = w /\ q = r)
  <2> SUFFICES ASSUME NEW v \in AdminWorkers, NEW q \in SignedRequests
               PROVE  /\ Counted(v, q)' => Counted(v, q)
                      /\ InFlight(v, q)' => InFlight(v, q) \/ (v = w /\ q = r)
    OBVIOUS
  <2>1. Counted(v, q)' => Counted(v, q)  BY <1>2 DEF Counted
  <2>2. ASSUME NEW d \in AdminCalls, lookup'[d] = Lookup(v, q)
        PROVE  InFlight(v, q) \/ (v = w /\ q = r)
    <3>1. CASE d = c
      <4>1. Lookup(w, r) = Lookup(v, q)  BY <1>1, <2>2, <3>1 DEF AdminTypeOK
      <4> QED  BY <4>1, LookupIsCall
    <3>2. CASE d # c  BY <1>1, <2>2, <3>2 DEF AdminTypeOK, InFlight
    <3> QED  BY <3>1, <3>2
  <2> QED  BY <2>1, <2>2 DEF InFlight
<1>5. \A v \in AdminWorkers, q \in SignedRequests : Traced(v, q) => Traced(v, q)'
  <2> SUFFICES ASSUME NEW v \in AdminWorkers, NEW q \in SignedRequests, Traced(v, q)
               PROVE  Traced(v, q)'
    OBVIOUS
  <2>1. Fresh(q)' = Fresh(q)  BY <1>2 DEF Fresh
  <2>2. CASE ~Fresh(q)  BY <2>1, <2>2 DEF Traced
  <2>3. CASE Fresh(q)
    <3>1. PICK n \in used_nonces[v] : n.nonce = q.nonce /\ n.at >= q.timestamp
      BY <2>3 DEF Traced
    <3>2. n \in used_nonces'[v]
      <4>1. n \in Retained(v)  BY <2>3, <3>1, RetainKeepsTraces
      <4> QED  BY <3>1, <4>1 DEF Arrive, NoncesAfter, AdminTypeOK
    <3> QED  BY <3>1, <3>2 DEF Traced
  <2> QED  BY <2>2, <2>3
<1>6. ASSUME Counted(w, r)' PROVE Traced(w, r)'
  <2> DEFINE n == [nonce |-> r.nonce, at |-> now]
  <2>1. r.nonce # NoNonce /\ ~(now < r.timestamp)
    BY <1>6 DEF Counted, Arrive
  <2>2. n \in used_nonces'[w]
    BY <2>1 DEF Arrive, NoncesAfter, AdminTypeOK
  <2>3. n.nonce = r.nonce /\ n.at >= r.timestamp
    BY <2>1, RequestTypes DEF AdminTypeOK
  <2> QED  BY <2>2, <2>3 DEF Traced
<1>7. TracesKept'
  BY <1>2, <1>4, <1>5, <1>6 DEF TracesKept
<1>8. NotYetAccepted' /\ NoneTwice'
  BY <1>2, <1>3, <1>4 DEF NotYetAccepted, NoneTwice
<1>9. OneInFlight'
  <2> SUFFICES ASSUME NEW v \in AdminWorkers, NEW q \in SignedRequests,
                      NEW d \in AdminCalls, NEW e \in AdminCalls, Counted(v, q)',
                      lookup'[d] = Lookup(v, q), lookup'[e] = Lookup(v, q), d # e
               PROVE  FALSE
    BY DEF OneInFlight
  <2>1. CASE d # c /\ e # c
    BY <1>1, <1>4, <2>1 DEF OneInFlight, AdminTypeOK
  <2>2. CASE d = c \/ e = c
    <3>1. Lookup(w, r) = Lookup(v, q)  BY <1>1, <2>2 DEF AdminTypeOK
    <3>2. v = w /\ q = r  BY <3>1, LookupIsCall
    <3>3. InFlight(w, r)  BY <1>1, <2>2, <3>2 DEF InFlight, AdminTypeOK
    <3> QED  BY <1>3, <3>2, <3>3
  <2> QED  BY <2>1, <2>2
<1> QED  BY <1>7, <1>8, <1>9

(* A call is admitted: it was the only one in flight of its request.       *)
LEMMA AdmitStep ==
  ASSUME AdminInv, AdminTypeOK', NEW c \in AdminCalls, Admit(c)
  PROVE  AdminInv'
<1> USE DEF AdminInv
<1>1. PICK w \in AdminWorkers, r \in SignedRequests : lookup[c] = Lookup(w, r)
  BY DEF Admit, AdminTypeOK
<1>2. /\ accepted' = accepted \cup {<<w, r>>}
      /\ twice' = IF <<w, r>> \in accepted THEN twice \cup {<<w, r>>} ELSE twice
      /\ lookup' = [lookup EXCEPT ![c] = NoLookup]
      /\ UNCHANGED <<now, used_nonces, ahead>>
  <2>1. <<lookup[c].worker, lookup[c].request>> = <<w, r>>
    BY <1>1, LookupIsCall
  <2> HIDE DEF AdminInv
  <2> QED  BY <2>1 DEF Admit
<1>3. InFlight(w, r)  BY <1>1 DEF InFlight
<1>4. \A v \in AdminWorkers, q \in SignedRequests :
        /\ Counted(v, q)' = Counted(v, q)
        /\ Traced(v, q)' = Traced(v, q)
        /\ InFlight(v, q)' => InFlight(v, q)
  BY <1>2, LookupIsCall DEF Counted, Traced, Fresh, InFlight, AdminTypeOK
<1>5. Counted(w, r) => ~InFlight(w, r)'
  <2> SUFFICES ASSUME Counted(w, r), NEW d \in AdminCalls, lookup'[d] = Lookup(w, r)
               PROVE  FALSE
    BY DEF InFlight
  <2>1. d # c  BY <1>2, LookupIsCall DEF AdminTypeOK
  <2> QED  BY <1>1, <1>2, <2>1 DEF OneInFlight, AdminTypeOK
<1>6. TracesKept'  BY <1>2, <1>3, <1>4 DEF TracesKept
<1>7. NotYetAccepted'  BY <1>2, <1>4, <1>5 DEF NotYetAccepted
<1>8. NoneTwice'  BY <1>2, <1>3, <1>4 DEF NoneTwice, NotYetAccepted
<1>9. OneInFlight'
  BY <1>2, <1>4, LookupIsCall DEF OneInFlight, AdminTypeOK
<1> QED  BY <1>6, <1>7, <1>8, <1>9

LEMMA AdminStep == AdminInv /\ [AdminNext]_adminVars => AdminInv'
<1> SUFFICES ASSUME AdminInv, [AdminNext]_adminVars PROVE AdminInv'
  OBVIOUS
<1>0. AdminTypeOK /\ AdminTypeOK'  BY AdminTypeStep DEF AdminInv
<1>1. ASSUME NEW c \in AdminCalls, NEW w \in AdminWorkers, NEW r \in SignedRequests,
             Arrive(c, w, r)
      PROVE  AdminInv'
  BY <1>0, <1>1, ArriveStep
<1>2. ASSUME NEW w \in AdminWorkers, NEW r \in SignedRequests, RefuseUsed(w, r)
      PROVE  AdminInv'
  <2>1. \A v \in AdminWorkers, q \in SignedRequests : Traced(v, q) => Traced(v, q)'
    BY <1>0, <1>2, RetainKeepsTraces DEF RefuseUsed, Traced, Fresh, AdminTypeOK
  <2> QED  BY <1>0, <1>2, <2>1, QuietStep DEF RefuseUsed
<1>3. ASSUME NEW c \in AdminCalls, Admit(c) PROVE AdminInv'
  BY <1>0, <1>3, AdmitStep
<1>4. ASSUME NEW c \in AdminCalls, Refuse(c) PROVE AdminInv'
  <2>1. \A d \in AdminCalls : lookup'[d] \in {lookup[d], NoLookup}
    BY <1>0, <1>4 DEF Refuse, AdminTypeOK
  <2>2. \A v \in AdminWorkers, q \in SignedRequests : Traced(v, q) => Traced(v, q)'
    BY <1>4 DEF Refuse, Traced, Fresh
  <2> QED  BY <1>0, <1>4, <2>1, <2>2, QuietStep DEF Refuse
<1>5. CASE AdminTick
  <2>1. ASSUME NEW v \in AdminWorkers, NEW q \in SignedRequests, Traced(v, q)
        PROVE  Traced(v, q)'
    <3>1. now \in Nat /\ now' = now + 1 /\ q.timestamp \in Nat /\ Window \in Nat
      BY <1>0, <1>5, RequestTypes, AdminAuthAssumption DEF AdminTick, AdminTypeOK
    <3>2. Fresh(q)' => Fresh(q)  BY <3>1 DEF Fresh, SaturatingSub
    <3> QED  BY <1>5, <2>1, <3>2 DEF Traced, AdminTick
  <2> QED  BY <1>0, <1>5, <2>1, QuietStep DEF AdminTick
<1>6. ASSUME NEW status \in {"absent", "inactive", "active"}, EditAdminKey(status)
      PROVE  AdminInv'
  <2>1. \A v \in AdminWorkers, q \in SignedRequests : Traced(v, q) => Traced(v, q)'
    BY <1>6 DEF EditAdminKey, Traced, Fresh
  <2> QED  BY <1>0, <1>6, <2>1, QuietStep DEF EditAdminKey
<1>7. CASE StartAdmin
  <2>1. \A v \in AdminWorkers, q \in SignedRequests : Traced(v, q) => Traced(v, q)'
    BY <1>7 DEF StartAdmin, Traced, Fresh
  <2> QED  BY <1>0, <1>7, <2>1, QuietStep DEF StartAdmin
<1>8. CASE StopAdmin
  <2>1. \A v \in AdminWorkers, q \in SignedRequests :
          /\ ~InFlight(v, q)' /\ <<v, q>> \notin accepted' /\ <<v, q>> \notin twice'
    BY <1>8, LookupIsCall DEF StopAdmin, InFlight
  <2>2. TracesKept' /\ NotYetAccepted' /\ NoneTwice'
    BY <2>1 DEF TracesKept, NotYetAccepted, NoneTwice
  <2>3. OneInFlight'  BY <2>1 DEF OneInFlight, InFlight
  <2> QED  BY <1>0, <2>2, <2>3 DEF AdminInv
<1>9. CASE UNCHANGED adminVars
  <2>1. \A v \in AdminWorkers, q \in SignedRequests : Traced(v, q) => Traced(v, q)'
    BY <1>9 DEF adminVars, Traced, Fresh
  <2> QED  BY <1>0, <1>9, <2>1, QuietStep DEF adminVars
<1> QED
  BY <1>1, <1>2, <1>3, <1>4, <1>5, <1>6, <1>7, <1>8, <1>9 DEF AdminNext

(* The inductive invariant of AdminAuthMiddleware: what it has let through *)
(* has a nonce on record for as long as its timestamp passes.              *)
THEOREM AdminInvariance == AdminSpec => []AdminInv
  BY AdminInitInv, AdminStep, PTL DEF AdminSpec

(* A worker of admin_auth.rs hands a request with a nonce on once, however *)
(* often it comes, for every window and any number of concurrent calls.    *)
THEOREM AcceptedOnceHolds == AdminSpec => []AcceptedOnce
<1>1. AdminInv => AcceptedOnce
  BY DEF AdminInv, NoneTwice, Counted, AcceptedOnce, AdminTypeOK
<1> QED  BY <1>1, AdminInvariance, PTL

-----------------------------------------------------------------------------
(* Part three, for any hosts, calls, time to live and time to resolve: the *)
(* types of UrlCheck and the age of its verdicts.  The invariant measures  *)
(* each answer against the time its host has not changed.                  *)

AnswerKinds == {"public", "private", "fails"}

CachedVerdict == [at : {"cached"}, safe : BOOLEAN, age : 0..VerdictTtl]

Resolving ==
  [at : {"resolve"}, host : HostNames, waited : 0..ResolveTime]
Inserting ==
  [at : {"insert"}, host : HostNames, waited : 0..ResolveTime, safe : BOOLEAN]

UrlTypeOK ==
  /\ answer \in [HostNames -> AnswerKinds]
  /\ since \in [HostNames -> 0..LongSince]
  /\ verdict \in [HostNames -> CachedVerdict \cup {NoVerdict}]
  /\ urlCall \in [UrlCalls -> Resolving \cup Inserting \cup {NoUrlCall}]

(* What a call has resolved is right if the host has not changed since the *)
(* call began, and a verdict if it has not since before that.              *)
ResolvedIsRight ==
  \A c \in UrlCalls :
    urlCall[c].at = "insert" /\ since[urlCall[c].host] > urlCall[c].waited =>
      urlCall[c].safe = Safe(urlCall[c].host)

CachedIsRight ==
  \A h \in HostNames :
    verdict[h] # NoVerdict /\ since[h] > verdict[h].age + ResolveTime =>
      verdict[h].safe = Safe(h)

UrlInv == UrlTypeOK /\ ResolvedIsRight /\ CachedIsRight

LEMMA UrlInitInv == UrlInit => UrlInv
<1> SUFFICES ASSUME UrlInit PROVE UrlInv
  OBVIOUS
<1> USE UrlAssumption DEF UrlInit, NoVerdict, NoUrlCall, LongSince
<1>1. UrlTypeOK  BY DEF UrlTypeOK, AnswerKinds
<1>2. ResolvedIsRight  BY DEF ResolvedIsRight
<1>3. CachedIsRight  BY DEF CachedIsRight
<1> QED  BY <1>1, <1>2, <1>3 DEF UrlInv

LEMMA CallKinds ==
  ASSUME UrlTypeOK, NEW c \in UrlCalls
  PROVE  /\ urlCall[c] # NoUrlCall =>
              urlCall[c].host \in HostNames /\ urlCall[c].waited \in 0..ResolveTime
         /\ urlCall[c].at = "resolve" => urlCall[c] \in Resolving
         /\ urlCall[c].at = "insert" => urlCall[c] \in Inserting
         /\ urlCall[c].at \in {"resolve", "insert"} <=> urlCall[c] # NoUrlCall
<1>1. urlCall[c] \in Resolving \cup Inserting \cup {NoUrlCall}  BY DEF UrlTypeOK
<1>2. CASE urlCall[c] \in Resolving  BY <1>2 DEF Resolving, NoUrlCall
<1>3. CASE urlCall[c] \in Inserting  BY <1>3 DEF Inserting, NoUrlCall
<1>4. CASE urlCall[c] = NoUrlCall  BY <1>4 DEF NoUrlCall
<1> QED  BY <1>1, <1>2, <1>3, <1>4

(* Steps that change one call, and nothing of what it is judged by.        *)
LEMMA CallStep ==
  ASSUME UrlInv, NEW c \in UrlCalls, NEW n \in Resolving \cup Inserting \cup {NoUrlCall},
         urlCall' = [urlCall EXCEPT ![c] = n],
         n.at = "insert" => n.safe = Safe(n.host),
         UNCHANGED <<answer, since, verdict>>
  PROVE  UrlInv'
<1>1. UrlTypeOK'  BY DEF UrlInv, UrlTypeOK
<1>2. ResolvedIsRight'
  <2> SUFFICES ASSUME NEW d \in UrlCalls, urlCall'[d].at = "insert",
                      since'[urlCall'[d].host] > urlCall'[d].waited
               PROVE  urlCall'[d].safe = (answer'[urlCall'[d].host] = "public")
    BY DEF ResolvedIsRight, Safe
  <2>1. CASE d = c  BY <2>1 DEF UrlInv, UrlTypeOK, Safe
  <2>2. CASE d # c  BY <2>2 DEF UrlInv, UrlTypeOK, ResolvedIsRight, Safe
  <2> QED  BY <2>1, <2>2
<1>3. CachedIsRight'  BY DEF UrlInv, CachedIsRight, Safe
<1> QED  BY <1>1, <1>2, <1>3 DEF UrlInv

LEMMA UrlStep == UrlInv /\ [UrlNext]_urlVars => UrlInv'
<1> SUFFICES ASSUME UrlInv, [UrlNext]_urlVars PROVE UrlInv'
  OBVIOUS
<1> USE UrlAssumption
<1>0. UrlTypeOK /\ ResolvedIsRight /\ CachedIsRight  BY DEF UrlInv
<1>1. ASSUME UNCHANGED urlVars PROVE UrlInv'
  BY <1>1 DEF urlVars, UrlInv, UrlTypeOK, ResolvedIsRight, CachedIsRight, Safe
<1>2. ASSUME NEW h \in HostNames, Hit(h) PROVE UrlInv'
  BY <1>1, <1>2 DEF Hit
<1>3. ASSUME NEW h \in HostNames, EvictVerdict(h) PROVE UrlInv'
  <2>1. UrlTypeOK'  BY <1>0, <1>3 DEF EvictVerdict, UrlTypeOK
  <2>2. ResolvedIsRight'  BY <1>0, <1>3 DEF EvictVerdict, ResolvedIsRight, Safe
  <2>3. CachedIsRight'
    BY <1>0, <1>3 DEF EvictVerdict, CachedIsRight, UrlTypeOK, Safe
  <2> QED  BY <2>1, <2>2, <2>3 DEF UrlInv
<1>4. ASSUME NEW h \in HostNames, NEW c \in UrlCalls, Miss(c, h) PROVE UrlInv'
  <2> DEFINE n == [at |-> "resolve", host |-> h, waited |-> 0]
  <2>1. n \in Resolving /\ n.at # "insert"  BY DEF Resolving
  <2>2. urlCall' = [urlCall EXCEPT ![c] = n] /\ UNCHANGED <<answer, since, verdict>>
    BY <1>4 DEF Miss
  <2> HIDE DEF n
  <2> QED  BY <2>1, <2>2, CallStep
<1>5. ASSUME NEW c \in UrlCalls, Resolve(c) PROVE UrlInv'
  <2> DEFINE n == [at |-> "insert", host |-> urlCall[c].host,
                   waited |-> urlCall[c].waited, safe |-> Safe(urlCall[c].host)]
  <2>1. n \in Inserting /\ n.safe = Safe(n.host)
    BY <1>0, <1>5, CallKinds DEF Resolve, Resolving, Inserting, Safe
  <2>2. urlCall' = [urlCall EXCEPT ![c] = n] /\ UNCHANGED <<answer, since, verdict>>
    BY <1>5 DEF Resolve
  <2> HIDE DEF n
  <2> QED  BY <2>1, <2>2, CallStep
<1>6. ASSUME NEW c \in UrlCalls, GiveUp(c) PROVE UrlInv'
  BY <1>6, CallStep DEF GiveUp, NoUrlCall
<1>7. ASSUME NEW c \in UrlCalls, Insert(c) PROVE UrlInv'
  <2> DEFINE host == urlCall[c].host
             v == VerdictOf(urlCall[c].safe)
  <2>1. urlCall[c] \in Inserting  BY <1>0, <1>7, CallKinds DEF Insert
  <2>2. host \in HostNames /\ v \in CachedVerdict /\ v.age = 0 /\ v.safe = urlCall[c].safe
    BY <2>1 DEF Inserting, VerdictOf, CachedVerdict
  <2>3. /\ verdict' = [verdict EXCEPT ![host] = v]
        /\ urlCall' = [urlCall EXCEPT ![c] = NoUrlCall]
        /\ answer' = answer /\ since' = since
    BY <1>7 DEF Insert
  <2>4. since[host] > ResolveTime => v.safe = Safe(host)
    BY <1>0, <1>7, <2>1, <2>2 DEF Insert, Inserting, ResolvedIsRight, UrlTypeOK
  <2> HIDE DEF host, v
  <2>5. UrlTypeOK'  BY <1>0, <2>2, <2>3 DEF UrlTypeOK
  <2>6. ResolvedIsRight'
    BY <1>0, <2>3 DEF UrlTypeOK, ResolvedIsRight, Safe, NoUrlCall
  <2>7. CachedIsRight'
    <3> SUFFICES ASSUME NEW h \in HostNames, verdict'[h] # NoVerdict,
                        since'[h] > verdict'[h].age + ResolveTime
                 PROVE  verdict'[h].safe = Safe(h)'
      BY DEF CachedIsRight
    <3>1. CASE h = host  BY <1>0, <2>2, <2>3, <2>4, <3>1 DEF UrlTypeOK, Safe
    <3>2. CASE h # host  BY <1>0, <2>3, <3>2 DEF UrlTypeOK, CachedIsRight, Safe
    <3> QED  BY <3>1, <3>2
  <2> QED  BY <2>5, <2>6, <2>7 DEF UrlInv
<1>8. ASSUME NEW h \in HostNames, NEW a \in AnswerKinds, ChangeAnswer(h, a) PROVE UrlInv'
  <2>1. UrlTypeOK'  BY <1>0, <1>8 DEF ChangeAnswer, UrlTypeOK, LongSince
  <2>2. ResolvedIsRight'
    <3> SUFFICES ASSUME NEW c \in UrlCalls, urlCall[c].at = "insert",
                        since'[urlCall[c].host] > urlCall[c].waited
                 PROVE  urlCall[c].safe = Safe(urlCall[c].host)'
      BY <1>8 DEF ChangeAnswer, ResolvedIsRight
    <3>1. urlCall[c].host \in HostNames /\ urlCall[c].waited \in 0..ResolveTime
      BY <1>0, CallKinds DEF NoUrlCall
    <3>2. urlCall[c].host # h  BY <1>0, <1>8, <3>1 DEF ChangeAnswer, UrlTypeOK
    <3> QED  BY <1>0, <1>8, <3>1, <3>2 DEF ChangeAnswer, UrlTypeOK, ResolvedIsRight, Safe
  <2>3. CachedIsRight'
    <3> SUFFICES ASSUME NEW g \in HostNames, verdict[g] # NoVerdict,
                        since'[g] > verdict[g].age + ResolveTime
                 PROVE  verdict[g].safe = Safe(g)'
      BY <1>8 DEF ChangeAnswer, CachedIsRight
    <3>1. verdict[g].age \in 0..VerdictTtl
      BY <1>0 DEF UrlTypeOK, CachedVerdict
    <3>2. g # h  BY <1>0, <1>8, <3>1 DEF ChangeAnswer, UrlTypeOK
    <3> QED  BY <1>0, <1>8, <3>2 DEF ChangeAnswer, UrlTypeOK, CachedIsRight, Safe
  <2> QED  BY <2>1, <2>2, <2>3 DEF UrlInv
<1>9. ASSUME UrlTick PROVE UrlInv'
  <2>1. /\ answer' = answer
        /\ \A h \in HostNames : since'[h] = IF since[h] < LongSince THEN since[h] + 1 ELSE since[h]
        /\ \A h \in HostNames : since[h] \in 0..LongSince /\ since'[h] \in 0..LongSince
    BY <1>0, <1>9 DEF UrlTick, UrlTypeOK, LongSince
  <2>2. \A c \in UrlCalls :
          \/ urlCall[c] = NoUrlCall /\ urlCall'[c] = NoUrlCall
          \/ /\ urlCall[c] # NoUrlCall
             /\ urlCall'[c] = [urlCall[c] EXCEPT !.waited = @ + 1]
             /\ urlCall[c].waited + 1 \in 0..ResolveTime
    BY <1>0, <1>9, CallKinds DEF UrlTick
  <2>3. \A c \in UrlCalls :
          \/ urlCall'[c] = NoUrlCall
          \/ /\ urlCall'[c] \in Resolving \cup Inserting
             /\ urlCall'[c].at = urlCall[c].at /\ urlCall'[c].host = urlCall[c].host
             /\ urlCall'[c].waited = urlCall[c].waited + 1
             /\ urlCall[c].at = "insert" => urlCall'[c].safe = urlCall[c].safe
    <3> SUFFICES ASSUME NEW c \in UrlCalls, urlCall[c] # NoUrlCall,
                        urlCall'[c] = [urlCall[c] EXCEPT !.waited = @ + 1],
                        urlCall[c].waited + 1 \in 0..ResolveTime
                 PROVE  /\ urlCall'[c] \in Resolving \cup Inserting
                        /\ urlCall'[c].at = urlCall[c].at /\ urlCall'[c].host = urlCall[c].host
                        /\ urlCall'[c].waited = urlCall[c].waited + 1
                        /\ urlCall[c].at = "insert" => urlCall'[c].safe = urlCall[c].safe
      BY <2>2
    <3>1. CASE urlCall[c] \in Resolving  BY <3>1 DEF Resolving
    <3>2. CASE urlCall[c] \in Inserting  BY <3>2 DEF Inserting
    <3> QED  BY <1>0, <3>1, <3>2 DEF UrlTypeOK
  <2>4. \A h \in HostNames :
          \/ verdict'[h] = NoVerdict
          \/ /\ verdict[h] \in CachedVerdict /\ verdict'[h] \in CachedVerdict
             /\ verdict'[h].age = verdict[h].age + 1 /\ verdict'[h].safe = verdict[h].safe
             /\ verdict[h].age + 1 < VerdictTtl
    <3> SUFFICES ASSUME NEW h \in HostNames, verdict[h] # NoVerdict,
                        ~(verdict[h].age + 1 >= VerdictTtl),
                        verdict'[h] = [verdict[h] EXCEPT !.age = @ + 1]
                 PROVE  /\ verdict[h] \in CachedVerdict /\ verdict'[h] \in CachedVerdict
                        /\ verdict'[h].age = verdict[h].age + 1
                        /\ verdict'[h].safe = verdict[h].safe
                        /\ verdict[h].age + 1 < VerdictTtl
      BY <1>9 DEF UrlTick
    <3>1. verdict[h] \in CachedVerdict  BY <1>0 DEF UrlTypeOK
    <3> QED  BY <3>1 DEF CachedVerdict
  <2>5. UrlTypeOK'
    <3>1. since' \in [HostNames -> 0..LongSince]
      BY <1>9, <2>1 DEF UrlTick
    <3>2. verdict' \in [HostNames -> CachedVerdict \cup {NoVerdict}]
      BY <1>9, <2>4 DEF UrlTick
    <3>3. urlCall' \in [UrlCalls -> Resolving \cup Inserting \cup {NoUrlCall}]
      BY <1>9, <2>3 DEF UrlTick
    <3> QED  BY <1>0, <2>1, <3>1, <3>2, <3>3 DEF UrlTypeOK
  <2>6. ResolvedIsRight'
    <3> SUFFICES ASSUME NEW c \in UrlCalls, urlCall'[c].at = "insert",
                        since'[urlCall'[c].host] > urlCall'[c].waited
                 PROVE  urlCall'[c].safe = (answer'[urlCall'[c].host] = "public")
      BY DEF ResolvedIsRight, Safe
    <3>1. /\ urlCall[c].at = "insert" /\ urlCall'[c].host = urlCall[c].host
          /\ urlCall'[c].waited = urlCall[c].waited + 1
          /\ urlCall'[c].safe = urlCall[c].safe
      BY <2>3 DEF NoUrlCall
    <3>2. urlCall[c].host \in HostNames /\ urlCall[c].waited \in 0..ResolveTime
      BY <1>0, <3>1, CallKinds DEF NoUrlCall
    <3>3. since[urlCall[c].host] > urlCall[c].waited
      BY <2>1, <3>1, <3>2 DEF LongSince
    <3> QED  BY <1>0, <2>1, <3>1, <3>3 DEF ResolvedIsRight, Safe
  <2>7. CachedIsRight'
    <3> SUFFICES ASSUME NEW h \in HostNames, verdict'[h] # NoVerdict,
                        since'[h] > verdict'[h].age + ResolveTime
                 PROVE  verdict'[h].safe = Safe(h)'
      BY DEF CachedIsRight
    <3>1. /\ verdict[h] \in CachedVerdict
          /\ verdict'[h].age = verdict[h].age + 1 /\ verdict'[h].safe = verdict[h].safe
          /\ verdict[h].age + 1 < VerdictTtl
      BY <2>4
    <3>2. verdict[h].age \in Nat /\ verdict[h] # NoVerdict
      BY <3>1 DEF CachedVerdict, NoVerdict
    <3>3. since[h] > verdict[h].age + ResolveTime
      BY <2>1, <3>1, <3>2 DEF LongSince
    <3> QED  BY <1>0, <2>1, <3>1, <3>2, <3>3 DEF CachedIsRight, Safe
  <2> QED  BY <2>5, <2>6, <2>7 DEF UrlInv
<1> QED
  BY <1>1, <1>2, <1>3, <1>4, <1>5, <1>6, <1>7, <1>8, <1>9 DEF UrlNext, AnswerKinds

(* For any hosts, calls, time to live and time to resolve: no verdict is   *)
(* older than the two times together.                                      *)
THEOREM VerdictIsRecentHolds == UrlSpec => []VerdictIsRecent
<1>1. UrlInit => UrlInv  BY UrlInitInv
<1>2. UrlInv /\ [UrlNext]_urlVars => UrlInv'  BY UrlStep
<1>3. UrlInv => VerdictIsRecent
  <2> SUFFICES ASSUME UrlInv, NEW h \in HostNames, since[h] >= LongSince,
                      verdict[h] # NoVerdict
               PROVE  verdict[h].safe = Safe(h)
    BY DEF VerdictIsRecent
  <2>1. verdict[h].age \in 0..VerdictTtl  BY DEF UrlInv, UrlTypeOK, CachedVerdict
  <2>2. since[h] > verdict[h].age + ResolveTime
    BY <2>1, UrlAssumption DEF UrlInv, UrlTypeOK, LongSince
  <2> QED  BY <2>2 DEF UrlInv, CachedIsRight
<1> QED  BY <1>1, <1>2, <1>3, PTL DEF UrlSpec
-----------------------------------------------------------------------------
(* Part four: the scanner finds the first value of a stream whatever       *)
(* chunks it comes in, for any values and streams of any length.  All that *)
(* Push has cut off ends with a line end, so no line of it can still grow, *)
(* and the lines of the tail are lines of the stream, moved by its length. *)

USE ScanAssumption

(* The line from s to e holds a value.                                     *)
ValueLine(buf, s, e) ==
  /\ s \in 1..Len(buf) /\ e \in 1..Len(buf)
  /\ s = 1 \/ buf[s - 1] = "n"
  /\ e = Len(buf) \/ buf[e + 1] = "n"
  /\ s < e
  /\ buf[s] = "data" /\ buf[s + 1] \in Values
  /\ \A i \in s + 2 .. e : buf[i] = "r"

IsFirst(buf, s) == \A t, e \in 1..Len(buf) : ValueLine(buf, t, e) => t >= s

(* The starts that scan_sse_buf looks for are those of value lines.        *)
Starts(buf) == {l[1] : l \in {k \in LinesOf(buf) : HoldsValue(buf, k)}}

LEMMA StartsAreValueLines ==
  ASSUME NEW buf \in Seq(Bytes), NEW s
  PROVE  s \in Starts(buf) <=> \E e \in 1..Len(buf) : ValueLine(buf, s, e)
<1>1. ASSUME NEW l \in LinesOf(buf), HoldsValue(buf, l)
      PROVE  ValueLine(buf, l[1], l[2]) /\ l[2] \in 1..Len(buf)
  BY <1>1 DEF LinesOf, HoldsValue, ValueLine
<1>2. ASSUME NEW e \in 1..Len(buf), ValueLine(buf, s, e)
      PROVE  <<s, e>> \in LinesOf(buf) /\ HoldsValue(buf, <<s, e>>)
  <2>1. \A i \in s..e : buf[i] # "n"
    <3>1. ASSUME NEW i \in s..e PROVE i = s \/ i = s + 1 \/ i \in s + 2 .. e
      BY <1>2 DEF ValueLine
    <3>2. buf[s] # "n" /\ buf[s + 1] # "n" /\ \A i \in s + 2 .. e : buf[i] # "n"
      BY <1>2 DEF ValueLine
    <3> QED
      BY <3>1, <3>2
  <2>2. <<s, e>> \in (1..Len(buf)) \X (1..Len(buf))
    BY <1>2 DEF ValueLine
  <2> QED
    BY <1>2, <2>1, <2>2 DEF LinesOf, HoldsValue, ValueLine
<1>3. ASSUME s \in Starts(buf) PROVE \E e \in 1..Len(buf) : ValueLine(buf, s, e)
  BY <1>1, <1>3 DEF Starts
<1>4. ASSUME NEW e \in 1..Len(buf), ValueLine(buf, s, e) PROVE s \in Starts(buf)
  <2>1. <<s, e>> \in {k \in LinesOf(buf) : HoldsValue(buf, k)} /\ <<s, e>>[1] = s
    BY <1>2, <1>4
  <2> QED
    BY <2>1 DEF Starts
<1> QED
  BY <1>3, <1>4

LEMMA ScanByStarts ==
  ASSUME NEW buf
  PROVE  ScanSseBuf(buf) =
           IF Starts(buf) = {} \/ \E i \in 1..Len(buf) : buf[i] = "bad" THEN "none"
           ELSE buf[Min(Starts(buf)) + 1]
BY DEF ScanSseBuf, Starts

LEMMA ScanType ==
  ASSUME NEW buf \in Seq(Bytes)
  PROVE  ScanSseBuf(buf) \in Values \cup {"none"}
<1>1. Starts(buf) \subseteq Nat
  BY StartsAreValueLines DEF ValueLine
<1>2. CASE Starts(buf) # {}
  <2>1. Min(Starts(buf)) \in Starts(buf)
    BY <1>1, <1>2, MinOfNats
  <2> QED
    BY <2>1, StartsAreValueLines, ScanByStarts DEF ValueLine
<1> QED
  BY <1>2, ScanByStarts

(* No value line, nothing found.                                           *)
LEMMA ScanNone ==
  ASSUME NEW buf \in Seq(Bytes), \A s, e \in 1..Len(buf) : ~ValueLine(buf, s, e)
  PROVE  ScanSseBuf(buf) = "none"
<1>1. Starts(buf) = {}
  BY StartsAreValueLines DEF ValueLine
<1> QED
  BY <1>1, ScanByStarts

LEMMA ScanSome ==
  ASSUME NEW buf \in Seq(Bytes), IsUtf8(buf), NEW s, NEW e, ValueLine(buf, s, e)
  PROVE  ScanSseBuf(buf) # "none"
<1>1. Starts(buf) \subseteq Nat /\ Starts(buf) # {}
  BY StartsAreValueLines DEF ValueLine
<1>2. Min(Starts(buf)) \in Starts(buf)
  BY <1>1, MinOfNats
<1> QED
  BY <1>1, <1>2, StartsAreValueLines, ScanByStarts DEF ValueLine, IsUtf8

(* The value of the first line that holds one.                             *)
LEMMA ScanFirst ==
  ASSUME NEW buf \in Seq(Bytes), IsUtf8(buf), NEW s, NEW e, ValueLine(buf, s, e),
         IsFirst(buf, s)
  PROVE  ScanSseBuf(buf) = buf[s + 1]
<1>1. Starts(buf) \subseteq Nat /\ s \in Starts(buf)
  BY StartsAreValueLines DEF ValueLine
<1>2. \A t \in Starts(buf) : t >= s
  BY StartsAreValueLines DEF ValueLine, IsFirst
<1>3. Min(Starts(buf)) = s
  BY <1>1, <1>2, MinOfNats
<1> QED
  BY <1>1, <1>3, ScanByStarts DEF IsUtf8

(* What is found is the value of a line with none before it.               *)
LEMMA ScanFound ==
  ASSUME NEW buf \in Seq(Bytes), ScanSseBuf(buf) # "none"
  PROVE  \E s, e \in 1..Len(buf) :
           ValueLine(buf, s, e) /\ IsFirst(buf, s) /\ ScanSseBuf(buf) = buf[s + 1]
<1>1. Starts(buf) \subseteq Nat /\ Starts(buf) # {}
  BY StartsAreValueLines, ScanByStarts DEF ValueLine
<1> DEFINE s == Min(Starts(buf))
<1>2. s \in Starts(buf) /\ \A t \in Starts(buf) : s <= t
  BY <1>1, MinOfNats
<1>3. ScanSseBuf(buf) = buf[s + 1]
  BY ScanByStarts
<1> HIDE DEF s
<1>4. IsFirst(buf, s)
  BY <1>1, <1>2, StartsAreValueLines DEF IsFirst
<1> QED
  BY <1>2, <1>3, <1>4, StartsAreValueLines DEF ValueLine
-----------------------------------------------------------------------------
(* A line end after the line: what follows does not change it.             *)
Agree(short, long) ==
  Len(short) <= Len(long) /\ \A i \in 1..Len(short) : short[i] = long[i]

LEMMA ClosedLines ==
  ASSUME NEW short \in Seq(Bytes), NEW long \in Seq(Bytes), Agree(short, long),
         NEW s, NEW e, e < Len(short)
  PROVE  ValueLine(short, s, e) <=> ValueLine(long, s, e)
<1>1. CASE ~(s \in 1..Len(short) /\ e \in 1..Len(short) /\ s < e)
  BY <1>1 DEF ValueLine, Agree
<1>2. CASE s \in 1..Len(short) /\ e \in 1..Len(short) /\ s < e
  <2>1. /\ s \in 1..Len(long) /\ e \in 1..Len(long)
        /\ e # Len(short) /\ e # Len(long)
        /\ short[s] = long[s] /\ short[s + 1] = long[s + 1] /\ short[e + 1] = long[e + 1]
    BY <1>2 DEF Agree
  <2>2. s # 1 => short[s - 1] = long[s - 1]
    BY <1>2 DEF Agree
  <2>3. \A i \in s + 2 .. e : short[i] = long[i]
    BY <1>2 DEF Agree
  <2> QED
    BY <1>2, <2>1, <2>2, <2>3 DEF ValueLine
<1> QED
  BY <1>1, <1>2

(* A line that starts no later than a line end stops before it.            *)
LEMMA StopsAtLineEnd ==
  ASSUME NEW buf \in Seq(Bytes), NEW p \in 1..Len(buf), buf[p] = "n",
         NEW s, NEW e, ValueLine(buf, s, e), s <= p
  PROVE  e < p
<1> SUFFICES ASSUME p <= e PROVE FALSE
  BY DEF ValueLine
<1>1. p = s \/ p = s + 1 \/ p \in s + 2 .. e
  BY DEF ValueLine
<1>2. buf[s] # "n" /\ buf[s + 1] # "n" /\ \A i \in s + 2 .. e : buf[i] # "n"
  BY DEF ValueLine
<1> QED
  BY <1>1, <1>2

(* The rest of a buffer after a line end has the same lines, moved.        *)
IsRest(rest, buf, p) ==
  /\ Len(buf) = p + Len(rest)
  /\ \A i \in 1..Len(rest) : rest[i] = buf[p + i]
  /\ p = 0 \/ buf[p] = "n"

LEMMA RestLines ==
  ASSUME NEW buf \in Seq(Bytes), NEW rest \in Seq(Bytes), NEW p \in 0..Len(buf),
         IsRest(rest, buf, p), NEW s \in Nat \ {0}, NEW e \in Nat \ {0}
  PROVE  ValueLine(rest, s, e) <=> ValueLine(buf, p + s, p + e)
<1>1. (s \in 1..Len(rest) <=> p + s \in 1..Len(buf)) /\ (e \in 1..Len(rest) <=> p + e \in 1..Len(buf))
  BY DEF IsRest
<1>2. CASE ~(s \in 1..Len(rest) /\ e \in 1..Len(rest) /\ s < e)
  BY <1>1, <1>2 DEF ValueLine
<1>3. CASE s \in 1..Len(rest) /\ e \in 1..Len(rest) /\ s < e
  <2>1. (s = 1 \/ rest[s - 1] = "n") <=> (p + s = 1 \/ buf[p + s - 1] = "n")
    <3>1. CASE s = 1
      <4>1. p + s - 1 = p
        BY <3>1
      <4> QED
        BY <3>1, <4>1 DEF IsRest
    <3>2. CASE s # 1
      <4>1. s - 1 \in 1..Len(rest) /\ p + (s - 1) = p + s - 1 /\ p + s # 1
        BY <1>3, <3>2
      <4>2. rest[s - 1] = buf[p + (s - 1)]
        BY <4>1 DEF IsRest
      <4> QED
        BY <3>2, <4>1, <4>2
    <3> QED
      BY <3>1, <3>2
  <2>2. (e = Len(rest) \/ rest[e + 1] = "n") <=> (p + e = Len(buf) \/ buf[p + e + 1] = "n")
    <3>1. CASE e = Len(rest)
      BY <3>1 DEF IsRest
    <3>2. CASE e # Len(rest)
      <4>1. e + 1 \in 1..Len(rest) /\ p + (e + 1) = p + e + 1 /\ p + e # Len(buf)
        BY <1>3, <3>2 DEF IsRest
      <4>2. rest[e + 1] = buf[p + (e + 1)]
        BY <4>1 DEF IsRest
      <4> QED
        BY <3>2, <4>1, <4>2
    <3> QED
      BY <3>1, <3>2
  <2>3. rest[s] = buf[p + s] /\ rest[s + 1] = buf[p + s + 1]
    BY <1>3 DEF IsRest
  <2>4. (\A i \in s + 2 .. e : rest[i] = "r") <=> \A i \in p + s + 2 .. p + e : buf[i] = "r"
    <3>1. \A i \in s + 2 .. e : rest[i] = buf[p + i] /\ p + i \in p + s + 2 .. p + e
      BY <1>3 DEF IsRest
    <3>2. \A i \in p + s + 2 .. p + e : i - p \in s + 2 .. e /\ p + (i - p) = i
      BY <1>3
    <3> QED
      BY <3>1, <3>2
  <2> QED
    BY <1>1, <1>3, <2>1, <2>2, <2>3, <2>4 DEF ValueLine
<1> QED
  BY <1>2, <1>3
-----------------------------------------------------------------------------
(* No value line starts in what has been cut off.                          *)
NoneUpTo(buf, p) == \A s, e \in 1..Len(buf) : ValueLine(buf, s, e) => s > p

LEMMA NoneUpToStays ==
  ASSUME NEW short \in Seq(Bytes), NEW long \in Seq(Bytes), Agree(short, long),
         NEW p \in 0..Len(short), p = 0 \/ short[p] = "n", NoneUpTo(short, p)
  PROVE  NoneUpTo(long, p)
<1> SUFFICES ASSUME NEW s \in 1..Len(long), NEW e \in 1..Len(long),
                    ValueLine(long, s, e), s <= p
             PROVE  FALSE
  BY DEF NoneUpTo
<1>1. p \in 1..Len(long) /\ long[p] = "n"
  BY DEF Agree
<1>2. e < p
  BY <1>1, StopsAtLineEnd
<1>3. ValueLine(short, s, e)
  BY <1>2, ClosedLines
<1>4. s \in 1..Len(short) /\ e \in 1..Len(short)
  BY <1>3 DEF ValueLine
<1> QED
  BY <1>3, <1>4 DEF NoneUpTo

LEMMA RestGrows ==
  ASSUME NEW buf \in Seq(Bytes), NEW rest \in Seq(Bytes), NEW chunk \in Seq(Bytes),
         NEW p \in 0..Len(buf), IsRest(rest, buf, p)
  PROVE  IsRest(rest \o chunk, buf \o chunk, p) /\ Agree(buf, buf \o chunk)
<1>1. Agree(buf, buf \o chunk)
  BY DEF Agree
<1>2. Len(buf \o chunk) = p + Len(rest \o chunk)
  BY DEF IsRest
<1>3. p = 0 \/ (buf \o chunk)[p] = "n"
  BY DEF IsRest
<1>4. ASSUME NEW i \in 1..Len(rest \o chunk)
      PROVE  (rest \o chunk)[i] = (buf \o chunk)[p + i]
  <2>1. CASE i <= Len(rest)
    <3>1. rest[i] = buf[p + i] /\ p + i \in 1..Len(buf)
      BY <2>1 DEF IsRest
    <3> QED
      BY <2>1, <3>1
  <2>2. CASE i > Len(rest)
    <3>1. p + i > Len(buf) /\ p + i - Len(buf) = i - Len(rest)
      BY <2>2 DEF IsRest
    <3>2. i - Len(rest) \in 1..Len(chunk) /\ p + i \in 1..Len(buf \o chunk)
      BY <2>2, <1>2
    <3>3. (rest \o chunk)[i] = chunk[i - Len(rest)]
      BY <2>2
    <3>4. (buf \o chunk)[p + i] = chunk[p + i - Len(buf)]
      BY <3>1, <3>2
    <3> QED
      BY <3>1, <3>3, <3>4
  <2>3. i <= Len(rest) \/ i > Len(rest)
    <3>1. i \in Int /\ Len(rest) \in Int
      OBVIOUS
    <3> QED
      BY <3>1
  <2> QED
    BY <2>1, <2>2, <2>3
<1> QED
  BY <1>1, <1>2, <1>3, <1>4 DEF IsRest

(* What a scan of the buffer up to a line end says of the stream.          *)
LEMMA ValueLineOfPart ==
  ASSUME NEW buf \in Seq(Bytes), NEW rest \in Seq(Bytes), NEW p \in 0..Len(buf),
         IsRest(rest, buf, p), NEW last \in 1..Len(rest), rest[last] = "n",
         NEW s \in 1..Len(buf), NEW e \in 1..Len(buf), ValueLine(buf, s, e), s > p, s <= p + last
  PROVE  ValueLine(SubSeq(rest, 1, last), s - p, e - p)
<1> DEFINE t == s - p
           f == e - p
           part == SubSeq(rest, 1, last)
<1>1. t \in Nat \ {0} /\ f \in Nat \ {0} /\ p + t = s /\ p + f = e /\ t <= last
  BY DEF ValueLine
<1>2. part \in Seq(Bytes) /\ Len(part) = last /\ Agree(part, rest)
  BY DEF Agree
<1> HIDE DEF t, f, part
<1>3. ValueLine(rest, t, f)
  BY <1>1, RestLines
<1>4. f < last
  BY <1>1, <1>3, StopsAtLineEnd
<1>5. ValueLine(part, t, f)
  BY <1>2, <1>3, <1>4, ClosedLines
<1> QED
  BY <1>5 DEF t, f, part

LEMMA PartHasNone ==
  ASSUME NEW buf \in Seq(Bytes), NEW rest \in Seq(Bytes), NEW p \in 0..Len(buf),
         IsRest(rest, buf, p), NEW last \in 1..Len(rest), rest[last] = "n",
         NoneUpTo(buf, p), IsUtf8(rest), ScanSseBuf(SubSeq(rest, 1, last)) = "none"
  PROVE  NoneUpTo(buf, p + last)
<1> SUFFICES ASSUME NEW s \in 1..Len(buf), NEW e \in 1..Len(buf),
                    ValueLine(buf, s, e), s <= p + last
             PROVE  FALSE
  BY DEF NoneUpTo
<1>1. s > p
  BY DEF NoneUpTo
<1>2. ValueLine(SubSeq(rest, 1, last), s - p, e - p)
  BY <1>1, ValueLineOfPart
<1>3. SubSeq(rest, 1, last) \in Seq(Bytes) /\ IsUtf8(SubSeq(rest, 1, last))
  BY DEF IsUtf8
<1> QED
  BY <1>2, <1>3, ScanSome

LEMMA PartHasFirst ==
  ASSUME NEW buf \in Seq(Bytes), NEW rest \in Seq(Bytes), NEW p \in 0..Len(buf),
         IsRest(rest, buf, p), NEW last \in 1..Len(rest), rest[last] = "n",
         NoneUpTo(buf, p), ScanSseBuf(SubSeq(rest, 1, last)) # "none"
  PROVE  \E s, e \in 1..Len(buf) :
           /\ ValueLine(buf, s, e) /\ IsFirst(buf, s) /\ e < Len(buf)
           /\ ScanSseBuf(SubSeq(rest, 1, last)) = buf[s + 1]
<1> DEFINE part == SubSeq(rest, 1, last)
<1>1. /\ part \in Seq(Bytes) /\ Len(part) = last /\ Agree(part, rest)
      /\ part[last] = "n" /\ ScanSseBuf(part) # "none"
  BY DEF Agree
<1>2. ASSUME NEW s \in 1..Len(buf), NEW e \in 1..Len(buf), ValueLine(buf, s, e), s <= p + last
      PROVE  ValueLine(part, s - p, e - p)
  BY <1>2, ValueLineOfPart DEF NoneUpTo
<1> HIDE DEF part
<1>3. PICK t, f \in 1..last :
        ValueLine(part, t, f) /\ IsFirst(part, t) /\ ScanSseBuf(part) = part[t + 1]
  BY <1>1, ScanFound
<1>4. f < last
  BY <1>1, <1>3, StopsAtLineEnd
<1>5. ValueLine(buf, p + t, p + f)
  BY <1>1, <1>3, <1>4, ClosedLines, RestLines
<1>6. part[t + 1] = buf[p + t + 1]
  <2>1. t + 1 \in 1..last /\ p + (t + 1) = p + t + 1
    BY <1>3, <1>4 DEF ValueLine
  <2>2. part[t + 1] = rest[t + 1]
    BY <1>1, <2>1 DEF Agree
  <2>3. rest[t + 1] = buf[p + (t + 1)]
    BY <2>1 DEF IsRest
  <2> QED
    BY <2>1, <2>2, <2>3
<1>7. IsFirst(buf, p + t)
  <2> SUFFICES ASSUME NEW s \in 1..Len(buf), NEW e \in 1..Len(buf),
                      ValueLine(buf, s, e), s < p + t
               PROVE  FALSE
    BY DEF IsFirst
  <2>1. ValueLine(part, s - p, e - p)
    BY <1>2
  <2>2. s - p >= t
    BY <1>1, <1>3, <2>1 DEF IsFirst, ValueLine
  <2> QED
    BY <2>2
<1>8. p + f < Len(buf)
  BY <1>4 DEF IsRest
<1>9. p + t \in 1..Len(buf) /\ p + f \in 1..Len(buf)
  BY <1>5 DEF ValueLine
<1> QED
  BY <1>3, <1>5, <1>6, <1>7, <1>8, <1>9 DEF part
-----------------------------------------------------------------------------
(* The first value of a stream stays the first once its line has ended.    *)
LEMMA FirstStays ==
  ASSUME NEW short \in Seq(Bytes), NEW long \in Seq(Bytes), Agree(short, long),
         NEW s \in 1..Len(short), NEW e \in 1..Len(short), ValueLine(short, s, e),
         IsFirst(short, s), e < Len(short)
  PROVE  /\ s \in 1..Len(long) /\ e \in 1..Len(long) /\ e < Len(long)
         /\ ValueLine(long, s, e) /\ IsFirst(long, s) /\ short[s + 1] = long[s + 1]
<1>1. ValueLine(long, s, e)
  BY ClosedLines
<1>2. s + 1 \in 1..Len(short)
  BY DEF ValueLine
<1>3. ASSUME NEW t \in 1..Len(long), NEW f \in 1..Len(long), ValueLine(long, t, f), t < s
      PROVE  FALSE
  <2>1. e + 1 \in 1..Len(short) /\ e + 1 \in 1..Len(long) /\ short[e + 1] = "n" /\ s < e
    BY DEF ValueLine, Agree
  <2>2. long[e + 1] = "n" /\ t <= e + 1
    BY <1>3, <2>1 DEF Agree
  <2>3. f < e + 1
    BY <1>3, <2>1, <2>2, StopsAtLineEnd
  <2>4. ValueLine(short, t, f)
    BY <1>3, <2>3, ClosedLines
  <2>5. t \in 1..Len(short) /\ f \in 1..Len(short)
    BY <2>4 DEF ValueLine
  <2> QED
    BY <1>3, <2>4, <2>5 DEF IsFirst
<1> QED
  BY <1>1, <1>2, <1>3 DEF Agree, IsFirst

(* How far the stream has been cut off.                                    *)
Cut == Len(received) - Len(tail)

ScanTypeOK ==
  /\ received \in Seq(Bytes) /\ tail \in Seq(Bytes)
  /\ found \in Values \cup {"none"}
  /\ ended \in BOOLEAN

(* Nothing found yet: the tail is what follows a line end, no value line   *)
(* starts before it, and no blank line lies in it.                         *)
Searching ==
  /\ Cut \in 0..Len(received) /\ IsRest(tail, received, Cut)
  /\ NoneUpTo(received, Cut) /\ BlankLines(tail) = {}

HasFirst ==
  \E s, e \in 1..Len(received) :
    /\ ValueLine(received, s, e) /\ IsFirst(received, s)
    /\ found = received[s + 1]
    /\ ended \/ e < Len(received)

HasNone == \A s, e \in 1..Len(received) : ~ValueLine(received, s, e)

ScanInv ==
  /\ ScanTypeOK
  /\ IsUtf8(received) =>
       /\ found # "none" => HasFirst
       /\ found = "none" /\ ended => HasNone
       /\ found = "none" /\ ~ended => Searching

LEMMA ScanInitInv == ScanInit => ScanInv
<1> SUFFICES ASSUME ScanInit PROVE ScanInv
  OBVIOUS
<1>1. received = <<>> /\ tail = <<>> /\ found = "none" /\ ended = FALSE /\ Len(<<>>) = 0
  BY DEF ScanInit
<1>2. ScanTypeOK
  <2>1. <<>> \in Seq(Bytes)
    OBVIOUS
  <2>2. "none" \in Values \cup {"none"}
    OBVIOUS
  <2> QED
    BY <1>1, <2>1, <2>2 DEF ScanTypeOK
<1>3. Searching
  BY <1>1 DEF Searching, Cut, IsRest, NoneUpTo, BlankLines
<1> QED
  BY <1>1, <1>2, <1>3 DEF ScanInv

LEMMA BlankLinesBound ==
  ASSUME NEW buf \in Seq(Bytes), BlankLines(buf) # {}
  PROVE  /\ Max(BlankLines(buf)) \in 2..Len(buf)
         /\ buf[Max(BlankLines(buf))] = "n"
         /\ \A i \in BlankLines(buf) : i <= Max(BlankLines(buf))
<1>1. BlankLines(buf) \subseteq 0..Len(buf) /\ Len(buf) \in Nat
  BY DEF BlankLines
<1> DEFINE last == Max(BlankLines(buf))
<1>2. last \in BlankLines(buf) /\ \A i \in BlankLines(buf) : last >= i
  BY <1>1, MaxOfNats
<1> HIDE DEF last
<1>3. last \in 2..Len(buf) /\ buf[last] = "n" /\ \A i \in BlankLines(buf) : i <= last
  BY <1>1, <1>2 DEF BlankLines
<1> QED
  BY <1>3 DEF last

LEMMA PushType ==
  ASSUME ScanTypeOK, NEW chunk \in Seq(Bytes), Push(chunk)
  PROVE  ScanTypeOK'
<1> USE DEF ScanTypeOK
<1>1. tail \o chunk \in Seq(Bytes) /\ received' \in Seq(Bytes) /\ ended' \in BOOLEAN
  BY DEF Push
<1>2. CASE found # "none"
  BY <1>1, <1>2 DEF Push
<1>3. CASE found = "none" /\ BlankLines(tail \o chunk) = {}
  BY <1>1, <1>3 DEF Push
<1>4. CASE found = "none" /\ BlankLines(tail \o chunk) # {}
  <2> DEFINE grown == tail \o chunk
             last == Max(BlankLines(grown))
  <2>1. last \in 2..Len(grown)
    BY <1>1, <1>4, BlankLinesBound
  <2>2. found' = ScanSseBuf(SubSeq(grown, 1, last)) /\ tail' = SubSeq(grown, last + 1, Len(grown))
    BY <1>4 DEF Push
  <2> HIDE DEF grown, last
  <2>3. grown \in Seq(Bytes)
    BY <1>1 DEF grown
  <2>4. SubSeq(grown, 1, last) \in Seq(Bytes) /\ SubSeq(grown, last + 1, Len(grown)) \in Seq(Bytes)
    BY <2>1, <2>3
  <2> QED
    BY <1>1, <2>2, <2>4, ScanType
<1> QED
  BY <1>2, <1>3, <1>4

LEMMA PushFound ==
  ASSUME ScanInv, NEW chunk \in Seq(Bytes), Push(chunk), IsUtf8(received), found # "none"
  PROVE  HasFirst' /\ found' # "none"
<1>1. received \in Seq(Bytes) /\ ~ended /\ ended' = ended /\ received' = received \o chunk /\ found' = found
  BY DEF ScanInv, ScanTypeOK, Push
<1>2. PICK s, e \in 1..Len(received) :
        /\ ValueLine(received, s, e) /\ IsFirst(received, s)
        /\ found = received[s + 1] /\ e < Len(received)
  BY <1>1 DEF ScanInv, HasFirst
<1> DEFINE long == received \o chunk
<1>3. Agree(received, long) /\ long \in Seq(Bytes)
  BY <1>1 DEF Agree
<1> HIDE DEF long
<1>4. /\ s \in 1..Len(long) /\ e \in 1..Len(long) /\ e < Len(long)
      /\ ValueLine(long, s, e) /\ IsFirst(long, s) /\ received[s + 1] = long[s + 1]
  BY <1>1, <1>2, <1>3, FirstStays
<1>5. received' = long
  BY <1>1 DEF long
<1> QED
  BY <1>1, <1>2, <1>4, <1>5 DEF HasFirst

LEMMA PushSearching ==
  ASSUME ScanInv, NEW chunk \in Seq(Bytes), Push(chunk), IsUtf8(received'),
         IsUtf8(received), found = "none"
  PROVE  /\ found' # "none" => HasFirst'
         /\ found' = "none" => Searching'
<1> DEFINE grown == tail \o chunk
           long == received \o chunk
           last == Max(BlankLines(grown))
           cut == Cut
<1>1. /\ received \in Seq(Bytes) /\ tail \in Seq(Bytes) /\ ended = FALSE /\ ended' = FALSE
      /\ received' = long /\ Searching
  BY DEF ScanInv, ScanTypeOK, Push
<1>2. /\ grown \in Seq(Bytes) /\ long \in Seq(Bytes)
      /\ cut \in 0..Len(received) /\ cut \in Nat /\ cut \in 0..Len(long)
      /\ Len(received) = cut + Len(tail) /\ Len(long) = cut + Len(grown)
  BY <1>1 DEF Searching, Cut, IsRest
<1>3. IsRest(grown, long, cut) /\ Agree(received, long)
  BY <1>1, <1>2, RestGrows DEF Searching
<1>4. NoneUpTo(long, cut)
  BY <1>1, <1>2, <1>3, NoneUpToStays DEF Searching, IsRest
<1>5. IsUtf8(grown)
  <2> SUFFICES ASSUME NEW i \in 1..Len(grown) PROVE grown[i] # "bad"
    BY DEF IsUtf8
  <2>1. grown[i] = long[cut + i] /\ cut + i \in 1..Len(long)
    BY <1>2, <1>3 DEF IsRest
  <2> QED
    BY <1>1, <2>1 DEF IsUtf8
<1>6. CASE BlankLines(grown) = {}
  <2>1. tail' = grown /\ found' = found
    BY <1>6 DEF Push
  <2>2. Cut' = cut
    BY <1>1, <1>2, <2>1 DEF Cut
  <2>3. Searching'
    <3> HIDE DEF grown, long, cut
    <3> QED
      BY <1>1, <1>2, <1>3, <1>4, <1>6, <2>1, <2>2 DEF Searching
  <2> QED
    BY <2>1, <2>3
<1>7. CASE BlankLines(grown) # {}
  <2>1. last \in 2..Len(grown) /\ grown[last] = "n" /\ \A i \in BlankLines(grown) : i <= last
    BY <1>2, <1>7, BlankLinesBound
  <2>2. found' = ScanSseBuf(SubSeq(grown, 1, last)) /\ tail' = SubSeq(grown, last + 1, Len(grown))
    BY <1>7 DEF Push
  <2> HIDE DEF grown, long, cut, last
  <2>0. last \in 1..Len(grown)
    BY <2>1
  <2>3. CASE found' # "none"
    <3>0. ScanSseBuf(SubSeq(grown, 1, last)) # "none"
      BY <2>2, <2>3
    <3>1. PICK s, e \in 1..Len(long) :
            /\ ValueLine(long, s, e) /\ IsFirst(long, s) /\ e < Len(long)
            /\ ScanSseBuf(SubSeq(grown, 1, last)) = long[s + 1]
      <4>1. /\ long \in Seq(Bytes) /\ grown \in Seq(Bytes) /\ cut \in 0..Len(long)
            /\ IsRest(grown, long, cut) /\ grown[last] = "n" /\ NoneUpTo(long, cut)
        BY <1>2, <1>3, <1>4, <2>1
      <4> QED
        BY <2>0, <3>0, <4>1, PartHasFirst
    <3> QED
      BY <1>1, <2>2, <2>3, <3>1 DEF HasFirst
  <2>4. CASE found' = "none"
    <3>0. ScanSseBuf(SubSeq(grown, 1, last)) = "none"
      BY <2>2, <2>4
    <3>1. NoneUpTo(long, cut + last)
      BY <1>2, <1>3, <1>4, <1>5, <2>0, <2>1, <3>0, PartHasNone
    <3>2. /\ tail' \in Seq(Bytes) /\ Len(tail') = Len(grown) - last
          /\ \A i \in 1..Len(tail') : tail'[i] = grown[last + i]
      BY <1>2, <2>1, <2>2
    <3>3. Cut' = cut + last
      BY <1>1, <1>2, <2>1, <3>2 DEF Cut
    <3>4. IsRest(tail', long, cut + last)
      <4>1. Len(long) = cut + last + Len(tail')
        BY <1>2, <2>1, <3>2
      <4>2. long[cut + last] = "n"
        BY <1>3, <2>1 DEF IsRest
      <4>3. ASSUME NEW i \in 1..Len(tail') PROVE tail'[i] = long[cut + last + i]
        <5>1. last + i \in 1..Len(grown) /\ cut + (last + i) = cut + last + i
          BY <1>2, <2>1, <3>2
        <5>2. grown[last + i] = long[cut + (last + i)]
          BY <1>3, <5>1 DEF IsRest
        <5> QED
          BY <3>2, <5>1, <5>2
      <4> QED
        BY <4>1, <4>2, <4>3 DEF IsRest
    <3>5. BlankLines(tail') = {}
      <4> SUFFICES ASSUME NEW i \in 2..Len(tail'), tail'[i - 1] = "n", tail'[i] = "n"
                   PROVE  FALSE
        BY DEF BlankLines
      <4>1. i \in 1..Len(tail') /\ i - 1 \in 1..Len(tail') /\ last + i \in 2..Len(grown)
        BY <1>2, <2>1, <3>2
      <4>2. last + (i - 1) = last + i - 1
        BY <2>1
      <4>3. grown[last + i - 1] = "n" /\ grown[last + i] = "n"
        BY <3>2, <4>1, <4>2
      <4>4. last + i \in BlankLines(grown)
        <5> DEFINE j == last + i
        <5>1. j \in 2..Len(grown) /\ grown[j - 1] = "n" /\ grown[j] = "n"
          BY <2>1, <4>1, <4>3
        <5> HIDE DEF j
        <5>2. j \in BlankLines(grown)
          BY <5>1 DEF BlankLines
        <5> QED
          BY <5>2 DEF j
      <4>5. i \in Int /\ i > 0 /\ last \in Int
        BY <2>1
      <4> QED
        BY <2>1, <4>4, <4>5
    <3>6. cut + last \in 0..Len(long)
      BY <1>2, <2>1
    <3>7. Searching'
      BY <1>1, <3>1, <3>3, <3>4, <3>5, <3>6 DEF Searching
    <3> QED
      BY <2>4, <3>7
  <2> QED
    BY <2>3, <2>4
<1> QED
  BY <1>6, <1>7

LEMMA FinishKeeps == ASSUME ScanInv, Finish PROVE ScanInv'
<1>1. /\ received \in Seq(Bytes) /\ tail \in Seq(Bytes) /\ found \in Values \cup {"none"}
      /\ ended = FALSE /\ ended' = TRUE /\ received' = received
  BY DEF ScanInv, ScanTypeOK, Finish
<1>2. CASE found # "none"
  <2>1. tail' = tail /\ found' = found
    BY <1>2 DEF Finish
  <2> QED
    BY <1>1, <1>2, <2>1 DEF ScanInv, ScanTypeOK, HasFirst, IsUtf8
<1>3. CASE found = "none"
  <2>1. found' = ScanSseBuf(tail) /\ tail' = <<>>
    BY <1>3 DEF Finish
  <2>2. ScanTypeOK'
    <3>1. <<>> \in Seq(Bytes)
      OBVIOUS
    <3> QED
      BY <1>1, <2>1, <3>1, ScanType DEF ScanTypeOK
  <2>3. ASSUME IsUtf8(received)
        PROVE  (found' # "none" => HasFirst') /\ (found' = "none" => HasNone')
    <3>1. /\ Cut \in 0..Len(received) /\ IsRest(tail, received, Cut) /\ NoneUpTo(received, Cut)
          /\ Len(received) = Cut + Len(tail)
      BY <1>1, <1>3, <2>3 DEF ScanInv, Searching, IsRest
    <3>2. IsUtf8(tail)
      <4> SUFFICES ASSUME NEW i \in 1..Len(tail) PROVE tail[i] # "bad"
        BY DEF IsUtf8
      <4>1. tail[i] = received[Cut + i] /\ Cut + i \in 1..Len(received)
        BY <1>1, <3>1 DEF IsRest
      <4> QED
        BY <2>3, <4>1 DEF IsUtf8
    <3>3. ASSUME NEW s \in 1..Len(received), NEW e \in 1..Len(received), ValueLine(received, s, e)
          PROVE  /\ s - Cut \in Nat \ {0} /\ e - Cut \in Nat \ {0}
                 /\ ValueLine(tail, s - Cut, e - Cut)
      <4>1. s - Cut \in Nat \ {0} /\ e - Cut \in Nat \ {0}
        BY <3>1, <3>3 DEF NoneUpTo, ValueLine
      <4>2. Cut + (s - Cut) = s /\ Cut + (e - Cut) = e
        BY <3>1
      <4> HIDE DEF Cut
      <4> QED
        BY <1>1, <3>1, <3>3, <4>1, <4>2, RestLines
    <3>4. CASE found' # "none"
      <4>1. PICK t, f \in 1..Len(tail) :
              ValueLine(tail, t, f) /\ IsFirst(tail, t) /\ ScanSseBuf(tail) = tail[t + 1]
        BY <1>1, <2>1, <3>4, ScanFound
      <4>2. ValueLine(received, Cut + t, Cut + f)
        <5>1. t \in Nat \ {0} /\ f \in Nat \ {0}
          BY <1>1
        <5> HIDE DEF Cut
        <5> QED
          BY <1>1, <3>1, <4>1, <5>1, RestLines
      <4>3. tail[t + 1] = received[Cut + t + 1]
        <5>1. t + 1 \in 1..Len(tail) /\ Cut + (t + 1) = Cut + t + 1
          BY <3>1, <4>1 DEF ValueLine
        <5>2. tail[t + 1] = received[Cut + (t + 1)]
          BY <3>1, <5>1 DEF IsRest
        <5> QED
          BY <5>1, <5>2
      <4>4. IsFirst(received, Cut + t)
        <5> SUFFICES ASSUME NEW s \in 1..Len(received), NEW e \in 1..Len(received),
                            ValueLine(received, s, e)
                     PROVE  s >= Cut + t
          BY DEF IsFirst
        <5>1. ValueLine(tail, s - Cut, e - Cut)
          BY <3>3
        <5>2. s - Cut >= t
          BY <4>1, <5>1 DEF IsFirst, ValueLine
        <5> QED
          BY <3>1, <5>2
      <4>5. Cut + t \in 1..Len(received) /\ Cut + f \in 1..Len(received)
        BY <4>2 DEF ValueLine
      <4>6. found' = received[Cut + t + 1]
        BY <2>1, <4>1, <4>3
      <4>7. HasFirst'
        <5> HIDE DEF Cut
        <5> QED
          BY <1>1, <4>2, <4>4, <4>5, <4>6 DEF HasFirst
      <4> QED
        BY <3>4, <4>7
    <3>5. CASE found' = "none"
      BY <1>1, <2>1, <3>2, <3>3, <3>5, ScanSome DEF HasNone
    <3> QED
      BY <3>4, <3>5
  <2> QED
    BY <1>1, <2>2, <2>3 DEF ScanInv, IsUtf8
<1> QED
  BY <1>2, <1>3

LEMMA ChunksAreSequences ==
  ASSUME NEW n, NEW chunk \in Chunks(n)
  PROVE  chunk \in Seq(Bytes)
<1>1. PICK k \in 1..n : chunk \in [1..k -> Bytes]
  BY DEF Chunks
<1>2. k \in Nat
  OBVIOUS
<1> QED
  BY <1>1, <1>2

LEMMA ScanStep == ScanInv /\ [ScanNext]_scanVars => ScanInv'
<1>1. ASSUME ScanInv, NEW chunk \in Seq(Bytes), Push(chunk) PROVE ScanInv'
  <2>1. /\ received \in Seq(Bytes) /\ received' = received \o chunk
        /\ ended = FALSE /\ ended' = FALSE
    BY <1>1 DEF ScanInv, ScanTypeOK, Push
  <2>2. IsUtf8(received') => IsUtf8(received)
    BY <2>1 DEF IsUtf8
  <2>3. ScanTypeOK'
    BY <1>1, PushType DEF ScanInv
  <2> QED
    BY <1>1, <2>1, <2>2, <2>3, PushFound, PushSearching DEF ScanInv
<1>2. ASSUME ScanInv, UNCHANGED scanVars PROVE ScanInv'
  BY <1>2 DEF ScanInv, ScanTypeOK, HasFirst, HasNone, Searching, Cut, scanVars
<1> QED
  BY <1>1, <1>2, FinishKeeps, ChunksAreSequences DEF ScanNext

(* What the scanner has found or cut off is right for the whole stream so  *)
(* far, for any values and streams of any length.                          *)
THEOREM ScanInvariance == ScanSpec => []ScanInv
BY ScanInitInv, ScanStep, PTL DEF ScanSpec

(* However a stream is cut into chunks, at its end what has been found is  *)
(* the first value of the whole.                                           *)
THEOREM ChunksDoNotMatterHolds == ScanSpec => []ChunksDoNotMatter
<1>1. ScanInv => ChunksDoNotMatter
  <2> SUFFICES ASSUME ScanInv, ended, IsUtf8(received) PROVE found = ScanSseBuf(received)
    BY DEF ChunksDoNotMatter
  <2>1. received \in Seq(Bytes)
    BY DEF ScanInv, ScanTypeOK
  <2>2. CASE found # "none"
    BY <2>1, <2>2, ScanFirst DEF ScanInv, HasFirst
  <2>3. CASE found = "none"
    BY <2>1, <2>3, ScanNone DEF ScanInv, HasNone
  <2> QED
    BY <2>2, <2>3
<1> QED
  BY <1>1, ScanInvariance, PTL

(* A value with a blank line after it has been found.                      *)
THEOREM FoundAtBlankLineHolds == ScanSpec => []FoundAtBlankLine
<1>1. ScanInv => FoundAtBlankLine
  <2> SUFFICES ASSUME ScanInv, IsUtf8(received), NEW i \in BlankLines(received),
                      ScanSseBuf(SubSeq(received, 1, i)) # "none", found = "none"
               PROVE  FALSE
    BY DEF FoundAtBlankLine
  <2> DEFINE part == SubSeq(received, 1, i)
  <2>1. /\ received \in Seq(Bytes) /\ tail \in Seq(Bytes) /\ ended \in BOOLEAN
        /\ i \in 2..Len(received) /\ received[i - 1] = "n" /\ received[i] = "n"
    BY DEF ScanInv, ScanTypeOK, BlankLines
  <2>2. part \in Seq(Bytes) /\ Len(part) = i /\ Agree(part, received) /\ part[i] = "n"
    BY <2>1 DEF Agree
  <2> HIDE DEF part
  <2>3. PICK s, e \in 1..i : ValueLine(part, s, e)
    <3>1. ScanSseBuf(part) # "none"
      BY DEF part
    <3> QED
      BY <2>2, <3>1, ScanFound
  <2>4. e < i
    BY <2>1, <2>2, <2>3, StopsAtLineEnd
  <2>5. s < e /\ s \in 1..Len(received) /\ e \in 1..Len(received) /\ ValueLine(received, s, e)
    <3>1. ValueLine(received, s, e)
      BY <2>1, <2>2, <2>3, <2>4, ClosedLines
    <3> QED
      BY <3>1 DEF ValueLine
  <2>6. ~ended
    BY <2>5 DEF ScanInv, HasNone
  <2>7. Searching /\ Cut \in Nat /\ Len(received) = Cut + Len(tail) /\ s > Cut
    BY <2>1, <2>5, <2>6 DEF ScanInv, Searching, NoneUpTo, IsRest
  <2>8. i - Cut \in 2..Len(tail) /\ i - Cut - 1 \in 1..Len(tail)
    BY <2>1, <2>4, <2>5, <2>7
  <2>9. tail[i - Cut] = "n" /\ tail[i - Cut - 1] = "n"
    <3>1. Cut + (i - Cut) = i /\ Cut + (i - Cut - 1) = i - 1 /\ i - Cut \in 1..Len(tail)
      BY <2>1, <2>7, <2>8
    <3> QED
      BY <2>1, <2>7, <2>8, <3>1 DEF Searching, IsRest
  <2> QED
    BY <2>7, <2>8, <2>9 DEF Searching, BlankLines
<1> QED
  BY <1>1, ScanInvariance, PTL
=============================================================================
