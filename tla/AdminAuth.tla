------------------------------ MODULE AdminAuth ------------------------------
(***************************************************************************)
(* AdminAuthMiddleware (middleware/admin_auth.rs) with the admin_key table *)
(* and the bootstrap of its first row (bootstrap.rs).  Every worker has    *)
(* its own nonces.  What comes before the query of the table is done in    *)
(* one go by the worker's thread; while the query is awaited, the worker   *)
(* takes other requests.  Requests that are refused before the nonce is    *)
(* looked at (a missing header, an old timestamp) change nothing.          *)
(***************************************************************************)
EXTENDS Integers

CONSTANTS
  Window,          \* 300: how old a timestamp or a kept nonce may be, in seconds
  MaxNow,          \* bound: the last second of a behaviour
  AdminWorkers,    \* actix workers
  AdminCalls,      \* bound: the calls that may await the query at a time
  NoNonce,         \* the request has no X-Admin-Nonce
  NonceValues,
  SignedRequests   \* what the clients send, once or again

(* genuine: the signature verifies with the public key of the fingerprint. *)
ASSUME AdminAuthAssumption ==
  /\ Window \in Nat
  /\ MaxNow \in Nat
  /\ NoNonce \notin NonceValues
  /\ SignedRequests \subseteq [nonce : NonceValues \cup {NoNonce},
                               timestamp : Nat, genuine : BOOLEAN]

VARIABLES
  now,           \* seconds of Utc::now
  used_nonces,   \* by worker: the nonces with the second they came
  lookup,        \* the calls that await find_active_by_fingerprint
  admin_key,     \* the row of the fingerprint: "absent", "inactive", "active"
  adminServer,   \* "down" or "up"
  accepted,      \* history: requests by worker that were handed on
  twice,         \* history: those that were handed on again
  ahead          \* history: those that came before their timestamp

adminVars ==
  <<now, used_nonces, lookup, admin_key, adminServer, accepted, twice, ahead>>

NoLookup == [at |-> "idle"]
Lookup(w, r) == [at |-> "lookup", worker |-> w, request |-> r]

AdminInit ==
  /\ now = 0
  /\ used_nonces = [w \in AdminWorkers |-> {}]
  /\ lookup = [c \in AdminCalls |-> NoLookup]
  /\ admin_key \in {"absent", "inactive", "active"}
  /\ adminServer = "down"
  /\ accepted = {} /\ twice = {} /\ ahead = {}
-----------------------------------------------------------------------------
SaturatingSub(a, b) == IF a > b THEN a - b ELSE 0

(* The timestamp check; a timestamp in the future passes.                  *)
Fresh(r) == SaturatingSub(now, r.timestamp) <= Window

\* Mutant: a nonce is forgotten in the last second its request is fresh.
RetainedShort(w) == {n \in used_nonces[w] : SaturatingSub(now, n.at) < Window}

Retained(w) == {n \in used_nonces[w] : SaturatingSub(now, n.at) <= Window}

Used(w, nonce) == \E n \in Retained(w) : n.nonce = nonce

(* The nonce is recorded before the signature is looked at: a call that    *)
(* fails later has used it.                                                *)
NoncesAfter(w, r) ==
  IF r.nonce = NoNonce THEN used_nonces[w]
  ELSE Retained(w) \cup {[nonce |-> r.nonce, at |-> now]}

Arrive(c, w, r) ==
  /\ adminServer = "up" /\ lookup[c] = NoLookup
  /\ Fresh(r)
  /\ r.nonce # NoNonce => ~Used(w, r.nonce)
  /\ used_nonces' = [used_nonces EXCEPT ![w] = NoncesAfter(w, r)]
  /\ lookup' = [lookup EXCEPT ![c] = Lookup(w, r)]
  /\ ahead' = IF now < r.timestamp THEN ahead \cup {<<w, r>>} ELSE ahead
  /\ UNCHANGED <<now, admin_key, adminServer, accepted, twice>>

(* "Nonce already used"                                                    *)
RefuseUsed(w, r) ==
  /\ adminServer = "up"
  /\ Fresh(r) /\ r.nonce # NoNonce /\ Used(w, r.nonce)
  /\ used_nonces' = [used_nonces EXCEPT ![w] = Retained(w)]
  /\ UNCHANGED <<now, lookup, admin_key, adminServer, accepted, twice, ahead>>

(* find_active_by_fingerprint *)
FindActive == admin_key = "active"

(* The row is there and active, the signature verifies: service.call.      *)
Admit(c) ==
  /\ lookup[c] # NoLookup
  /\ FindActive /\ lookup[c].request.genuine
  /\ LET call == <<lookup[c].worker, lookup[c].request>>
     IN  /\ accepted' = accepted \cup {call}
         /\ twice' = IF call \in accepted THEN twice \cup {call} ELSE twice
  /\ lookup' = [lookup EXCEPT ![c] = NoLookup]
  /\ UNCHANGED <<now, used_nonces, admin_key, adminServer, ahead>>

(* No active row, a signature that does not verify, or the query fails;    *)
(* or the client has gone.                                                 *)
Refuse(c) ==
  /\ lookup[c] # NoLookup
  /\ lookup' = [lookup EXCEPT ![c] = NoLookup]
  /\ UNCHANGED <<now, used_nonces, admin_key, adminServer, accepted, twice, ahead>>

(* Utc::now is taken not to go back.                                       *)
AdminTick ==
  /\ now < MaxNow
  /\ now' = now + 1
  /\ UNCHANGED <<used_nonces, lookup, admin_key, adminServer, accepted, twice, ahead>>

(* The row is switched off, on or removed in the database: no handler does.*)
EditAdminKey(status) ==
  /\ admin_key' = status
  /\ UNCHANGED <<now, used_nonces, lookup, adminServer, accepted, twice, ahead>>

(* ensure_bootstrap_admin_key, when ADMIN_BOOTSTRAP_PUBLIC_KEY is set or   *)
(* not: a row that is there stays as it is.                                *)
StartAdmin ==
  /\ adminServer = "down"
  /\ adminServer' = "up"
  /\ \/ admin_key' = admin_key
     \/ admin_key = "absent" /\ admin_key' = "active"
  /\ UNCHANGED <<now, used_nonces, lookup, accepted, twice, ahead>>

(* The nonces are lost with the process.                                   *)
StopAdmin ==
  /\ adminServer = "up"
  /\ adminServer' = "down"
  /\ used_nonces' = [w \in AdminWorkers |-> {}]
  /\ lookup' = [c \in AdminCalls |-> NoLookup]
  /\ accepted' = {} /\ twice' = {} /\ ahead' = {}
  /\ UNCHANGED <<now, admin_key>>

AdminNext ==
  \/ \E w \in AdminWorkers, r \in SignedRequests :
       \/ \E c \in AdminCalls : Arrive(c, w, r)
       \/ RefuseUsed(w, r)
  \/ \E c \in AdminCalls : Admit(c) \/ Refuse(c)
  \/ AdminTick
  \/ \E status \in {"absent", "inactive", "active"} : EditAdminKey(status)
  \/ StartAdmin \/ StopAdmin

AdminSpec == AdminInit /\ [][AdminNext]_adminVars
-----------------------------------------------------------------------------
AdminTypeOK ==
  /\ now \in Nat
  /\ used_nonces \in [AdminWorkers -> SUBSET [nonce : NonceValues, at : Nat]]
  /\ lookup \in [AdminCalls ->
       {NoLookup} \cup {Lookup(w, r) : w \in AdminWorkers, r \in SignedRequests}]
  /\ admin_key \in {"absent", "inactive", "active"}
  /\ adminServer \in {"down", "up"}
  /\ accepted \subseteq AdminWorkers \X SignedRequests
  /\ twice \subseteq AdminWorkers \X SignedRequests
  /\ ahead \subseteq AdminWorkers \X SignedRequests

(* A worker hands a request with a nonce on once while the process runs,   *)
(* however often and at whatever second it is sent again: the nonce is     *)
(* kept for as long as the timestamp passes, and recorded before the await.*)
(* It takes a timestamp that was not ahead of the server's clock, and says *)
(* nothing across workers or restarts, which do not share nonces.          *)
AcceptedOnce ==
  \A call \in twice : call[2].nonce = NoNonce \/ call \in ahead
=============================================================================
