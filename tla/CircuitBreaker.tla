--------------------------- MODULE CircuitBreaker ---------------------------
(***************************************************************************)
(* The circuit breaker of util/penalty.rs as its callers run it: worker    *)
(* threads and spawned stream tasks that share one moka cache.  A method   *)
(* that writes reads the entry (entries.get), computes a new one and       *)
(* writes it back (entries.insert); other callers, the clock, an admin     *)
(* reset and the cache's eviction run between the two.                     *)
(*                                                                         *)
(* is_allowed reads the clock just before the entry; the two are one step  *)
(* here.                                                                   *)
(***************************************************************************)
EXTENDS BreakerEntry, FiniteSets

CONSTANTS
  Keys,          \* "model|provider|credential_id"
  Credentials,
  CredentialOf,  \* CredentialOf[k]: the credential a key ends with
  Unparsable,    \* keys parse_key rejects: a name in them contains '|'
  Capacity,      \* CIRCUIT_BREAKER_MAX_CAPACITY
  Callers        \* threads and tasks inside a breaker method

ASSUME KeysAssumption ==
  /\ CredentialOf \in [Keys -> Credentials]
  /\ Unparsable \subseteq Keys
  /\ None \notin [op : {"is_allowed", "record_failure", "record_success"},
                  key : Keys, entry : CircuitEntry]

VARIABLES
  entries,    \* the moka cache
  pending,    \* pending[c]: the entry caller c has computed and not inserted
  resetting,  \* keys that reset_credential calls still have to visit
  probes,     \* history: half-open admissions since the key last opened
  streak,     \* history: failures inserted since the last success or removal
  alone       \* history: no two calls on a key have overlapped so far

vars == <<entries, pending, resetting, probes, streak, alone>>

Operations == {"is_allowed", "record_failure", "record_success"}

Write == [op : Operations, key : Keys, entry : CircuitEntry]

Init ==
  /\ entries = [k \in Keys |-> None]
  /\ pending = [c \in Callers |-> None]
  /\ resetting = {}
  /\ probes = [k \in Keys |-> 0]
  /\ streak = [k \in Keys |-> 0]
  /\ alone = TRUE

(* Nothing happens to a key between the two halves of a call on it, and no *)
(* tick falls into a call.                                                 *)
Serial ==
  \A c \in Callers :
    pending[c] # None =>
      \/ pending'[c] = None
      \/ /\ pending'[c] = pending[c]
         /\ entries'[pending[c].key] = entries[pending[c].key]
         /\ \A d \in Callers \ {c} :
              pending'[d] # None => pending'[d].key # pending[c].key

Watched == alone' = (alone /\ Serial)
-----------------------------------------------------------------------------
(* The first half of a method: the entry is read and the new one computed. *)
Read(c, op, k, entry) ==
  /\ pending[c] = None
  /\ pending' = [pending EXCEPT ![c] = [op |-> op, key |-> k, entry |-> entry]]
  /\ UNCHANGED <<entries, resetting, probes, streak>>
  /\ Watched

\* Mutant: a HalfOpen entry is let through without its permit.
IsAllowedReadUnguarded(c, k) ==
  /\ entries[k] # None
  /\ entries[k].circuit_state # "Closed" /\ Expired(entries[k])
  /\ Read(c, "is_allowed", k, AfterProbe(entries[k]))

IsAllowedRead(c, k) ==
  /\ Probes(entries[k])
  /\ Read(c, "is_allowed", k, AfterProbe(entries[k]))

RecordFailureRead(c, k) ==
  Read(c, "record_failure", k, AfterFailure(entries[k]))

RecordSuccessRead(c, k) ==
  Read(c, "record_success", k, AfterSuccess(entries[k]))

(* The second half: the computed entry replaces whatever is there now.     *)
Insert(c, op) ==
  /\ pending[c] # None
  /\ pending[c].op = op
  /\ entries' = [entries EXCEPT ![pending[c].key] = pending[c].entry]
  /\ pending' = [pending EXCEPT ![c] = None]
  /\ UNCHANGED resetting
  /\ Watched

IsAllowedInsert(c) ==
  /\ Insert(c, "is_allowed")
  /\ probes' = [probes EXCEPT ![pending[c].key] = @ + 1]
  /\ UNCHANGED streak

RecordFailureInsert(c) ==
  /\ Insert(c, "record_failure")
  /\ probes' = [probes EXCEPT ![pending[c].key] =
                  IF pending[c].entry.circuit_state = "Open" THEN 0 ELSE @]
  /\ streak' = [streak EXCEPT ![pending[c].key] =
                  IF @ < Threshold THEN @ + 1 ELSE @]

RecordSuccessInsert(c) ==
  /\ Insert(c, "record_success")
  /\ probes' = [probes EXCEPT ![pending[c].key] = 0]
  /\ streak' = [streak EXCEPT ![pending[c].key] = 0]
-----------------------------------------------------------------------------
Drop(k) ==
  /\ entries' = [entries EXCEPT ![k] = None]
  /\ probes' = [probes EXCEPT ![k] = 0]
  /\ streak' = [streak EXCEPT ![k] = 0]
  /\ UNCHANGED pending
  /\ Watched

(* reset_credential walks the cache and removes the keys that parse to the *)
(* credential, one at a time.                                              *)
ResetBegin(credential) ==
  /\ resetting' = resetting \cup
       {k \in Keys \ Unparsable : CredentialOf[k] = credential}
  /\ UNCHANGED <<entries, pending, probes, streak>>
  /\ Watched

ResetVisit(k) ==
  /\ k \in resetting
  /\ resetting' = resetting \ {k}
  /\ Drop(k)

(* moka removes an entry once the cache holds more than max_capacity.      *)
Evict(k) ==
  /\ entries[k] # None
  /\ Cardinality({j \in Keys : entries[j] # None}) > Capacity
  /\ Drop(k)
  /\ UNCHANGED resetting

Tick ==
  /\ entries' = [k \in Keys |-> Elapse(entries[k])]
  /\ pending' = [c \in Callers |->
       IF pending[c] = None THEN None
       ELSE [pending[c] EXCEPT !.entry = Elapse(@)]]
  /\ UNCHANGED <<resetting, probes, streak>>
  /\ Watched

Next ==
  \/ \E c \in Callers, k \in Keys :
       \/ IsAllowedRead(c, k)
       \/ RecordFailureRead(c, k)
       \/ RecordSuccessRead(c, k)
  \/ \E c \in Callers :
       \/ IsAllowedInsert(c)
       \/ RecordFailureInsert(c)
       \/ RecordSuccessInsert(c)
  \/ \E credential \in Credentials : ResetBegin(credential)
  \/ \E k \in Keys : ResetVisit(k) \/ Evict(k)
  \/ Tick

Spec == Init /\ [][Next]_vars
-----------------------------------------------------------------------------
(* Executions in which callers only ask and fail: nothing succeeds, is     *)
(* reset or evicted.  A call that has started finishes, the outage makes   *)
(* further calls on every key, and time passes.                            *)
StormNext ==
  \/ \E c \in Callers, k \in Keys : IsAllowedRead(c, k) \/ RecordFailureRead(c, k)
  \/ \E c \in Callers : IsAllowedInsert(c) \/ RecordFailureInsert(c)
  \/ Tick

StormSpec ==
  /\ Init
  /\ [][StormNext]_vars
  /\ \A c \in Callers : WF_vars(IsAllowedInsert(c) \/ RecordFailureInsert(c))
  /\ \A k \in Keys : SF_vars(\E c \in Callers : RecordFailureRead(c, k))
-----------------------------------------------------------------------------
Atomic == INSTANCE AtomicBreaker

(* Values stay in the ranges penalty.rs gives them.                        *)
TypeOK ==
  /\ entries \in [Keys -> CircuitEntry \cup {None}]
  /\ probes \in [Keys -> Nat]
  /\ streak \in [Keys -> 0..Threshold]
  /\ pending \in [Callers -> Write \cup {None}]
  /\ resetting \subseteq Keys \ Unparsable
  /\ alone \in BOOLEAN

(* However the halves of the calls interleave, no stale or lost write      *)
(* produces an entry no single call could have produced: Closed below the  *)
(* threshold, Open with an expiry, HalfOpen only after it.                 *)
EntriesWellFormed ==
  /\ \A k \in Keys : WellFormed(entries[k])
  /\ \A c \in Callers : pending[c] # None => WellFormed(pending[c].entry)

(* list_blocked_models looks at the expiry only; what it lists is Open.    *)
ListedIsOpen ==
  \A k \in Keys : Listed(entries[k]) => entries[k].circuit_state = "Open"

(* As long as no two calls on a key have overlapped, the breaker is the    *)
(* atomic one.                                                             *)
ImplementsAtomicBreaker ==
  /\ Atomic!Init
  /\ [][alone' => Atomic!Next \/ UNCHANGED Atomic!vars]_vars

(* A key whose last Threshold recorded outcomes were failures is tripped,  *)
(* as long as no call has overlapped another on its key.                   *)
StreakTrips == alone => Atomic!StreakTrips

(* What caching_strategy.md calls the single probe: one request gets       *)
(* through a half-open circuit, and the next one waits for its outcome.    *)
(* The comment in is_allowed grants more to concurrent calls only, which   *)
(* are left aside here.                                                    *)
SingleProbe == alone => \A k \in Keys : probes[k] <= 1

(* The bound that calls which do not overlap do keep.                      *)
AtMostTwoProbes == alone => Atomic!AtMostTwoProbes

(* An open circuit stays open for its TTL.                                 *)
OpenHolds == Atomic!OpenHolds

(* ... and does so, whatever is recorded on it but a success, as long as   *)
(* no two calls on a key have overlapped.                                  *)
AloneOpenHolds ==
  [][alone' => \A k \in Keys :
       Atomic!FreshlyOpen(entries[k]) => Atomic!StillOpen(k)]_vars

(* The comment on record_failure: increments may be lost to concurrent     *)
(* calls, and the key still trips in the end.  During an outage every key  *)
(* ends up, and stays, out of Closed.                                      *)
OutageTrips ==
  \A k \in Keys :
    <>[](entries[k] # None /\ entries[k].circuit_state # "Closed")

(* The inductive strengthening while calls are alone: a computed entry is  *)
(* the one its call would compute from the present entry, and two calls    *)
(* are never under way on one key.                                         *)
StillFits(write) ==
  LET slot == entries[write.key] IN
  /\ write.op = "is_allowed" => Probes(slot) /\ write.entry = AfterProbe(slot)
  /\ write.op = "record_failure" => write.entry = AfterFailure(slot)
  /\ write.op = "record_success" => write.entry = AfterSuccess(slot)

SerialInv ==
  /\ TypeOK
  /\ EntriesWellFormed
  /\ \A c \in Callers : pending[c] # None => StillFits(pending[c])
  /\ \A c, d \in Callers :
       c # d /\ pending[c] # None /\ pending[d] # None =>
         pending[c].key # pending[d].key

AloneInv ==
  /\ TypeOK
  /\ EntriesWellFormed
  /\ alone => SerialInv /\ Atomic!IInv
=============================================================================
