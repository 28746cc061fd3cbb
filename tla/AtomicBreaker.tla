---------------------------- MODULE AtomicBreaker ---------------------------
(***************************************************************************)
(* What the circuit breaker promises its callers: every method of          *)
(* CircuitBreaker takes effect in one step.  The code does not do that (it *)
(* reads an entry and writes it back later, see CircuitBreaker); it        *)
(* implements this module as long as no two calls on a key overlap.        *)
(*                                                                         *)
(* The variables probes and streak are history variables: no code reads    *)
(* them.                                                                   *)
(***************************************************************************)
EXTENDS BreakerEntry

CONSTANT Keys   \* "model|provider|credential_id"

VARIABLES
  entries,   \* entries[k]: the entry of k in the moka cache, or None
  probes,    \* probes[k]: half-open admissions since k last opened
  streak     \* streak[k]: failures recorded on k since its last success or
             \* removal, saturated at Threshold

vars == <<entries, probes, streak>>

Init ==
  /\ entries = [k \in Keys |-> None]
  /\ probes = [k \in Keys |-> 0]
  /\ streak = [k \in Keys |-> 0]

(* is_allowed: admitted as a probe.  The other two answers write nothing.  *)
Probe(k) ==
  /\ Probes(entries[k])
  /\ entries' = [entries EXCEPT ![k] = AfterProbe(@)]
  /\ probes' = [probes EXCEPT ![k] = @ + 1]
  /\ UNCHANGED streak

RecordFailure(k) ==
  /\ entries' = [entries EXCEPT ![k] = AfterFailure(@)]
  /\ probes' = [probes EXCEPT ![k] = IF Trips(entries[k]) THEN 0 ELSE @]
  /\ streak' = [streak EXCEPT ![k] = IF @ < Threshold THEN @ + 1 ELSE @]

RecordSuccess(k) ==
  /\ entries' = [entries EXCEPT ![k] = AfterSuccess(@)]
  /\ probes' = [probes EXCEPT ![k] = 0]
  /\ streak' = [streak EXCEPT ![k] = 0]

(* An entry leaves the cache: reset_credential, or moka's eviction.        *)
Remove(gone) ==
  /\ entries' = [k \in Keys |-> IF k \in gone THEN None ELSE entries[k]]
  /\ probes' = [k \in Keys |-> IF k \in gone THEN 0 ELSE probes[k]]
  /\ streak' = [k \in Keys |-> IF k \in gone THEN 0 ELSE streak[k]]

Tick ==
  /\ entries' = [k \in Keys |-> Elapse(entries[k])]
  /\ UNCHANGED <<probes, streak>>

Next ==
  \/ \E k \in Keys :
       \/ Probe(k)
       \/ RecordFailure(k)
       \/ RecordSuccess(k)
  \/ \E gone \in SUBSET Keys : Remove(gone)
  \/ Tick

Spec == Init /\ [][Next]_vars
-----------------------------------------------------------------------------
TypeOK ==
  /\ entries \in [Keys -> CircuitEntry \cup {None}]
  /\ probes \in [Keys -> Nat]
  /\ streak \in [Keys -> 0..Threshold]

(* A key whose last Threshold recorded outcomes were all failures is not   *)
(* Closed: record_failure never loses the trip.                            *)
StreakTrips ==
  \A k \in Keys :
    streak[k] = Threshold =>
      entries[k] # None /\ entries[k].circuit_state # "Closed"

(* Between two trips of a key at most two requests are let through while   *)
(* it is half open: the one that finds the expired Open entry and the one  *)
(* that takes the permit the first left behind.                            *)
AtMostTwoProbes == \A k \in Keys : probes[k] <= 2

(* An open circuit stays open until its TTL has passed, unless a success   *)
(* is recorded on it or it is removed.                                     *)
FreshlyOpen(slot) ==
  slot # None /\ slot.circuit_state = "Open" /\ ~Expired(slot)

StillOpen(k) ==
  \/ entries'[k] = None
  \/ entries'[k].circuit_state = "Open"
  \/ entries'[k] = DefaultEntry

OpenHolds == [][\A k \in Keys : FreshlyOpen(entries[k]) => StillOpen(k)]_vars

(* The inductive strengthening.                                            *)
IInv ==
  /\ TypeOK
  /\ \A k \in Keys :
       /\ WellFormed(entries[k])
       /\ HistoryAgrees(entries[k], probes[k], streak[k])
=============================================================================
