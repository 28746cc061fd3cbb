------------------------ MODULE CircuitBreakerProofs ------------------------
(***************************************************************************)
(* Proofs about the circuit breaker: whatever callers race on a key, its   *)
(* entry keeps a shape a single call could have given it; as long as calls *)
(* on a key have not overlapped, the breaker implements AtomicBreaker; and *)
(* what AtomicBreaker promises.                                            *)
(***************************************************************************)
EXTENDS CircuitBreaker, BreakerEntryProofs

USE ThresholdAssumption, OpenTtlAssumption, NoneAssumption, KeysAssumption

RaceInv == TypeOK /\ EntriesWellFormed

LEMMA NoneIsNoWrite == None \notin Write
BY DEF Write, Operations

(* Every step watches whether it lets two calls overlap.                   *)
LEMMA EveryStepIsWatched == Next => Watched
BY DEF Next, IsAllowedRead, RecordFailureRead, RecordSuccessRead, Read,
       IsAllowedInsert, RecordFailureInsert, RecordSuccessInsert, Insert,
       ResetBegin, ResetVisit, Evict, Drop, Tick

LEMMA InitialRace == Init => RaceInv
BY DEF Init, RaceInv, TypeOK, EntriesWellFormed, WellFormed

(* The first half of a call on key k, whatever entry it computed.          *)
LEMMA ReadKeepsRaceInv ==
  ASSUME RaceInv, NEW c \in Callers, NEW k \in Keys, NEW op \in Operations,
         NEW entry \in CircuitEntry, WellFormed(entry), Read(c, op, k, entry)
  PROVE  RaceInv'
<1> USE DEF Watched
<1>1. [op |-> op, key |-> k, entry |-> entry] \in Write
  BY DEF Write
<1>2. TypeOK'
  BY <1>1 DEF RaceInv, TypeOK, Read
<1>3. EntriesWellFormed'
  BY <1>1 DEF RaceInv, TypeOK, EntriesWellFormed, Read
<1>4. QED
  BY <1>2, <1>3 DEF RaceInv

(* The second half: a well-formed entry replaces another.                  *)
LEMMA InsertKeepsRaceInv ==
  ASSUME RaceInv, NEW c \in Callers, NEW op \in Operations, Insert(c, op),
         probes' \in [Keys -> Nat], streak' \in [Keys -> 0..Threshold]
  PROVE  RaceInv'
<1> USE DEF Watched
<1>1. /\ pending[c] \in Write
      /\ pending[c].key \in Keys
      /\ pending[c].entry \in CircuitEntry
      /\ WellFormed(pending[c].entry)
  BY DEF RaceInv, TypeOK, EntriesWellFormed, Insert, Write
<1>2. TypeOK'
  BY <1>1 DEF RaceInv, TypeOK, Insert
<1>3. EntriesWellFormed'
  BY <1>1 DEF RaceInv, TypeOK, EntriesWellFormed, Insert
<1>4. QED
  BY <1>2, <1>3 DEF RaceInv

LEMMA DropKeepsRaceInv ==
  ASSUME RaceInv, NEW k \in Keys, Drop(k),
         resetting' \subseteq Keys \ Unparsable
  PROVE  RaceInv'
<1>1. WellFormed(None)
  BY DEF WellFormed
<1>2. QED
  BY <1>1 DEF RaceInv, TypeOK, EntriesWellFormed, Drop, Watched

LEMMA TickKeepsRaceInv == RaceInv /\ Tick => RaceInv'
<1> SUFFICES ASSUME RaceInv, Tick PROVE RaceInv'
  OBVIOUS
<1>1. ASSUME NEW k \in Keys
      PROVE  /\ entries'[k] \in CircuitEntry \cup {None}
             /\ WellFormed(entries'[k])
  BY ElapseShape DEF RaceInv, TypeOK, EntriesWellFormed, Tick
<1>2. ASSUME NEW c \in Callers
      PROVE  /\ pending'[c] \in Write \cup {None}
             /\ pending'[c] # None => WellFormed(pending'[c].entry)
  <2>1. CASE pending[c] = None
    BY <2>1 DEF Tick
  <2>2. CASE pending[c] # None
    <3>1. pending[c] \in Write /\ WellFormed(pending[c].entry)
      BY <2>2 DEF RaceInv, TypeOK, EntriesWellFormed
    <3>2. pending[c].entry \in CircuitEntry /\ pending[c].entry # None
      BY <3>1 DEF Write
    <3>3. /\ Elapse(pending[c].entry) \in CircuitEntry
          /\ WellFormed(Elapse(pending[c].entry))
      BY <3>1, <3>2, ElapseShape
    <3>4. pending'[c] = [pending[c] EXCEPT !.entry = Elapse(pending[c].entry)]
      BY <2>2 DEF Tick
    <3>5. pending'[c] \in Write /\ pending'[c].entry = Elapse(pending[c].entry)
      BY <3>1, <3>3, <3>4 DEF Write
    <3>6. QED
      BY <3>3, <3>5
  <2>3. QED
    BY <2>1, <2>2
<1>3. TypeOK'
  <2>1. entries' \in [Keys -> CircuitEntry \cup {None}]
    BY <1>1 DEF Tick
  <2>2. pending' \in [Callers -> Write \cup {None}]
    BY <1>2 DEF Tick
  <2>3. QED
    BY <2>1, <2>2 DEF RaceInv, TypeOK, Tick, Watched
<1>4. EntriesWellFormed'
  BY <1>1, <1>2 DEF EntriesWellFormed
<1>5. QED
  BY <1>3, <1>4 DEF RaceInv

LEMMA RaceInduction == RaceInv /\ [Next]_vars => RaceInv'
<1> SUFFICES ASSUME RaceInv, [Next]_vars PROVE RaceInv'
  OBVIOUS
<1>0. \A k \in Keys : entries[k] \in CircuitEntry \cup {None} /\ WellFormed(entries[k])
  BY DEF RaceInv, TypeOK, EntriesWellFormed
<1>1. ASSUME NEW c \in Callers, NEW k \in Keys, IsAllowedRead(c, k) PROVE RaceInv'
  BY <1>0, <1>1, AfterProbeShape, ReadKeepsRaceInv DEF IsAllowedRead, Operations
<1>2. ASSUME NEW c \in Callers, NEW k \in Keys, RecordFailureRead(c, k) PROVE RaceInv'
  BY <1>0, <1>2, AfterFailureShape, ReadKeepsRaceInv DEF RecordFailureRead, Operations
<1>3. ASSUME NEW c \in Callers, NEW k \in Keys, RecordSuccessRead(c, k) PROVE RaceInv'
  BY <1>0, <1>3, AfterSuccessIsDefault, DefaultShape, ReadKeepsRaceInv
  DEF RecordSuccessRead, Operations
<1>4. ASSUME NEW c \in Callers, IsAllowedInsert(c) PROVE RaceInv'
  <2>1. probes' \in [Keys -> Nat] /\ streak' \in [Keys -> 0..Threshold]
    BY <1>4 DEF RaceInv, TypeOK, IsAllowedInsert, Insert, Write
  <2>2. QED
    BY <1>4, <2>1, InsertKeepsRaceInv DEF IsAllowedInsert, Operations
<1>5. ASSUME NEW c \in Callers, RecordFailureInsert(c) PROVE RaceInv'
  <2>1. probes' \in [Keys -> Nat] /\ streak' \in [Keys -> 0..Threshold]
    BY <1>5 DEF RaceInv, TypeOK, RecordFailureInsert, Insert, Write
  <2>2. QED
    BY <1>5, <2>1, InsertKeepsRaceInv DEF RecordFailureInsert, Operations
<1>6. ASSUME NEW c \in Callers, RecordSuccessInsert(c) PROVE RaceInv'
  <2>1. probes' \in [Keys -> Nat] /\ streak' \in [Keys -> 0..Threshold]
    BY <1>6 DEF RaceInv, TypeOK, RecordSuccessInsert, Insert, Write
  <2>2. QED
    BY <1>6, <2>1, InsertKeepsRaceInv DEF RecordSuccessInsert, Operations
<1>7. ASSUME NEW credential \in Credentials, ResetBegin(credential) PROVE RaceInv'
  BY <1>7 DEF ResetBegin, Watched, RaceInv, TypeOK, EntriesWellFormed
<1>8. ASSUME NEW k \in Keys, ResetVisit(k) PROVE RaceInv'
  BY <1>8, DropKeepsRaceInv DEF ResetVisit, RaceInv, TypeOK
<1>9. ASSUME NEW k \in Keys, Evict(k) PROVE RaceInv'
  BY <1>9, DropKeepsRaceInv DEF Evict, RaceInv, TypeOK
<1>10. CASE Tick
  BY <1>10, TickKeepsRaceInv
<1>11. CASE UNCHANGED vars
  BY <1>11 DEF vars, RaceInv, TypeOK, EntriesWellFormed
<1>12. QED
  BY <1>1, <1>2, <1>3, <1>4, <1>5, <1>6, <1>7, <1>8, <1>9, <1>10, <1>11 DEF Next

(* Types are kept.                                                         *)
THEOREM TypeCorrect == Spec => []TypeOK
<1>1. RaceInv => TypeOK
  BY DEF RaceInv
<1>2. QED
  BY <1>1, InitialRace, RaceInduction, PTL DEF Spec

(* However many callers race, no entry leaves the shapes of WellFormed.    *)
THEOREM EntriesKeepShape == Spec => []EntriesWellFormed
<1>1. RaceInv => EntriesWellFormed
  BY DEF RaceInv
<1>2. QED
  BY <1>1, InitialRace, RaceInduction, PTL DEF Spec

(* list_blocked_models lists Open circuits and nothing else.               *)
THEOREM ListedIsOpenHolds == Spec => []ListedIsOpen
<1>1. EntriesWellFormed => ListedIsOpen
  BY DEF EntriesWellFormed, ListedIsOpen, Listed, Expired, WellFormed
<1>2. QED
  BY <1>1, EntriesKeepShape, PTL
-----------------------------------------------------------------------------
LEMMA InitialSerial == Init => SerialInv
BY InitialRace DEF Init, SerialInv, RaceInv

(* Calls that are alone: between the halves of a call nothing touches its  *)
(* key, so the computed entry still is the one to write.                   *)
LEMMA SerialInduction == SerialInv /\ Next /\ Serial => SerialInv'
<1> SUFFICES ASSUME SerialInv, Next, Serial PROVE SerialInv'
  OBVIOUS
<1>0. TypeOK' /\ EntriesWellFormed'
  BY RaceInduction DEF SerialInv, RaceInv
<1>1. ASSUME NEW c \in Callers, pending[c] # None, pending'[c] # None
      PROVE  /\ StillFits(pending[c])'
             /\ \A d \in Callers \ {c} :
                  pending'[d] # None => pending'[d].key # pending'[c].key
  <2>1. /\ pending'[c] = pending[c]
        /\ entries'[pending[c].key] = entries[pending[c].key]
        /\ \A d \in Callers \ {c} :
             pending'[d] # None => pending'[d].key # pending[c].key
    BY <1>1 DEF Serial
  <2>2. StillFits(pending[c])
    BY <1>1 DEF SerialInv
  <2>3. QED
    BY <2>1, <2>2 DEF StillFits
<1>2. ASSUME NEW c \in Callers, pending[c] = None, pending'[c] # None
      PROVE  /\ StillFits(pending[c])'
             /\ \A d \in Callers \ {c} : pending'[d] = pending[d]
  <2> DEFINE Goal == /\ StillFits(pending[c])'
                     /\ \A d \in Callers \ {c} : pending'[d] = pending[d]
  <2>1. ASSUME NEW b \in Callers, NEW k \in Keys, IsAllowedRead(b, k) PROVE Goal
    <3>1. b = c
      BY <1>2, <2>1 DEF IsAllowedRead, Read, SerialInv, TypeOK
    <3>2. QED
      BY <2>1, <3>1 DEF IsAllowedRead, Read, StillFits, SerialInv, TypeOK
  <2>2. ASSUME NEW b \in Callers, NEW k \in Keys, RecordFailureRead(b, k) PROVE Goal
    <3>1. b = c
      BY <1>2, <2>2 DEF RecordFailureRead, Read, SerialInv, TypeOK
    <3>2. QED
      BY <2>2, <3>1 DEF RecordFailureRead, Read, StillFits, SerialInv, TypeOK
  <2>3. ASSUME NEW b \in Callers, NEW k \in Keys, RecordSuccessRead(b, k) PROVE Goal
    <3>1. b = c
      BY <1>2, <2>3 DEF RecordSuccessRead, Read, SerialInv, TypeOK
    <3>2. QED
      BY <2>3, <3>1 DEF RecordSuccessRead, Read, StillFits, SerialInv, TypeOK
  <2>4. ASSUME NEW b \in Callers, NEW op \in Operations, Insert(b, op) PROVE Goal
    BY <1>2, <2>4 DEF Insert, SerialInv, TypeOK
  <2>5. ASSUME pending' = pending PROVE Goal
    BY <1>2, <2>5
  <2>6. ASSUME Tick PROVE Goal
    BY <1>2, <2>6 DEF Tick
  <2> HIDE DEF Goal
  <2>7. ASSUME NEW b \in Callers, IsAllowedInsert(b) \/ RecordFailureInsert(b)
                                     \/ RecordSuccessInsert(b)
        PROVE  Goal
    BY <2>4, <2>7
    DEF IsAllowedInsert, RecordFailureInsert, RecordSuccessInsert, Operations
  <2>8. ASSUME NEW credential \in Credentials, ResetBegin(credential) PROVE Goal
    BY <2>5, <2>8 DEF ResetBegin
  <2>9. ASSUME NEW k \in Keys, ResetVisit(k) \/ Evict(k) PROVE Goal
    BY <2>5, <2>9 DEF ResetVisit, Evict, Drop
  <2>10. Goal
    <3>1. CASE \E b \in Callers, k \in Keys :
                 IsAllowedRead(b, k) \/ RecordFailureRead(b, k) \/ RecordSuccessRead(b, k)
      BY <3>1, <2>1, <2>2, <2>3
    <3>2. CASE \E b \in Callers :
                 IsAllowedInsert(b) \/ RecordFailureInsert(b) \/ RecordSuccessInsert(b)
      BY <3>2, <2>7
    <3>3. CASE \E credential \in Credentials : ResetBegin(credential)
      BY <3>3, <2>8
    <3>4. CASE \E k \in Keys : ResetVisit(k) \/ Evict(k)
      BY <3>4, <2>9
    <3>5. QED
      BY <2>6, <3>1, <3>2, <3>3, <3>4 DEF Next
  <2>11. QED
    BY <2>10 DEF Goal
<1>3. \A c \in Callers : pending'[c] # None => StillFits(pending[c])'
  BY <1>1, <1>2
<1>4. ASSUME NEW c \in Callers, NEW d \in Callers,
             c # d, pending'[c] # None, pending'[d] # None
      PROVE  pending'[c].key # pending'[d].key
  <2>1. CASE pending[c] # None
    BY <1>1, <1>4, <2>1
  <2>2. CASE pending[d] # None
    BY <1>1, <1>4, <2>2
  <2>3. CASE pending[c] = None /\ pending[d] = None
    BY <1>2, <1>4, <2>3
  <2>4. QED
    BY <2>1, <2>2, <2>3
<1>5. QED
  BY <1>0, <1>3, <1>4 DEF SerialInv

(* The atomic breaker's computations are this module's.                    *)
LEMMA SameComputations ==
  /\ \A slot : Atomic!Probes(slot) <=> Probes(slot)
  /\ \A slot : Atomic!Trips(slot) <=> Trips(slot)
  /\ \A slot : Atomic!AfterProbe(slot) = AfterProbe(slot)
  /\ \A slot : Atomic!AfterFailure(slot) = AfterFailure(slot)
  /\ \A slot : Atomic!AfterSuccess(slot) = AfterSuccess(slot)
  /\ \A slot : Atomic!Elapse(slot) = Elapse(slot)
BY DEF Atomic!Probes, Probes, Atomic!Expired, Expired, Atomic!Trips, Trips,
       Atomic!AfterProbe, AfterProbe, Atomic!AfterFailure, AfterFailure,
       Atomic!AfterSuccess, AfterSuccess, Atomic!Elapse, Elapse,
       Atomic!OrDefault, OrDefault, Atomic!DefaultEntry, DefaultEntry

LEMMA SameShapes ==
  /\ Atomic!CircuitEntry = CircuitEntry
  /\ Atomic!DefaultEntry = DefaultEntry
  /\ \A slot : Atomic!WellFormed(slot) <=> WellFormed(slot)
  /\ \A slot, p, s : Atomic!HistoryAgrees(slot, p, s) <=> HistoryAgrees(slot, p, s)
BY DEF Atomic!CircuitEntry, CircuitEntry, Atomic!CircuitState, CircuitState,
       Atomic!DefaultEntry, DefaultEntry, Atomic!WellFormed, WellFormed,
       Atomic!HistoryAgrees, HistoryAgrees

(* A step of a call that is alone is a step of the atomic breaker.         *)
LEMMA SerialStep == SerialInv /\ Next => [Atomic!Next]_(Atomic!vars)
<1> SUFFICES ASSUME SerialInv, Next PROVE Atomic!Next \/ UNCHANGED Atomic!vars
  OBVIOUS
<1> USE DEF Atomic!vars
<1>1. ASSUME NEW c \in Callers, NEW op \in Operations, Insert(c, op)
      PROVE  /\ pending[c].key \in Keys
             /\ StillFits(pending[c])
  BY <1>1 DEF SerialInv, TypeOK, Insert, Write
<1>2. ASSUME NEW c \in Callers, IsAllowedInsert(c) PROVE Atomic!Next
  <2>1. /\ pending[c].key \in Keys
        /\ Probes(entries[pending[c].key])
        /\ pending[c].entry = AfterProbe(entries[pending[c].key])
    BY <1>1, <1>2 DEF IsAllowedInsert, Insert, Operations, StillFits
  <2>2. Atomic!Probe(pending[c].key)
    BY <1>2, <2>1, SameComputations DEF IsAllowedInsert, Insert, Atomic!Probe
  <2>3. QED
    BY <2>1, <2>2 DEF Atomic!Next
<1>3. ASSUME NEW c \in Callers, RecordFailureInsert(c) PROVE Atomic!Next
  <2>1. /\ pending[c].key \in Keys
        /\ pending[c].entry = AfterFailure(entries[pending[c].key])
    BY <1>1, <1>3 DEF RecordFailureInsert, Insert, Operations, StillFits
  <2>2. pending[c].entry.circuit_state = "Open" <=> Trips(entries[pending[c].key])
    BY <2>1, AfterFailureShape DEF SerialInv, TypeOK, EntriesWellFormed
  <2>3. Atomic!RecordFailure(pending[c].key)
    BY <1>3, <2>1, <2>2, SameComputations
    DEF RecordFailureInsert, Insert, Atomic!RecordFailure
  <2>4. QED
    BY <2>1, <2>3 DEF Atomic!Next
<1>4. ASSUME NEW c \in Callers, RecordSuccessInsert(c) PROVE Atomic!Next
  <2>1. /\ pending[c].key \in Keys
        /\ pending[c].entry = AfterSuccess(entries[pending[c].key])
    BY <1>1, <1>4 DEF RecordSuccessInsert, Insert, Operations, StillFits
  <2>2. Atomic!RecordSuccess(pending[c].key)
    BY <1>4, <2>1, SameComputations
    DEF RecordSuccessInsert, Insert, Atomic!RecordSuccess
  <2>3. QED
    BY <2>1, <2>2 DEF Atomic!Next
<1>5. ASSUME NEW k \in Keys, Drop(k) PROVE Atomic!Next
  <2>1. Atomic!Remove({k})
    BY <1>5 DEF Drop, Atomic!Remove, SerialInv, TypeOK
  <2>2. QED
    BY <2>1 DEF Atomic!Next
<1>6. CASE Tick
  BY <1>6, SameComputations DEF Tick, Atomic!Tick, Atomic!Next
<1>7. CASE UNCHANGED <<entries, probes, streak>>
  BY <1>7
<1>8. QED
  BY <1>2, <1>3, <1>4, <1>5, <1>6, <1>7
  DEF Next, IsAllowedRead, RecordFailureRead, RecordSuccessRead, Read,
      ResetBegin, ResetVisit, Evict
-----------------------------------------------------------------------------
(* The atomic breaker by itself, for any keys: entries keep their shape    *)
(* and agree with the calls made so far.                                   *)
AtomicInv ==
  /\ entries \in [Keys -> CircuitEntry \cup {None}]
  /\ probes \in [Keys -> Nat]
  /\ streak \in [Keys -> 0..Threshold]
  /\ \A k \in Keys :
       /\ WellFormed(entries[k])
       /\ HistoryAgrees(entries[k], probes[k], streak[k])

LEMMA AtomicInvIsIInv == AtomicInv <=> Atomic!IInv
BY SameShapes DEF AtomicInv, Atomic!IInv, Atomic!TypeOK

LEMMA AtomicInduction == AtomicInv /\ [Atomic!Next]_(Atomic!vars) => AtomicInv'
<1> SUFFICES ASSUME AtomicInv, [Atomic!Next]_(Atomic!vars) PROVE AtomicInv'
  OBVIOUS
<1> USE DEF AtomicInv
<1>1. ASSUME NEW k \in Keys, Atomic!Probe(k) PROVE AtomicInv'
  BY <1>1, SameComputations, AfterProbeShape, ProbeKeepsHistory DEF Atomic!Probe
<1>2. ASSUME NEW k \in Keys, Atomic!RecordFailure(k) PROVE AtomicInv'
  BY <1>2, SameComputations, AfterFailureShape, FailureKeepsHistory DEF Atomic!RecordFailure
<1>3. ASSUME NEW k \in Keys, Atomic!RecordSuccess(k) PROVE AtomicInv'
  <2>1. entries' = [entries EXCEPT ![k] = DefaultEntry]
    BY <1>3, SameComputations, AfterSuccessIsDefault DEF Atomic!RecordSuccess
  <2>2. QED
    BY <1>3, <2>1, DefaultShape, NoHistory DEF Atomic!RecordSuccess
<1>4. ASSUME NEW gone \in SUBSET Keys, Atomic!Remove(gone) PROVE AtomicInv'
  <2>1. WellFormed(None)
    BY DEF WellFormed
  <2>2. QED
    BY <1>4, <2>1, NoHistory DEF Atomic!Remove
<1>5. CASE Atomic!Tick
  BY <1>5, SameComputations, ElapseShape, ElapseKeepsHistory DEF Atomic!Tick
<1>6. CASE UNCHANGED Atomic!vars
  BY <1>6 DEF Atomic!vars
<1>7. QED
  BY <1>1, <1>2, <1>3, <1>4, <1>5, <1>6 DEF Atomic!Next

(* The inductive invariant of the atomic breaker, whoever implements it.   *)
THEOREM AtomicInvariance == Atomic!Spec => []Atomic!IInv
<1>1. Atomic!Init => AtomicInv
  BY NoHistory DEF Atomic!Init, AtomicInv, WellFormed
<1>2. QED
  BY <1>1, AtomicInduction, AtomicInvIsIInv, PTL DEF Atomic!Spec

LEMMA HistoryBounds ==
  AtomicInv => Atomic!AtMostTwoProbes /\ Atomic!StreakTrips
<1> SUFFICES ASSUME AtomicInv, NEW k \in Keys
             PROVE  /\ probes[k] <= 2
                    /\ streak[k] = Threshold =>
                         entries[k] # None /\ entries[k].circuit_state # "Closed"
  BY DEF Atomic!AtMostTwoProbes, Atomic!StreakTrips
<1>1. WellFormed(entries[k]) /\ HistoryAgrees(entries[k], probes[k], streak[k])
  BY DEF AtomicInv
<1>2. probes[k] <= 2
  BY <1>1 DEF HistoryAgrees
<1>3. ASSUME streak[k] = Threshold
      PROVE  entries[k] # None /\ entries[k].circuit_state # "Closed"
  BY <1>1, <1>3 DEF WellFormed, HistoryAgrees
<1>4. QED
  BY <1>2, <1>3

LEMMA OpenStep ==
  ASSUME AtomicInv, [Atomic!Next]_(Atomic!vars),
         NEW k \in Keys, Atomic!FreshlyOpen(entries[k])
  PROVE  Atomic!StillOpen(k)
<1> USE DEF AtomicInv, Atomic!StillOpen, Atomic!FreshlyOpen
<1>1. ASSUME NEW j \in Keys, Atomic!Probe(j) PROVE Atomic!StillOpen(k)
  BY <1>1 DEF Atomic!Probe, Atomic!Probes
<1>2. ASSUME NEW j \in Keys, Atomic!RecordFailure(j) PROVE Atomic!StillOpen(k)
  <2>1. CASE j = k
    <3>1. Trips(entries[k])
      BY DEF WellFormed, Trips, OrDefault
    <3>2. QED
      BY <1>2, <2>1, <3>1, AfterFailureShape, SameComputations DEF Atomic!RecordFailure
  <2>2. CASE j # k
    BY <1>2, <2>2 DEF Atomic!RecordFailure
  <2>3. QED
    BY <2>1, <2>2
<1>3. ASSUME NEW j \in Keys, Atomic!RecordSuccess(j) PROVE Atomic!StillOpen(k)
  <2>1. entries' = [entries EXCEPT ![j] = Atomic!DefaultEntry]
    BY <1>3, SameComputations, SameShapes, AfterSuccessIsDefault DEF Atomic!RecordSuccess
  <2>2. QED
    BY <2>1
<1>4. ASSUME NEW gone \in SUBSET Keys, Atomic!Remove(gone) PROVE Atomic!StillOpen(k)
  BY <1>4 DEF Atomic!Remove
<1>5. CASE Atomic!Tick
  BY <1>5, ElapseShape, SameComputations DEF Atomic!Tick
<1>6. CASE UNCHANGED Atomic!vars
  BY <1>6 DEF Atomic!vars
<1>7. QED
  BY <1>1, <1>2, <1>3, <1>4, <1>5, <1>6 DEF Atomic!Next

(* The atomic breaker: Threshold failures in a row always leave the key    *)
(* tripped.                                                                *)
THEOREM AtomicStreakTrips == Atomic!Spec => []Atomic!StreakTrips
BY HistoryBounds, AtomicInvariance, AtomicInvIsIInv, PTL

(* The atomic breaker: an open circuit stays open for its TTL, whatever is *)
(* recorded on it, except for a success or a removal.                      *)
THEOREM AtomicOpenHolds == Atomic!Spec => Atomic!OpenHolds
<1>1. AtomicInv /\ [Atomic!Next]_(Atomic!vars) =>
        [\A k \in Keys : Atomic!FreshlyOpen(entries[k]) => Atomic!StillOpen(k)]_(Atomic!vars)
  BY OpenStep
<1>2. QED
  BY <1>1, AtomicInvariance, AtomicInvIsIInv, PTL DEF Atomic!Spec, Atomic!OpenHolds
-----------------------------------------------------------------------------
(* The breaker as it runs, until two calls on a key overlap for the first  *)
(* time.                                                                   *)
LEMMA InitialAlone == Init => AloneInv /\ Atomic!Init
<1> SUFFICES ASSUME Init PROVE AloneInv /\ Atomic!Init
  OBVIOUS
<1>1. Atomic!Init
  BY DEF Init, Atomic!Init
<1>2. AtomicInv
  BY NoHistory DEF Init, AtomicInv, WellFormed
<1>3. QED
  BY <1>1, <1>2, AtomicInvIsIInv, InitialRace, InitialSerial DEF AloneInv, RaceInv

LEMMA AloneStep ==
  ASSUME AloneInv, [Next]_vars
  PROVE  /\ AloneInv'
         /\ alone' => AtomicInv /\ [Atomic!Next]_(Atomic!vars)
<1>1. TypeOK' /\ EntriesWellFormed'
  BY RaceInduction DEF AloneInv, RaceInv
<1>2. ASSUME alone'
      PROVE  /\ SerialInv' /\ AtomicInv
             /\ [Atomic!Next]_(Atomic!vars)
  <2>1. CASE UNCHANGED vars
    <3>1. SerialInv /\ AtomicInv
      BY <1>2, <2>1, AtomicInvIsIInv DEF vars, AloneInv
    <3>2. SerialInv'
      BY <1>1, <2>1, <3>1 DEF vars, SerialInv, StillFits
    <3>3. QED
      BY <2>1, <3>1, <3>2 DEF vars, Atomic!vars
  <2>2. CASE Next
    <3>1. alone /\ Serial
      BY <1>2, <2>2, EveryStepIsWatched DEF Watched
    <3>2. SerialInv /\ AtomicInv
      BY <3>1, AtomicInvIsIInv DEF AloneInv
    <3>3. QED
      BY <2>2, <3>1, <3>2, SerialInduction, SerialStep
  <2>3. QED
    BY <2>1, <2>2
<1>3. ASSUME alone' PROVE Atomic!IInv'
  <2>1. AtomicInv'
    BY <1>2, <1>3, AtomicInduction
  <2>2. AtomicInv' <=> Atomic!IInv'
    BY SameShapes DEF AtomicInv, Atomic!IInv, Atomic!TypeOK
  <2>3. QED
    BY <2>1, <2>2
<1>4. QED
  BY <1>1, <1>2, <1>3 DEF AloneInv

(* Calls that have not overlapped make the breaker the atomic one.         *)
THEOREM AloneRefinement == Spec => ImplementsAtomicBreaker
<1>1. AloneInv /\ [Next]_vars =>
        [alone' => Atomic!Next \/ UNCHANGED Atomic!vars]_vars
  BY AloneStep
<1>2. AloneInv /\ [Next]_vars => AloneInv'
  BY AloneStep
<1>3. QED
  BY <1>1, <1>2, InitialAlone, PTL DEF Spec, ImplementsAtomicBreaker

(* Threshold failures in a row leave the key tripped as long as no call    *)
(* has overlapped another.                                                 *)
THEOREM AloneStreakTrips == Spec => []StreakTrips
<1>1. AloneInv => StreakTrips
  BY AtomicInvIsIInv, HistoryBounds DEF AloneInv, StreakTrips
<1>2. AloneInv /\ [Next]_vars => AloneInv'
  BY AloneStep
<1>3. QED
  BY <1>1, <1>2, InitialAlone, PTL DEF Spec

(* Two requests at most pass a half-open circuit before an outcome is      *)
(* recorded, as long as no call has overlapped another: one more than the  *)
(* documents promise.                                                      *)
THEOREM AloneProbesBounded == Spec => []AtMostTwoProbes
<1>1. AloneInv => AtMostTwoProbes
  BY AtomicInvIsIInv, HistoryBounds DEF AloneInv, AtMostTwoProbes
<1>2. AloneInv /\ [Next]_vars => AloneInv'
  BY AloneStep
<1>3. QED
  BY <1>1, <1>2, InitialAlone, PTL DEF Spec

(* An open circuit stays open for its TTL, whatever is recorded on it,     *)
(* except for a success or a removal, as long as no call has overlapped    *)
(* another.                                                                *)
THEOREM AloneKeepsOpen == Spec => AloneOpenHolds
<1>1. AloneInv /\ [Next]_vars =>
        [alone' => \A k \in Keys :
           Atomic!FreshlyOpen(entries[k]) => Atomic!StillOpen(k)]_vars
  BY AloneStep, OpenStep
<1>2. AloneInv /\ [Next]_vars => AloneInv'
  BY AloneStep
<1>3. QED
  BY <1>1, <1>2, InitialAlone, PTL DEF Spec, AloneOpenHolds
=============================================================================
