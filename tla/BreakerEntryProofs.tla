------------------------- MODULE BreakerEntryProofs -------------------------
(***************************************************************************)
(* Lemmas about the computations on a breaker entry: what each returns,    *)
(* and that it keeps the shape WellFormed describes.                       *)
(***************************************************************************)
EXTENDS BreakerEntry, TLAPS

USE ThresholdAssumption, OpenTtlAssumption, NoneAssumption

(* The entry of a key that has none.                                       *)
LEMMA DefaultShape ==
  DefaultEntry \in CircuitEntry /\ WellFormed(DefaultEntry)
BY DEF DefaultEntry, CircuitEntry, CircuitState, WellFormed

LEMMA OrDefaultShape ==
  ASSUME NEW slot \in CircuitEntry \cup {None}, WellFormed(slot)
  PROVE  OrDefault(slot) \in CircuitEntry /\ WellFormed(OrDefault(slot))
BY DefaultShape DEF OrDefault

(* The records that the two updates of several fields at once yield.       *)
LEMMA OpenedFields ==
  ASSUME NEW e \in CircuitEntry
  PROVE  [e EXCEPT !.failure_count = Threshold,
                   !.circuit_state = "Open", !.fallback = OpenTtl]
         = [failure_count |-> Threshold, circuit_state |-> "Open",
            half_open_allowed |-> e.half_open_allowed, fallback |-> OpenTtl]
<1>1. ASSUME NEW f,
             f = [e EXCEPT !.failure_count = Threshold,
                           !.circuit_state = "Open", !.fallback = OpenTtl]
      PROVE  f = [failure_count |-> Threshold, circuit_state |-> "Open",
                  half_open_allowed |-> e.half_open_allowed, fallback |-> OpenTtl]
  BY <1>1, Zenon DEF CircuitEntry
<1>2. QED
  BY <1>1, Zenon

LEMMA ClearedFields ==
  ASSUME NEW e \in CircuitEntry
  PROVE  [e EXCEPT !.failure_count = 0, !.circuit_state = "Closed",
                   !.half_open_allowed = FALSE, !.fallback = None]
         = [failure_count |-> 0, circuit_state |-> "Closed",
            half_open_allowed |-> FALSE, fallback |-> None]
<1>1. ASSUME NEW f,
             f = [e EXCEPT !.failure_count = 0, !.circuit_state = "Closed",
                           !.half_open_allowed = FALSE, !.fallback = None]
      PROVE  f = [failure_count |-> 0, circuit_state |-> "Closed",
                  half_open_allowed |-> FALSE, fallback |-> None]
  BY <1>1, Zenon DEF CircuitEntry
<1>2. QED
  BY <1>1, Zenon

LEMMA AfterFailureShape ==
  ASSUME NEW slot \in CircuitEntry \cup {None}, WellFormed(slot)
  PROVE  /\ AfterFailure(slot) \in CircuitEntry
         /\ WellFormed(AfterFailure(slot))
         /\ AfterFailure(slot).circuit_state \in {"Closed", "Open"}
         /\ AfterFailure(slot).circuit_state = "Open" <=> Trips(slot)
         /\ Trips(slot) => AfterFailure(slot).failure_count = Threshold
         /\ ~Trips(slot) => AfterFailure(slot).failure_count
                              = OrDefault(slot).failure_count + 1
<1> DEFINE e == OrDefault(slot)
<1>1. e \in CircuitEntry /\ WellFormed(e)
  BY OrDefaultShape
<1>2. e # None
  BY <1>1
<1> HIDE DEF e
<1>3. CASE e.failure_count + 1 >= Threshold
  <2> DEFINE f == [e EXCEPT !.failure_count = Threshold,
                            !.circuit_state = "Open", !.fallback = OpenTtl]
  <2>1. AfterFailure(slot) = f /\ Trips(slot)
    BY <1>3 DEF AfterFailure, Trips, e
  <2>2. /\ f.failure_count = Threshold
        /\ f.circuit_state = "Open"
        /\ f.fallback = OpenTtl
    BY <1>1 DEF CircuitEntry
  <2>3. f \in CircuitEntry
    <3>1. f = [failure_count |-> Threshold, circuit_state |-> "Open",
               half_open_allowed |-> e.half_open_allowed, fallback |-> OpenTtl]
      BY <1>1, OpenedFields, Zenon
    <3> HIDE DEF f
    <3>2. QED
      BY <1>1, <3>1 DEF CircuitEntry, CircuitState
  <2>4. WellFormed(f)
    BY <2>2 DEF WellFormed
  <2> HIDE DEF f
  <2>5. QED
    BY <2>1, <2>2, <2>3, <2>4
<1>4. CASE ~(e.failure_count + 1 >= Threshold)
  <2>1. e.circuit_state = "Closed" /\ ~e.half_open_allowed /\ e.fallback = None
    BY <1>1, <1>2, <1>4 DEF WellFormed
  <2>2. e.failure_count \in Nat /\ e.failure_count + 1 < Threshold
    BY <1>1, <1>4 DEF CircuitEntry
  <2>3. AfterFailure(slot) = [e EXCEPT !.failure_count = @ + 1]
    BY <1>4 DEF AfterFailure, Trips, e
  <2>4. QED
    BY <1>1, <1>2, <1>4, <2>1, <2>2, <2>3
    DEF Trips, e, CircuitEntry, CircuitState, WellFormed
<1>5. QED
  BY <1>3, <1>4

LEMMA AfterSuccessIsDefault ==
  ASSUME NEW slot \in CircuitEntry \cup {None}, WellFormed(slot)
  PROVE  AfterSuccess(slot) = DefaultEntry
<1> DEFINE e == OrDefault(slot)
           f == [e EXCEPT !.failure_count = 0, !.circuit_state = "Closed",
                          !.half_open_allowed = FALSE, !.fallback = None]
<1>1. e \in CircuitEntry
  BY OrDefaultShape
<1> HIDE DEF e
<1>2. f = [failure_count |-> 0, circuit_state |-> "Closed",
           half_open_allowed |-> FALSE, fallback |-> None]
  BY <1>1, ClearedFields, Zenon
<1>3. QED
  BY <1>2, Zenon DEF AfterSuccess, DefaultEntry, e

LEMMA AfterProbeShape ==
  ASSUME NEW slot \in CircuitEntry \cup {None}, WellFormed(slot), Probes(slot)
  PROVE  /\ AfterProbe(slot) \in CircuitEntry
         /\ WellFormed(AfterProbe(slot))
         /\ AfterProbe(slot).circuit_state = "HalfOpen"
         /\ AfterProbe(slot).half_open_allowed <=> slot.circuit_state = "Open"
BY DEF AfterProbe, Probes, Expired, CircuitEntry, CircuitState, WellFormed

LEMMA ElapseShape ==
  ASSUME NEW slot \in CircuitEntry \cup {None}, WellFormed(slot)
  PROVE  /\ Elapse(slot) \in CircuitEntry \cup {None}
         /\ WellFormed(Elapse(slot))
         /\ Elapse(slot) = None <=> slot = None
         /\ slot # None =>
              /\ Elapse(slot).circuit_state = slot.circuit_state
              /\ Elapse(slot).half_open_allowed = slot.half_open_allowed
              /\ Elapse(slot).failure_count = slot.failure_count
<1>1. CASE slot = None \/ Expired(slot)
  BY <1>1 DEF Elapse
<1>2. CASE ~(slot = None \/ Expired(slot))
  <2>1. slot \in CircuitEntry /\ slot.fallback \in Nat \ {0}
    BY <1>2 DEF Expired, CircuitEntry
  <2>2. Elapse(slot) = [slot EXCEPT !.fallback = @ - 1]
    BY <1>2 DEF Elapse
  <2>3. Elapse(slot) \in CircuitEntry
    BY <2>1, <2>2 DEF CircuitEntry
  <2>4. QED
    BY <1>2, <2>1, <2>2, <2>3 DEF CircuitEntry, WellFormed
<1>3. QED
  BY <1>1, <1>2

(* Every computation leaves an entry that agrees with its history again.   *)
LEMMA NoHistory ==
  HistoryAgrees(None, 0, 0) /\ HistoryAgrees(DefaultEntry, 0, 0)
BY DefaultShape DEF HistoryAgrees, DefaultEntry

LEMMA ProbeKeepsHistory ==
  ASSUME NEW slot \in CircuitEntry \cup {None}, NEW p \in Nat, NEW s \in 0..Threshold,
         WellFormed(slot), HistoryAgrees(slot, p, s), Probes(slot)
  PROVE  HistoryAgrees(AfterProbe(slot), p + 1, s)
<1>1. /\ slot # None
      /\ \/ slot.circuit_state = "Open" /\ p = 0
         \/ slot.circuit_state = "HalfOpen" /\ slot.half_open_allowed /\ p = 1
  BY DEF Probes, HistoryAgrees
<1>2. /\ AfterProbe(slot) # None
      /\ AfterProbe(slot).circuit_state = "HalfOpen"
      /\ AfterProbe(slot).half_open_allowed <=> slot.circuit_state = "Open"
  BY AfterProbeShape
<1>3. p + 1 = IF AfterProbe(slot).half_open_allowed THEN 1 ELSE 2
  BY <1>1, <1>2
<1>4. QED
  BY <1>2, <1>3, Zenon DEF HistoryAgrees

LEMMA FailureKeepsHistory ==
  ASSUME NEW slot \in CircuitEntry \cup {None}, NEW p \in Nat, NEW s \in 0..Threshold,
         WellFormed(slot), HistoryAgrees(slot, p, s)
  PROVE  HistoryAgrees(AfterFailure(slot), IF Trips(slot) THEN 0 ELSE p,
                       IF s < Threshold THEN s + 1 ELSE s)
<1>1. CASE Trips(slot)
  BY <1>1, AfterFailureShape DEF HistoryAgrees
<1>2. CASE ~Trips(slot)
  <2>1. /\ AfterFailure(slot) # None
        /\ AfterFailure(slot).circuit_state = "Closed"
        /\ AfterFailure(slot).failure_count = OrDefault(slot).failure_count + 1
    BY <1>2, AfterFailureShape
  <2>2. OrDefault(slot).failure_count < Threshold
    BY <1>2, OrDefaultShape DEF Trips, CircuitEntry
  <2>3. slot # None => slot.circuit_state = "Closed"
    BY <1>2, <2>2 DEF WellFormed, OrDefault
  <2>4. p = 0 /\ s = OrDefault(slot).failure_count
    BY <2>3 DEF HistoryAgrees, OrDefault, DefaultEntry
  <2>5. QED
    BY <1>2, <2>1, <2>2, <2>4 DEF HistoryAgrees
<1>3. QED
  BY <1>1, <1>2

LEMMA ElapseKeepsHistory ==
  ASSUME NEW slot \in CircuitEntry \cup {None}, NEW p \in Nat, NEW s \in 0..Threshold,
         WellFormed(slot), HistoryAgrees(slot, p, s)
  PROVE  HistoryAgrees(Elapse(slot), p, s)
BY ElapseShape DEF HistoryAgrees
=============================================================================
