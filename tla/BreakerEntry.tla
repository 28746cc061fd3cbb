---------------------------- MODULE BreakerEntry ----------------------------
(***************************************************************************)
(* One entry of the circuit breaker (util/penalty.rs) and the four         *)
(* computations the breaker makes on an entry it has read.                 *)
(*                                                                         *)
(* Time: `fallback` is an Instant in the code and the number of ticks that *)
(* are left until that Instant here, 0 once it has passed.  The code only  *)
(* ever asks whether the Instant has passed.                               *)
(*                                                                         *)
(* failure_count saturates at Threshold: the code compares it with the     *)
(* threshold by >=, increments it and zeroes it, so larger values are not  *)
(* told apart (the u32 would wrap after 2^32 failures in a row).  A        *)
(* configured threshold of 0 behaves as 1.                                 *)
(***************************************************************************)
EXTENDS Naturals

CONSTANTS
  Threshold,   \* CIRCUIT_BREAKER_THRESHOLD, failures that trip a key
  OpenTtl,     \* CIRCUIT_BREAKER_OPEN_TTL, in ticks
  None         \* Rust's Option::None: no entry, no expiry, no call

ASSUME ThresholdAssumption == Threshold \in Nat \ {0}
ASSUME OpenTtlAssumption == OpenTtl \in Nat

CircuitState == {"Closed", "Open", "HalfOpen"}

CircuitEntry ==
  [failure_count : 0..Threshold,
   circuit_state : CircuitState,
   half_open_allowed : BOOLEAN,
   fallback : 0..OpenTtl \cup {None}]

ASSUME NoneAssumption == None \notin Nat /\ None \notin CircuitEntry

DefaultEntry ==
  [failure_count |-> 0, circuit_state |-> "Closed",
   half_open_allowed |-> FALSE, fallback |-> None]

(* entries.get(&key).unwrap_or_default()                                   *)
OrDefault(slot) == IF slot = None THEN DefaultEntry ELSE slot

(* One more failure; the one that reaches the threshold opens the circuit. *)
(* half_open_allowed keeps whatever value it had.                          *)
\* Mutant: the threshold compared by > instead of >=.
TripsLate(slot) == OrDefault(slot).failure_count + 1 > Threshold

Trips(slot) == OrDefault(slot).failure_count + 1 >= Threshold

\* Mutant: the expiry is set one tick late.
AfterFailureLate(slot) ==
  IF Trips(slot)
  THEN [OrDefault(slot) EXCEPT !.failure_count = Threshold,
                               !.circuit_state = "Open",
                               !.fallback = OpenTtl + 1]
  ELSE [OrDefault(slot) EXCEPT !.failure_count = @ + 1]

AfterFailure(slot) ==
  IF Trips(slot)
  THEN [OrDefault(slot) EXCEPT !.failure_count = Threshold,
                               !.circuit_state = "Open",
                               !.fallback = OpenTtl]
  ELSE [OrDefault(slot) EXCEPT !.failure_count = @ + 1]

\* Mutants: a success forgets to clear the permit, or the expiry.
AfterSuccessKeepsPermit(slot) ==
  [OrDefault(slot) EXCEPT !.failure_count = 0, !.circuit_state = "Closed",
                          !.fallback = None]

AfterSuccessKeepsExpiry(slot) ==
  [OrDefault(slot) EXCEPT !.failure_count = 0, !.circuit_state = "Closed",
                          !.half_open_allowed = FALSE]

(* A success writes all four fields, whatever they were.                   *)
AfterSuccess(slot) ==
  [OrDefault(slot) EXCEPT !.failure_count = 0, !.circuit_state = "Closed",
                          !.half_open_allowed = FALSE, !.fallback = None]

(* The three answers of is_allowed.  A probe is the only one that writes:  *)
(* an expired Open entry becomes HalfOpen with its permit still set, and a *)
(* HalfOpen entry gives its permit away.                                   *)
Expired(entry) == entry.fallback \in {None, 0}

Passes(slot) == slot = None \/ slot.circuit_state = "Closed"

\* Mutants: is_allowed looks at the permit alone, or not at the expiry.
ProbesByPermit(slot) == slot # None /\ slot.half_open_allowed

ProbesEarly(slot) ==
  /\ slot # None
  /\ \/ slot.circuit_state = "Open"
     \/ slot.circuit_state = "HalfOpen" /\ slot.half_open_allowed

Probes(slot) ==
  /\ slot # None
  /\ \/ slot.circuit_state = "Open" /\ Expired(slot)
     \/ slot.circuit_state = "HalfOpen" /\ slot.half_open_allowed

Denied(slot) == ~Passes(slot) /\ ~Probes(slot)

\* Mutant: the probe closes the circuit.
AfterProbeCloses(entry) == DefaultEntry

AfterProbe(entry) ==
  [entry EXCEPT !.circuit_state = "HalfOpen",
                !.half_open_allowed = (entry.circuit_state = "Open")]

(* list_blocked_models reports the entries whose expiry is in the future.  *)
Listed(slot) == slot # None /\ ~Expired(slot)

(* One tick of the clock, seen by an entry.                                *)
Elapse(slot) ==
  IF slot = None \/ Expired(slot) THEN slot
  ELSE [slot EXCEPT !.fallback = @ - 1]

(* The states an entry can be in.  Closed entries are below the threshold  *)
(* and carry no expiry, Open ones carry one (so the `None => true` arm of  *)
(* is_allowed is never taken) and HalfOpen ones have an expiry that has    *)
(* passed.                                                                 *)
WellFormed(slot) ==
  \/ slot = None
  \/ /\ slot.circuit_state = "Closed"
     /\ slot.failure_count < Threshold
     /\ ~slot.half_open_allowed
     /\ slot.fallback = None
  \/ /\ slot.circuit_state = "Open"
     /\ slot.failure_count = Threshold
     /\ slot.fallback # None
  \/ /\ slot.circuit_state = "HalfOpen"
     /\ slot.failure_count = Threshold
     /\ slot.fallback = 0

(* What the history of a key is in each state of its entry: p half-open    *)
(* admissions since it last opened, s failures since its last success or   *)
(* removal.                                                                *)
HistoryAgrees(slot, p, s) ==
  \/ /\ slot = None
     /\ p = 0 /\ s = 0
  \/ /\ slot # None /\ slot.circuit_state = "Closed"
     /\ p = 0 /\ s = slot.failure_count
  \/ /\ slot # None /\ slot.circuit_state = "Open"
     /\ p = 0
  \/ /\ slot # None /\ slot.circuit_state = "HalfOpen"
     /\ p = IF slot.half_open_allowed THEN 1 ELSE 2
=============================================================================
