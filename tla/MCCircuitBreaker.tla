-------------------------- MODULE MCCircuitBreaker --------------------------
(* The circuit breaker on two keys of one credential.                        *)
EXTENDS CircuitBreaker, TLC

CONSTANTS k1, k2, cred, c1, c2, c3

MCKeys == {k1, k2}
MCOneKey == {k1}
MCCredentials == {cred}
MCCredentialOf == [k \in MCKeys |-> cred]
MCOneCredentialOf == [k \in MCOneKey |-> cred]
MCNoKeys == {}

MCUnparsableKey == {k2}
MCTwoCallers == {c1, c2}
MCThreeCallers == {c1, c2, c3}
=============================================================================
