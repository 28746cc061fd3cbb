\* Two callers race on two keys, one of which parse_key rejects; a reset and an
\* eviction may cut in.
SPECIFICATION Spec
CONSTANTS
  None = None
  k1 = k1
  k2 = k2
  cred = cred
  c1 = c1
  c2 = c2
  c3 = c3
  Threshold = 2
  OpenTtl = 1
  Keys <- MCKeys
  Credentials <- MCCredentials
  CredentialOf <- MCCredentialOf
  Unparsable <- MCUnparsableKey
  Capacity = 1
  Callers <- MCTwoCallers
INVARIANTS
  TypeOK
  EntriesWellFormed
  ListedIsOpen
  StreakTrips
PROPERTIES
  ImplementsAtomicBreaker
  AloneOpenHolds
