\* Two callers ask for a key whose circuit has just expired.
SPECIFICATION Spec
CONSTANTS
  None = None
  k1 = k1
  k2 = k2
  cred = cred
  c1 = c1
  c2 = c2
  c3 = c3
  Threshold = 2
  OpenTtl = 1
  Keys <- MCKeys
  Credentials <- MCCredentials
  CredentialOf <- MCCredentialOf
  Unparsable <- MCUnparsableKey
  Capacity = 1
  Callers <- MCTwoCallers
INVARIANT SingleProbe
