\* An outage: callers fail and are never answered, nothing succeeds.
SPECIFICATION StormSpec
CONSTANTS
  None = None
  k1 = k1
  k2 = k2
  cred = cred
  c1 = c1
  c2 = c2
  c3 = c3
  Threshold = 3
  OpenTtl = 1
  Keys <- MCOneKey
  Credentials <- MCCredentials
  CredentialOf <- MCOneCredentialOf
  Unparsable <- MCNoKeys
  Capacity = 1
  Callers <- MCThreeCallers
PROPERTY OutageTrips
