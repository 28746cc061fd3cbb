\* One circuit and every answer: probes whose outcome is never recorded.
SPECIFICATION FairSpec
CONSTANTS
  None = None
  r1 = r1
  r2 = r2
  key = key
  Threshold = 1
  OpenTtl = 1
  Schedule <- MCOneCandidate
  Requests <- MCOneSlot
  ApiKeys <- MCNoKeys
  Kinds <- MCWhole
  Answers <- MCAllAnswers
  Bodies <- MCAllBodies
  ClientsLeave = FALSE
  AdminCalls <- MCNoCalls
PROPERTY NeverDeniedForGood
