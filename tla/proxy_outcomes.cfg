\* Both kinds of request, one at a time, all answers, an affinity cache.
SPECIFICATION FairSpec
CONSTANTS
  None = None
  r1 = r1
  r2 = r2
  key = key
  Threshold = 1
  OpenTtl = 1
  Schedule <- MCTwoMaps
  Requests <- MCOneSlot
  ApiKeys <- MCKeys
  Kinds <- MCBothKinds
  Answers <- MCAllAnswers
  Bodies <- MCAllBodies
  ClientsLeave = TRUE
  AdminCalls <- MCNoCalls
INVARIANTS
  TypeOK
  UnavailableMeansAllRefused
  RecordsMatchReplies
PROPERTY EventuallyAnswered
