\* Streams that break inside the response, one after the other.
SPECIFICATION Spec
CONSTANTS
  None = None
  r1 = r1
  r2 = r2
  key = key
  Threshold = 2
  OpenTtl = 1
  Schedule <- MCOneCandidate
  Requests <- MCOneSlot
  ApiKeys <- MCNoKeys
  Kinds <- MCStreams
  Answers <- MCAllAnswers
  Bodies <- MCAllBodies
  ClientsLeave = FALSE
  AdminCalls <- MCNoCalls
INVARIANT FailingIsTripped
