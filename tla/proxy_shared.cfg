\* Two requests on one circuit and one credential, whose outcomes are all recorded.
SPECIFICATION FairSpec
CONSTANTS
  None = None
  r1 = r1
  r2 = r2
  key = key
  Threshold = 1
  OpenTtl = 1
  Schedule <- MCOneCandidate
  Requests <- MCTwoSlots
  ApiKeys <- MCNoKeys
  Kinds <- MCBothKinds
  Answers <- MCRecordedAnswers
  Bodies <- MCWholeBodies
  ClientsLeave = FALSE
  AdminCalls <- MCAllCalls
INVARIANT SomebodyProbes
PROPERTIES
  NeverDeniedForGood
  ExhaustedIsLeftAlone
