SPECIFICATION Spec
CONSTANTS
  ApiKeyValues = {k1, k2, k3}
  KeyCalls = {c1, c2}
  KeyCapacity = 2
  Models = {m1}
  Providers = {p1, p2}
  Creds = {d1, d2}
  MaxDisturbed = 3
  Window = 2
  MaxNow = 4
  AdminWorkers = {w1, w2}
  AdminCalls = {a1, a2}
  NoNonce = NoNonce
  n1 = n1
  n2 = n2
  NonceValues = {n1, n2}
  SignedRequests <- Requests
  HostNames = {h1}
  UrlCalls = {u1, u2}
  VerdictTtl = 3
  ResolveTime = 2
  Values = {"1", "2"}
  MaxStream = 6
  Request = {1, 2, 3}
  Usage <- SomeUsage
  MaxDay = 3
  Asks <- SomeAsks
INVARIANTS
  QuietCacheIsCurrent
  SteadyKeysAreAccepted
  CountedListedScheduled
  ScheduleHoldsWhatStayed
  ScheduleHoldsWhatWasThere
  AcceptedOnce
  VerdictIsRecent
  ChunksDoNotMatter
  FoundAtBlankLine
  ArchiveTypeOK
  EachRequestOnce
  ArchivedTheDayAfter
  StatisticsAreTrue
  NothingCountedTwice
  CountsWhatWasStored
PROPERTY
  ImportKeepsMapsOff
CHECK_DEADLOCK FALSE
