\* A channel of two and batches of two.
SPECIFICATION Spec
CONSTANTS
  MaxRecords = 6
  ChannelSize = 2
  BatchSize = 2
INVARIANTS
  TypeOK
  EachRecordOnce
PROPERTIES
  EventuallyWritten
  ImplementsUsageAccount
CHECK_DEADLOCK FALSE
