\* The end of the process after a signal.
SPECIFICATION Spec
CONSTANTS
  MaxRecords = 2
  ChannelSize = 2
  BatchSize = 2
INVARIANT FlushedBeforeExit
CHECK_DEADLOCK FALSE
