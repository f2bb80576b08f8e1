SPECIFICATION FairSpec
CONSTANTS
  BATCH = 3
  PERIOD = 20
  MaxLog = 5
  NULL = NULL
INVARIANTS
  TypeOK
  BufferHandover
PROPERTIES
  LogIsFaithful
  KeepsLogging
CHECK_DEADLOCK FALSE
