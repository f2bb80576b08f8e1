SPECIFICATION FairSpec
CONSTANTS
  BATCH = 3
  PERIOD = 20
  MaxLog = 5
  MaxRows = 3
  NULL = NULL
INVARIANTS
  TypeOK
  BatchCameBack
PROPERTIES
  LogIsFaithful
  KeepsMeasuring
CHECK_DEADLOCK FALSE
