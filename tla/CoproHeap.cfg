CONSTANTS
  WORD = 2
  SLOTS = 1
  UNITS = 3
  SKIP = 1
  MaxLen = 2
  FIELDS = 1
SPECIFICATION Spec
INVARIANTS TypeOK BlocksIntact NothingLiveIsTaken
CHECK_DEADLOCK FALSE
