CONSTANTS
  WORD = 2
  SLOTS = 4
  UNITS = 0
  SKIP = 1
  MaxLen = 1
  FIELDS = 1
SPECIFICATION Spec
INVARIANT FrozenStays
CHECK_DEADLOCK FALSE
