CONSTANTS
  HP = 2
  LP = 2
  FIELDS = 1
  REGS = 2
  GLOBALS = 1
  MADE = 1
SPECIFICATION Spec
PROPERTY SameObjects
CHECK_DEADLOCK FALSE
