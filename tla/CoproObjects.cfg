CONSTANTS
  HP = 2
  LP = 2
  FIELDS = 1
  REGS = 2
  GLOBALS = 1
  MADE = 1
SPECIFICATION Spec
INVARIANTS TypeOK CountsCover NothingDangles ReadsAreAnswered
PROPERTY SameUnlessMisread
CHECK_DEADLOCK FALSE
