SPECIFICATION HSpec
CONSTANTS
  SENSITIVITY = 4
  WINDOW_SIZE = 5
  WINDOW_CENTER = 2
  ONE_SECOND = 2
  FILTER_ORDER = 2
  THRESHOLD_ORDER = 2
  INIT_OFFSET_VALUE = 4
  Modules = {0, 4, 8}
  MaxSteps = 5
INVARIANTS
  TypeOK
  StridesConserved
  MeanIsRecent
PROPERTIES
  StepIsASwing
  StepsAreApart
CHECK_DEADLOCK FALSE
