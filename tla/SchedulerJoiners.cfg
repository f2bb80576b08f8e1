CONSTANTS
  NONE = NONE
  Task = {t1, t2, t3}
  Main = t1
  Mutex = {m}
  Priorities = {1}
  SLICE = 1
  BYTE = 3
  HORIZON = 0
  MaxDelay = 0
SPECIFICATION Spec
PROPERTY JoinersReleased
CHECK_DEADLOCK FALSE
