CONSTANTS
  Task = {t1, t2}
  Main = t1
  Mutex = {m}
  Priorities = {1, 2}
  SLICE = 1
  BYTE = 3
  HORIZON = 1
  MaxDelay = 1
  NONE = NONE
SPECIFICATION FairSpec
INVARIANTS TypeOK QueuesMatch WaiterHasOwner 
PROPERTIES JoinIsKept SleepIsLongEnough ReadyRuns SleepersWake
CHECK_DEADLOCK FALSE
