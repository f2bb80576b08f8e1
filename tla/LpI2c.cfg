CONSTANTS
  FIFO = 3
  LIMIT = 7
  SizeMax = 8
  TICKS = TRUE
SPECIFICATION Spec
INVARIANTS TypeOK OkMeansDone FifosFit
