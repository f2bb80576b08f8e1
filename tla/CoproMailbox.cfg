SPECIFICATION FairSpec
CONSTANTS
  Objects = {o1, o2, o3}
  NULL = NULL
  TRANSLATION_TABLE_SIZE = 2
  WakeKept = FALSE
  PromptLp = TRUE
INVARIANTS
  TypeOK
  TransferIsRight
  FinishedOnlyAtFallback
PROPERTIES
  ReadsEnd
  FallbackIsTaken
