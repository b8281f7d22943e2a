SPECIFICATION Spec
CONSTANTS
  MaxMessages = 4
  MaxTranscript = 3
  QueueCapacity = 1
  MaxQueuedBytes = 1
INVARIANTS
  OneAnswerEach
  BudgetIsExact
  OverflowIsTold
  FailedTurnIsForgotten
  RequestsAreWhole
PROPERTIES
  GoneIsNoticed
CHECK_DEADLOCK FALSE
