SPECIFICATION Spec
CONSTANTS
  None = None
  MaxSubmits = 2
  MaxWrites = 1
INVARIANTS  FailureHeard LateAnswersKeepOut EditsKept
PROPERTY PolledCatchesUp
CHECK_DEADLOCK FALSE
