\* Three LLM steps, up to two tool results each, one restart.
SPECIFICATION Spec
CONSTANTS
  MaxSteps = 3
  MaxBatch = 2
  MaxCrashes = 1
INVARIANTS
  HumanAfterPendingMeansAnswered
CHECK_DEADLOCK FALSE
