\* Interrupted samples after a synchronization, with partial rollout.
CONSTANTS
  Total = 6
  Required = 2
  Trigger = 1
  MaxRequired = 3
  MaxConcurrent = 2
  PendingMax = 3
  TestFreq = 1
  Partial = TRUE
  MaxFaults = 0
SPECIFICATION Spec
INVARIANTS InterruptedContinue
CHECK_DEADLOCK FALSE
