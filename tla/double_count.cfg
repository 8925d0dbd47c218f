\* staleness_threshold = 0.5 of three samples, without partial rollout.
CONSTANTS
  Total = 8
  Required = 3
  Trigger = 1
  MaxRequired = 4
  MaxConcurrent = 2
  PendingMax = 3
  TestFreq = 1
  Partial = FALSE
  MaxFaults = 0
SPECIFICATION Spec
INVARIANTS StreamContinues
CHECK_DEADLOCK FALSE
