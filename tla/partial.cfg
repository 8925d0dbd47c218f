\* staleness_threshold = 0.5 with partial rollout; it can stop (see starved.cfg).
CONSTANTS
  Total = 6
  Required = 2
  Trigger = 1
  MaxRequired = 3
  MaxConcurrent = 2
  PendingMax = 3
  TestFreq = 1
  Partial = TRUE
  MaxFaults = 0
SPECIFICATION Spec
INVARIANTS Conservation
CHECK_DEADLOCK FALSE
