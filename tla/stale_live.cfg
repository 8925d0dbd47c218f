\* staleness_threshold = 0.5, one task may raise.  One task at a time:
\* max_concurrent_samples is not above MaxRequired - Required * Trigger (see
\* double_count.cfg).  pending_queue never fills, which bounds the states.
CONSTANTS
  Total = 8
  Required = 3
  Trigger = 1
  MaxRequired = 4
  MaxConcurrent = 1
  PendingMax = 9
  TestFreq = 1
  Partial = FALSE
  MaxFaults = 1
SPECIFICATION FairSpec
PROPERTIES Terminates
