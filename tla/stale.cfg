\* staleness_threshold = 0.5: one sample ahead of the synchronization.
CONSTANTS
  Total = 8
  Required = 2
  Trigger = 1
  MaxRequired = 3
  MaxConcurrent = 2
  PendingMax = 3
  TestFreq = 1
  Partial = FALSE
  MaxFaults = 0
SPECIFICATION Spec
INVARIANTS ProcessorSurvives NothingStranded ValidationDrained OvershootByOne
PROPERTIES BoundedLag
