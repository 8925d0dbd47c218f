\* staleness_threshold = 0: three rounds of two training steps of two samples;
\* partial rollout is on, and one generation task may raise.
CONSTANTS
  Total = 9
  Required = 2
  Trigger = 2
  MaxRequired = 4
  MaxConcurrent = 2
  PendingMax = 3
  TestFreq = 2
  Partial = TRUE
  MaxFaults = 1
SPECIFICATION FairSpec
INVARIANTS TypeOK QuietSync FinalValidated
PROPERTIES OnPolicy Terminates
