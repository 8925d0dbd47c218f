\* Two actor and two rollout ranks, two synchronizations, one of which may fail.
CONSTANTS
  ActorNum = 2
  RolloutNum = 2
  Buffer = 3
  Layouts <- MCLayouts
  MaxRounds = 2
  MaxFailures = 1
SPECIFICATION FairSpec
INVARIANTS Fits HalvesApart Alternates CallsMatch Delivered Together
PROPERTIES Finishes
CHECK_DEADLOCK FALSE
