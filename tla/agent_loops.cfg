\* A tool loop and a single-turn loop; responses of at most six tokens.
CONSTANTS
  r1 = r1
  r2 = r2
  s1 = s1
  Rollouts <- MCRollouts
  Servers <- MCServers
  ToolRollouts <- MCTools
  Turns <- MCTurns
  TurnLen <- MCTurnLen
  ResponseLength = 6
  Unbuilt = {}
  MaxSyncs = 2
  MaxRaises = 1
SPECIFICATION FairSpec
INVARIANTS QuietServers StartCovers WholeSingle
PROPERTIES Uninterrupted CancelEnds Finishes
CHECK_DEADLOCK FALSE
