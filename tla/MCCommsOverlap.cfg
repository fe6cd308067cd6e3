SPECIFICATION MCSpec
CONSTANTS
  Ranks <- ThreeRanks
  Tile <- TwoTiles
  Links <- Pairs
  Tags = {1, 2}
  Operations <- AllOps
  MaxCalls = 0
  Discipline <- AllRules
  Communicators = {"recorded"}
  Calls = {"Irecv"}
  MaxRecordedCalls = 5
  MaxComms = 1
  Disciplined = FALSE
INVARIANT ReplayFaithful
CHECK_DEADLOCK FALSE
