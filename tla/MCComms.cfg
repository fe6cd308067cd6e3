SPECIFICATION MCSpec
CONSTANTS
  Ranks <- ThreeRanks
  Tile <- TwoTiles
  Links <- Pairs
  Tags = {1, 2}
  Operations <- AllOps
  MaxCalls = 9
  Discipline <- AllRules
  Communicators = {"local", "recorded"}
  Calls <- AllCalls
  MaxRecordedCalls = 5
  MaxComms = 2
  Disciplined = TRUE
INVARIANTS ReceivesMatchSends SplitAsMpi RoundsMatch ReplayFaithful NothingUnread
CHECK_DEADLOCK FALSE
