SPECIFICATION Spec
CONSTANTS
  Layouts <- MCLayouts
  CellCounts = {1, 2, 3}
  EdgeCellCounts = {1, 2}
  HaloWidths = {1, 2}
INVARIANTS
  EveryPointInPlace HaloComplete OneBoundaryEachWay
  EdgesInPlace SharedEdgesAgree EverySendHasAReceiver
CHECK_DEADLOCK FALSE
