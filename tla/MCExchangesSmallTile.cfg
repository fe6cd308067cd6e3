SPECIFICATION Spec
CONSTANTS
  Layouts <- SmallTile
  CellCounts = {2}
  EdgeCellCounts = {}
  HaloWidths = {1}
INVARIANT UpdatersPointsInPlace
CHECK_DEADLOCK FALSE
