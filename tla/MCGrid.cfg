SPECIFICATION MCSpec
CONSTANTS
  Ranks = {r1, r2}
  GridTypes = {"cubed", "external", "cartesian"}
  Programs <- MCPrograms
  MaxVersion = 2
  Fills <- MCFills
  Domains <- MCDomains
  HaloWidths = {2, 3}
  Levels <- MCLevels
INVARIANTS ExchangedOnce ObjectsHoldTheirTerms CornersTurned AccessesFit
PROPERTY LazyIsEager
CHECK_DEADLOCK FALSE
