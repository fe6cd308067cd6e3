SPECIFICATION MCSpec
CONSTANTS
  Users = {"netcdf"}
  TransferNames <- MCNames
  Dims <- MCDims
  Layouts <- MCLayouts
  Ratios <- MCRatios
  Sizes <- MCSizes
  Orders <- MCOrders
  Size = 1
  NetCDFVariables <- MCVariables
  NetCDFPrograms <- MCCleanupEarly
  ChunkSizes = {1, 2, 3}
  Layout <- MCLayout
  Names <- MCZarrNames
  Dim <- MCDim
  Cells = 6
  Programs <- MCZarrPrograms
INVARIANT NoTimeLost
CHECK_DEADLOCK FALSE
