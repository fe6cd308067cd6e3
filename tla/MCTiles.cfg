SPECIFICATION MCSpec
CONSTANTS
  Users = {"transfer", "netcdf", "zarr"}
  TransferNames <- MCNames
  Dims <- MCDims
  Layouts <- MCLayouts
  Ratios <- MCRatios
  Sizes <- MCSizes
  Orders <- MCOrders
  Size = 2
  NetCDFVariables <- MCVariables
  NetCDFPrograms <- MCNetCDFPrograms
  ChunkSizes = {1, 2, 3}
  Layout <- MCLayout
  Names <- MCZarrNames
  Dim <- MCDim
  Cells = 6
  Programs <- MCZarrPrograms
INVARIANTS BackInPlace StatesAreWhole ZarrStatesAreStored ZarrWritesInsideArray
PROPERTIES TransfersEnd StatesAreKept EveryZarrStoreEnds
CHECK_DEADLOCK FALSE
