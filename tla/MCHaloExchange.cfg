SPECIFICATION FairSpec
CONSTANTS
  Rank <- MCRank
  Out <- MCOut
  In <- MCIn
  Name = {1, 2}
  MaxTag = 3
  MaxCalls = 5
INVARIANTS TypeOK OneUser PendingOwned PoolConserved NothingLeftInMPI
PROPERTIES SendBufferStable ImplementsHaloSpec EveryCallReturns
CHECK_DEADLOCK FALSE
