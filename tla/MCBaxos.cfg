SPECIFICATION FairSpec
CONSTANTS
  mNumItems = 5
  mNumBins = 3
  mItemsPerBin = 3
  ThreadCounts = {1, 2, 3}
  PerThrdMaxBinSize <- MCPerThrd
  DecodeBatch = 2
INVARIANTS
  TypeOK
  BinsComplete
  DecodedOnce
PROPERTIES
  SolveEnds
CHECK_DEADLOCK FALSE
