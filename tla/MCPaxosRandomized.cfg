\* randomized encodings only: rows in the gap that repeat no main row
SPECIFICATION Spec
CONSTANTS
  NumItems = 4
  NumSparse = 6
  mNumItems = 4
  mSparseSize = 6
  mDenseSize = 2
  mWeight = 3
  mG = 2
  SparseRows <- MCSparseRows
  DenseRows <- MCDenseRows
  Randomize = {TRUE}
  RetryFailed = FALSE
INVARIANT
  EveryKeyDecodes
CHECK_DEADLOCK FALSE
