\* not randomized, and the caller encodes again after an error
SPECIFICATION Spec
CONSTANTS
  NumItems = 4
  NumSparse = 6
  mNumItems = 4
  mSparseSize = 6
  mDenseSize = 2
  mWeight = 3
  mG = 2
  SparseRows <- MCSparseRows
  DenseRows <- MCDenseRows
  Randomize = {FALSE}
  RetryFailed = TRUE
INVARIANT
  DuplicatesRefused
CHECK_DEADLOCK FALSE
