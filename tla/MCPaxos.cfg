\* four items, six sparse and two dense columns, gaps up to two
SPECIFICATION Spec
CONSTANTS
  NumItems = 4
  NumSparse = 6
  mNumItems = 4
  mSparseSize = 6
  mDenseSize = 2
  mWeight = 3
  mG = 2
  SparseRows <- MCSparseRows
  DenseRows <- MCDenseRows
  Randomize = {TRUE, FALSE}
  RetryFailed = FALSE
INVARIANTS
  TypeOK
  WeightsExact
  Triangular
  EveryRowPlaced
  GapEliminated
  SolvedRowsDecode
  DecodeCorrect
  DuplicatesRefused
CHECK_DEADLOCK FALSE
