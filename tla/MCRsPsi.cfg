SPECIFICATION FairSpec
CONSTANTS
  mRecverSize = 3
  mSenderSize = 4
  Foreign = {f}
  ThreadCounts = {1, 2}
  MaskSizes = {3, 4}
  BlockSize = 4
  MoveLimit = 3
INVARIANTS
  TypeOK
  SentIntact
  HashesIntact
  FindReady
  ResultCorrect
PROPERTIES
  RunEnds
CHECK_DEADLOCK FALSE
