SPECIFICATION Spec
CONSTANTS
  mRecverSize = 2
  mSenderSize = 2
  Foreign = {f}
  ThreadCounts = {3}
  MaskSizes = {4}
  BlockSize = 4
  MoveLimit = 3
INVARIANT
  ResultIsIntersection
CHECK_DEADLOCK FALSE
