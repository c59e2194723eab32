SPECIFICATION FairSpec
CONSTANTS
  Items = {1, 2, 3}
  ReceiverSets <- MCReceiverSets
  SenderSets <- MCSenderSets
  Sizes = {5, 7, 8, 11}
  Types = {"GCT", "RBMatrix"}
  Chunk = 4
  Lanes = 2
  VoleScripts <- MCScripts
  Row <- MCRow
  Own <- MCOwn
  Callers = {"psi", "opprf"}
  Widths = {3, 4, 5, 8}
  BlockSize = 4
  MayDie = TRUE
INVARIANTS
  TypeOK
  SameFunction
  IntersectionCorrect
  Programs
  DrainedAtEnd
PROPERTIES
  BothEnd
CHECK_DEADLOCK FALSE
