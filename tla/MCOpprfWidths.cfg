\* a width between one and two blocks whose outputs end off a block boundary
SPECIFICATION Spec
CONSTANTS
  Items = {1, 2, 3}
  ReceiverSets <- MCReceiverSets
  SenderSets <- MCSenderSets
  Sizes = {5}
  Types = {"GCT"}
  Chunk = 4
  Lanes = 2
  VoleScripts <- MCScripts
  Row <- MCRow
  Own <- MCOwn
  Callers = {"opprf"}
  Widths = {4, 5}
  BlockSize = 4
  MayDie = FALSE
INVARIANT
  ProgramsAlways
CHECK_DEADLOCK FALSE
