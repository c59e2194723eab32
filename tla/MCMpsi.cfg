SPECIFICATION FairSpec
CONSTANTS
  User_Num = 4
  Items = {x, y, z}
  Set_Size = 2
  Thread_Num = 1
  MaxCrashes = 0
  FailingEncodes = {}
INVARIANTS
  TypeOK
  NoFalsePositive
  DrainedAtClose
PROPERTIES
  ImplementsIdeal
  EveryoneFinishes
CHECK_DEADLOCK FALSE
