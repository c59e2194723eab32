SPECIFICATION FairSpec
CONSTANTS
  User_Num = 3
  Items = {x, y}
  Set_Size = 1
  Thread_Num = 2
  MaxCrashes = 2
  FailingEncodes <- AllParties
PROPERTIES
  ImplementsIdeal
  ConnectedRunsEnd
CHECK_DEADLOCK FALSE
