CONSTANTS
  Ids = {a, b}
  MaxOps = 2
  MaxInits = 2
  MaxEvents = 1
  HasOnConnect = TRUE
  KeepAlive = TRUE
SPECIFICATION FairSpec
CHECK_DEADLOCK FALSE
INVARIANT EndReachesAll
PROPERTY SilentAfterComplete
PROPERTY ConnectionDrains
