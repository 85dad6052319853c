SPECIFICATION Spec
CONSTANTS
  o1 = o1
  o2 = o2
  o3 = o3
  x = x
  y = y
  p0 = p0
  p1 = p1
  e0 = e0
  e1 = e1
  Objects <- MCObjects
  Apps <- MCApps
  AppOf <- MCAppOf
  None = None
  Lists <- MCLists
  Kinds <- MCKinds
  Positions <- MCPositions
  Zero = p0
  Extras <- MCExtras
  NoExtra = e0
  QueueCapacity = 2
  MaxHandlers = 2
CHECK_DEADLOCK FALSE
INVARIANTS
  TypeOK
  WatchesSelected
  WatchedHasHandlers
  ListIsSeen
  NothingKnownUntold
