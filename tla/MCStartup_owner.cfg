SPECIFICATION Spec
CONSTANTS
  u1 = u1
  u2 = u2
  d1 = d1
  l1 = l1
  None = None
  Ups <- TwoUps
  Downs <- OneDown
  Listers <- OneLister
  MaxPolls = 2
CHECK_DEADLOCK FALSE
INVARIANTS
  OneOwner
  BindFindsPathFree
  ReachableIsOwner
  DownFrees
PROPERTIES
  UpEnds
  DownEnds
