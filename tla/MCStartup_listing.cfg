SPECIFICATION Spec
CONSTANTS
  u1 = u1
  u2 = u2
  d1 = d1
  l1 = l1
  None = None
  Ups <- TwoUps
  Downs <- NoOne
  Listers <- OneLister
  MaxPolls = 1
CHECK_DEADLOCK FALSE
INVARIANT ListedByConfig
