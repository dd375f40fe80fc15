SPECIFICATION Spec
CONSTANTS
  c1 = c1
  c2 = c2
  t1 = t1
  t2 = t2
  NoClient = NoClient
  Blank = Blank
  Clients <- OneClient
  Tabs <- TwoTabs
  OutputQueueSize = 2
  WireSize = 1
  MaxKeys = 1
  MaxOutput = 1
INVARIANTS
  GoodbyeFits
  FramesCompose
  NothingUndrawn
CHECK_DEADLOCK FALSE
