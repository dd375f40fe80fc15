SPECIFICATION Spec
CONSTANTS
  c1 = c1
  c2 = c2
  t1 = t1
  t2 = t2
  NoClient = NoClient
  Blank = Blank
  Clients <- TwoClients
  Tabs <- OneTab
  OutputQueueSize = 2
  WireSize = 1
  MaxKeys = 0
  MaxOutput = 0
INVARIANTS
  AttachedIsNeverLost
PROPERTIES
  ClientCatchesUp
  GoodbyeArrives
  FlushEnds
CHECK_DEADLOCK FALSE
