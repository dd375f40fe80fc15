SPECIFICATION Spec
CONSTANTS
  c1 = c1
  c2 = c2
  t1 = t1
  t2 = t2
  NoClient = NoClient
  Blank = Blank
  Clients <- OneClient
  Tabs <- OneTab
  OutputQueueSize = 2
  WireSize = 1
  MaxKeys = 0
  MaxOutput = 0
INVARIANT LostMeansDied
CHECK_DEADLOCK FALSE
