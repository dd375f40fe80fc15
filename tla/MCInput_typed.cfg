SPECIFICATION Spec
CONSTANTS
  QueueSize = 2
  KeyBytes = 2
  PtySize = 1
  MaxKeys = 7
  MaxResizes = 1
INVARIANTS
  QueueIsOneRun
  BytesArriveInOrder
  EveryLossIsTold
PROPERTIES
  ResizeApplies
  WriterGoes
CHECK_DEADLOCK FALSE
