SPECIFICATION Spec
CONSTANTS
  QueueSize = 2
  KeyBytes = 2
  PtySize = 1
  MaxKeys = 5
  MaxResizes = 1
CHECK_DEADLOCK FALSE
INVARIANT LosesATail
