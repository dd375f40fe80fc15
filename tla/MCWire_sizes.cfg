SPECIFICATION Spec
CONSTANTS
  bare = bare
  event = event
  odd = odd
  bad = bad
  huge = huge
  Messages <- Kinds
  Size <- SizeOf
  Odd = {odd}
  Unexpected = {bad}
  HeaderLen = 5
  MaxFrameLen = 2
  PipeSize = 4
  MaxSent = 3
INVARIANT AllSizesArrive
CHECK_DEADLOCK FALSE
