SPECIFICATION Spec
CONSTANTS
  q1 = q1
  q2 = q2
  Empty = Empty
  NoMatch = NoMatch
  Queries <- OneQuery
  Rows = 3
  ScrollbackLen = 2
  MaxWrites = 4
INVARIANTS
  TypeOK
  CurrentIsAMatch
PROPERTIES
  JumpShowsMatch
  PinnedWithRoom
