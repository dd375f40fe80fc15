SPECIFICATION Spec
CONSTANTS
  q1 = q1
  q2 = q2
  Empty = Empty
  NoMatch = NoMatch
  Queries <- OneQuery
  Rows = 3
  ScrollbackLen = 3
  MaxWrites = 4
INVARIANT PrevMoves
