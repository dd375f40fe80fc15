SPECIFICATION Spec
CONSTANTS
  q1 = q1
  q2 = q2
  Empty = Empty
  NoMatch = NoMatch
  Queries <- OneQuery
  Rows = 2
  ScrollbackLen = 2
  MaxWrites = 3
PROPERTY PinnedToContent
