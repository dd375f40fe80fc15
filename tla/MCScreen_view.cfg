SPECIFICATION Spec
CONSTANTS
  c1 = c1
  c2 = c2
  NoClient = NoClient
  Clients = {c1, c2}
  Widths <- ThreeTabs
  UnfocusKey <- EscUnfocuses
  Sizes <- Dims
  AllKeys <- Pressed
  HelpWidth = 57
  HelpRows = 8
INVARIANTS
  SizesAgree
  ClickHits
  BarIsFull
  ModeIsOwn
  HintsHold
CHECK_DEADLOCK FALSE
