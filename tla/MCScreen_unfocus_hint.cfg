SPECIFICATION Spec
CONSTANTS
  c1 = c1
  c2 = c2
  NoClient = NoClient
  Clients = {c1}
  Widths <- ThreeTabs
  UnfocusKey <- CustomKeys
  Sizes <- OneDim
  AllKeys <- Pressed
  HelpWidth = 57
  HelpRows = 8
INVARIANT HintsHold
CHECK_DEADLOCK FALSE
