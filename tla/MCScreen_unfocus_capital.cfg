SPECIFICATION Spec
CONSTANTS
  c1 = c1
  c2 = c2
  NoClient = NoClient
  Clients = {c1}
  Widths <- OneTab
  UnfocusKey <- CapitalUnfocuses
  Sizes <- OneDim
  AllKeys <- Pressed
  HelpWidth = 57
  HelpRows = 8
INVARIANT FocusCanBeLeft
CHECK_DEADLOCK FALSE
