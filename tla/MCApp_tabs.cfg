SPECIFICATION Spec
CONSTANTS
  api = api
  web = web
  Procs <- Two
  MaxSpawns = 1
  EventCap = 1
  AutoRestart <- Two
  AutoStart <- Two
  StartWhileStopping = FALSE
SYMMETRY Swaps
CHECK_DEADLOCK FALSE
INVARIANT DetachedIsNeverPaused
INVARIANT NothingOutlivesQuit
