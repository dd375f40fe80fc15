SPECIFICATION Spec
CONSTANTS
  api = api
  web = web
  Procs <- One
  MaxSpawns = 2
  EventCap = 1
  AutoRestart <- One
  AutoStart <- One
  StartWhileStopping = TRUE
CHECK_DEADLOCK FALSE
INVARIANT NothingOutlivesQuit
