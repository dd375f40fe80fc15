SPECIFICATION Spec
CONSTANTS
  api = api
  web = web
  Procs <- One
  MaxSpawns = 1
  EventCap = 2
  AutoRestart <- One
  AutoStart <- One
  StartWhileStopping = FALSE
CHECK_DEADLOCK FALSE
INVARIANT PausedIsScrolledBack
