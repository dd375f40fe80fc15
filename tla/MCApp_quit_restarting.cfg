SPECIFICATION Spec
CONSTANTS
  api = api
  web = web
  Procs <- One
  MaxSpawns = 2
  EventCap = 1
  AutoRestart <- One
  AutoStart <- One
  StartWhileStopping = FALSE
CHECK_DEADLOCK FALSE
PROPERTY QuittingStartsNothing
