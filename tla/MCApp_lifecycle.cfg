SPECIFICATION Spec
CONSTANTS
  api = api
  web = web
  Procs <- One
  MaxSpawns = 3
  EventCap = 2
  AutoRestart <- One
  AutoStart <- One
  StartWhileStopping = FALSE
CHECK_DEADLOCK FALSE
INVARIANT ReportOwed
INVARIANT TabTellsTruth
INVARIANT NoChildLeftUntold
PROPERTY QuittingIsFinal
PROPERTY KeepsPromise
PROPERTY StoppingEnds
PROPERTY DownCompletes
PROPERTY RestartHappens
