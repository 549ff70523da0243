CONSTANTS
  MaxFibers = 2
  MaxChans = 0
  Capacities = {1}
  Handles = {1}
  MaxTime = 0
  Ops = {"spawn", "await", "socket"}
  Selects <- NoSelects
  Workers = {w1, w2}
  EventBuffer = 2
  Fuel = 2
  MayPanic = FALSE
  PollerFirst = FALSE
SPECIFICATION DriveSpec
INVARIANTS CompletionInterruptsPoll
