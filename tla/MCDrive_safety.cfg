CONSTANTS
  MaxFibers = 3
  MaxChans = 0
  Capacities = {1}
  Handles = {1}
  MaxTime = 1
  Ops = {"spawn", "sleep", "yield", "trap", "select", "await", "socket", "join"}
  Selects <- SocketSelects
  Workers = {w1, w2}
  EventBuffer = 1
  Fuel = 2
  MayPanic = TRUE
  PollerFirst = FALSE
CHECK_DEADLOCK FALSE
SPECIFICATION DriveSpec
INVARIANTS JobsAccounted NoLostEdge
PROPERTIES ImplementsScheduler
