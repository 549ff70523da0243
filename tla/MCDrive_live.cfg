CONSTANTS
  MaxFibers = 2
  MaxChans = 1
  Capacities = {1}
  Handles = {1}
  MaxTime = 1
  Ops = {"spawn", "yield", "join", "sleep", "select", "await", "channel", "send", "receive", "socket"}
  Selects <- SocketSelects
  Workers = {w1, w2}
  EventBuffer = 2
  Fuel = 3
  MayPanic = FALSE
  PollerFirst = TRUE
SPECIFICATION FairDriveSpec
INVARIANT CompletionInterruptsPoll
PROPERTIES RunEnds
