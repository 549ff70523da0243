CONSTANTS
  MaxFibers = 2
  MaxChans = 0
  Capacities = {1}
  Handles = {}
  MaxTime = 1
  Ops = {"spawn", "await", "sleep", "yield"}
  Selects <- NoSelects
  Workers = {w1, w2}
  EventBuffer = 2
  Fuel = 1
  MayPanic = FALSE
  PollerFirst = FALSE
SPECIFICATION FairDriveSpec
PROPERTIES WaitsEnd
