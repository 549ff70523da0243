CONSTANTS
  MaxFibers = 2
  MaxChans = 0
  Capacities = {1}
  Handles = {}
  MaxTime = 0
  Ops = {"spawn", "await"}
  Selects <- NoSelects
  Workers = {w1}
  EventBuffer = 2
  Fuel = 2
  MayPanic = TRUE
  PollerFirst = FALSE
SPECIFICATION FairDriveSpec
PROPERTIES PanicSurfaces
