SPECIFICATION Spec
CONSTANTS
  Fibers = {f1, f2, f3}
  WORKER_COUNT = 2
  Idle = Idle
  MaxFiles = 3
SYMMETRY Symmetry
CHECK_DEADLOCK FALSE
INVARIANT HandlesKept
INVARIANT ClosedForever
