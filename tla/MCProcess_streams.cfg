SPECIFICATION Spec
CONSTANTS
  Fibers = {f1, f2, f3}
  WORKER_COUNT = 4
  Idle = Idle
  Procs = {1}
  Programs = {"filter", "source"}
  PIPE_CAP = 2
  MaxBytes = 2
  WriteSizes = {0,2}
  ReadSizes = {0}
  Sharing = {TRUE, FALSE}
SYMMETRY Symmetry
INVARIANTS OutputExact StreamsExact OneOwner
CHECK_DEADLOCK FALSE
