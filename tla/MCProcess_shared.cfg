SPECIFICATION Spec
CONSTANTS
  Fibers = {f1, f2, f3}
  WORKER_COUNT = 4
  Idle = Idle
  Procs = {1}
  Programs = {"filter", "source"}
  PIPE_CAP = 1
  MaxBytes = 2
  WriteSizes = {1,2}
  ReadSizes = {0,1,2}
  Sharing = {TRUE}
SYMMETRY Symmetry
CHECK_DEADLOCK FALSE
INVARIANTS CloseEndsInput EmptyReadIsEof
