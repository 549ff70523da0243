SPECIFICATION FairSpec
CONSTANTS
  Fibers = {f1, f2, f3}
  WORKER_COUNT = 2
  Idle = Idle
  Procs = {1}
  Programs = {"filter"}
  PIPE_CAP = 1
  MaxBytes = 1
  WriteSizes = {1}
  ReadSizes = {1}
  Sharing = {FALSE}
CHECK_DEADLOCK FALSE
PROPERTY WriteReturns
