SPECIFICATION FairSpec
CONSTANTS
  Fibers = {f1, f2, f3}
  WORKER_COUNT = 2
  Idle = Idle
  Procs = {1}
  Programs = {"filter", "source"}
  PIPE_CAP = 1
  MaxBytes = 2
  WriteSizes = {2}
  ReadSizes = {2}
  Sharing = {FALSE}
CHECK_DEADLOCK FALSE
PROPERTY WaitReturns
