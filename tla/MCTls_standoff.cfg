SPECIFICATION Spec
CONSTANTS
  Fibers = {f1, f2}
  NoFiber = NoFiber
  SOCK_BUF = 2
  MaxBytes = 9
  WriteSizes = {2}
  ReadSizes = {0, 1}
  Programs <- WriteMuch
  OUT_CAP = 2
INVARIANT NoStandoff
CHECK_DEADLOCK FALSE
