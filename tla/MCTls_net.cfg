SPECIFICATION Spec
CONSTANTS
  Fibers = {f1, f2, f3}
  NoFiber = NoFiber
  SOCK_BUF = 2
  MaxBytes = 9
  WriteSizes = {2}
  ReadSizes = {0, 1}
  Programs <- AllPrograms
  OUT_CAP = 2
SYMMETRY Symmetry
INVARIANTS NoLostReadiness BytesConserved EofIsComplete PeersMeet SessionsInStep NoneLeaked
CHECK_DEADLOCK FALSE
