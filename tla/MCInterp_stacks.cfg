SPECIFICATION Spec
CONSTANTS
  Fibers = {f1}
  Functions <- MCFunctions
  Params <- MCParams
  Locals <- MCLocals
  Value = {"K0", "K1", "unit"}
  Unit = "unit"
  Closure <- MCClosure
  MAX_CALL_DEPTH = 2
  MaxStack = 5
  MaxNest = 2
  NoFiber = NoFiber
CHECK_DEADLOCK FALSE
INVARIANT SwitchesClean
PROPERTY ImplementsFrameStack
