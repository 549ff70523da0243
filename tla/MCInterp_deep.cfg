SPECIFICATION Spec
CONSTANTS
  Fibers = {f1}
  Functions <- MCFunctions
  Params <- MCParams
  Locals <- MCLocals
  Value = {"K0", "K1", "unit"}
  Unit = "unit"
  Closure <- MCClosure
  MAX_CALL_DEPTH = 1
  MaxStack = 6
  MaxNest = 4
  NoFiber = NoFiber
CHECK_DEADLOCK FALSE
INVARIANTS NoBugTrap NativeStackBounded
