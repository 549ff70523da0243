CONSTANTS
  MaxSlots = 4
  MIN_GC_BYTES = 4
  MAX_HEAP = 8
  Literals = {}
  GlobalCount = 1
  Plain = Plain
  Hole = Hole
  EntryForms <- ArgsAfterInit
  MaxKids = 1
  MaxStack = 1
  MaxFibers = 1
  MaxNested = 0
SPECIFICATION Spec
INVARIANT NoDangling
CHECK_DEADLOCK FALSE
