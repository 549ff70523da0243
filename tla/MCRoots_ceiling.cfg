CONSTANTS
  MaxSlots = 3
  MIN_GC_BYTES = 5
  MAX_HEAP = 5
  Literals = {}
  GlobalCount = 0
  Plain = Plain
  Hole = Hole
  EntryForms <- Pushes
  MaxKids = 5
  MaxStack = 5
  MaxFibers = 1
  MaxNested = 0
SPECIFICATION Spec
INVARIANT CeilingHolds
CHECK_DEADLOCK FALSE
