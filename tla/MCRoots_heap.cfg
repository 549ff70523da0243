CONSTANTS
  MaxSlots = 3
  MIN_GC_BYTES = 3
  MAX_HEAP = 4
  Literals = {s1}
  GlobalCount = 1
  Plain = Plain
  Hole = Hole
  EntryForms <- SafeForms
  MaxKids = 1
  MaxStack = 2
  MaxFibers = 2
  MaxNested = 1
SPECIFICATION Spec
INVARIANTS FreeListExact CeilingExact NoDangling
PROPERTIES CollectsExactly
CHECK_DEADLOCK FALSE
