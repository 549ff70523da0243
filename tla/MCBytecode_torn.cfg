SPECIFICATION Spec
CONSTANTS
  Jobs <- TornJobs
  MaxU16 = 511
  U16 = 9
  U32 = 12
  U64 = 15
  Utf8 <- Names
  Natives <- ThisRuntime
INVARIANT TornNeverStarts
CHECK_DEADLOCK FALSE
