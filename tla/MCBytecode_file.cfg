SPECIFICATION Spec
CONSTANTS
  Jobs <- AllJobs
  MaxU16 = 511
  U16 = 9
  U32 = 12
  U64 = 15
  Utf8 <- Names
  Natives <- ThisRuntime
INVARIANTS AssemblesListing LoadsWhatWasSaved TornIsPrefix IndicesResolve StartsTheEntry
CHECK_DEADLOCK FALSE
