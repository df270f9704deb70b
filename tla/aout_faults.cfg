\* Reads and allocations fail anywhere: heap, the plugin contract, termination.
SPECIFICATION FairSpec
CONSTANTS
  Files <- MCFewFiles
  Names <- MCNames
  MainNames <- MCMain
  Ut64 = 4194304
  Faults = TRUE
  Patches = {28}
  NULL = NULL
INVARIANTS
  HeapExact
PROPERTIES
  ImplementsPlugin
  LoadReturns
