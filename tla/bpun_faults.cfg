\* Reads and allocations fail anywhere: heap, views, the plugin contract and
\* termination.
SPECIFICATION FairSpec
CONSTANTS
  Files <- MCTapes
  MaxDigits = 50
  LongMax = 134217727
  Ut64 = 1048576
  CheckWindow = 16
  Faults = TRUE
  Uninit = {0, 7}
  NULL = NULL
INVARIANTS
  MapAfterHeader
  NoLeak
PROPERTIES
  ImplementsPlugin
  LoadReturns
