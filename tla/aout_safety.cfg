\* Every view of whole files, and of files whose header promises too much; the
\* user may write one word into the open file's buffer.
SPECIFICATION Spec
CONSTANTS
  Files <- MCFiles
  Names <- MCNames
  MainNames <- MCMain
  Ut64 = 4194304
  Faults = FALSE
  Patches = {28, 0}
  NULL = NULL
INVARIANTS
  TypeOK
  LoadOutcome
  ClaimedByOne
  LayoutAgrees
  SymbolsFollowMaps
  MainIsListed
  ImportsAgree
  RelocsFollowMaps
