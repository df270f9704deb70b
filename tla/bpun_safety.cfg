\* Every preamble of up to 5 characters: the reading of the preamble, the
\* outcome of the load and the views.  strtol saturates at 63 and tmpstr holds
\* 3 digits so that 5 characters reach both limits.
SPECIFICATION Spec
CONSTANTS
  Files <- MCFiles5
  MaxDigits = 3
  LongMax = 63
  Ut64 = 1048576
  CheckWindow = 4
  Faults = FALSE
  Uninit = {}
  NULL = NULL
INVARIANTS
  TypeOK
  PreambleRead
  LoadOutcome
  EntryFollowsMap
