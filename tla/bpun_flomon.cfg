\* rz_bin_bpun.c:12 and :129 say a FloMon word takes 4 bytes; bpun_entries
\* counts 2 per word.
SPECIFICATION Spec
CONSTANTS
  Files <- MCTapes
  MaxDigits = 50
  LongMax = 134217727
  Ut64 = 1048576
  CheckWindow = 16
  Faults = FALSE
  Uninit = {}
  NULL = NULL
INVARIANT
  FloMonEntryAtItsWord
