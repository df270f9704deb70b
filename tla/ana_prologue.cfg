\* The three patterns, and COPY SL DA itself.
SPECIFICATION Spec
CONSTANTS
  CharSigned = TRUE
  Sessions <- MCPatterns
  Outside = 255
CHECK_DEADLOCK FALSE
INVARIANTS
  PatternIsCopy
