\* One word each of what the documents list.
SPECIFICATION Spec
CONSTANTS
  CharSigned = TRUE
  Sessions <- MCFindings
  Outside = 255
CHECK_DEADLOCK FALSE
INVARIANTS
  ClassifiedAsDocumented
