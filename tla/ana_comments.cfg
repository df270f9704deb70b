\* A TRR, run with the program of another instruction, and MIN of 65535.
SPECIFICATION Spec
CONSTANTS
  CharSigned = TRUE
  Sessions <- MCCommented
  Outside = 255
CHECK_DEADLOCK FALSE
INVARIANT
  EmulatesAsCommented
