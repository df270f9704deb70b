\* README.md:126 says the whole instruction set round-trips; the code refuses
\* some of its own lines.
SPECIFICATION Spec
CONSTANTS
  CharSigned = TRUE
  Words <- MCFewWords
  Typed = {}
  Reconfigurable = FALSE
INVARIANT
  EveryListingAssembles
