\* Every word, listed and written again under the settings it was
\* listed under, in a build whose char is signed.
SPECIFICATION Spec
CONSTANTS
  CharSigned = TRUE
  Words <- Word
  Typed = {}
  Reconfigurable = FALSE
INVARIANTS
  WriteReadsBack
  RefusesOnlyUnknown
  BranchesListed
