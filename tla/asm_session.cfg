\* A few words and many typed lines, with the settings changed at any time, in
\* a build whose char is unsigned.
SPECIFICATION Spec
CONSTANTS
  CharSigned = FALSE
  Words <- MCFewWords
  Typed <- MCTyped
  Reconfigurable = TRUE
INVARIANTS
  TypeOK
  WriteReadsBack
  OperandsStayInField
  BothFormsAgree
