\* Analysis, pattern search and emulation in any order.  Words: every row of nd100_op
\* and every word it singles out.  Instructions: all that have an emulation program,
\* with every addressing mode and condition.  Programs.  The analysis ends, and an
\* emulation ends at its bound: no step is left then.
SPECIFICATION Spec
CONSTANTS
  CharSigned = TRUE
  Sessions <- MCSessions
  Outside = 255
CHECK_DEADLOCK FALSE
INVARIANTS
  TypeOK
  FlowFollowsListing
  ConditionsAgree
  PseudoTellsStep
  EmulationOnGraph
  AnalysisCoversEmulation
  InlineDataSkipped
  PreludesFound
