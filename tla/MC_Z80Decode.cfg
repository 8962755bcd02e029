SPECIFICATION Spec
CONSTANTS
  Stops <- MCStops
  CharIsSigned = FALSE
INVARIANTS
  StepIsNext
