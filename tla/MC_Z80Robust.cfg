\* The decoder of the stub as the Makefile builds it: a char without a sign.
SPECIFICATION Spec
CONSTANTS
  Stops <- MCStops
  CharIsSigned = FALSE
INVARIANTS
  RobustDecoder
