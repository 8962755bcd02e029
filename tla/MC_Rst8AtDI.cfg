\* A Ctrl-C found by an interrupt between RST 08 and DI.
SPECIFICATION LiveSpec
CONSTANTS
  Traps <- InProgram
  BreakIns <- AtDI
  ParityLost = FALSE
  MaxInterrupts = 2
PROPERTIES
  BreakInStops
CHECK_DEADLOCK FALSE
