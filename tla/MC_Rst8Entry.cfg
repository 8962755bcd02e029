SPECIFICATION LiveSpec
CONSTANTS
  Traps <- InProgram
  BreakIns <- InProgram
  ParityLost = FALSE
  MaxInterrupts = 3
INVARIANTS
  StackKept
  DepthCounts
PROPERTIES
  InterruptsKept
  BreakInStops
