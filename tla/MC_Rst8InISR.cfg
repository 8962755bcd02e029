\* A breakpoint in the system's interrupt handler.
SPECIFICATION Spec
CONSTANTS
  Traps <- AlsoInISR
  BreakIns <- InProgram
  ParityLost = FALSE
  MaxInterrupts = 2
INVARIANTS
  StackKept
