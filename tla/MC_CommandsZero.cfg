SPECIFICATION Spec
CONSTANTS
  Requests <- ZeroRequests
  Cells <- MCCells
  Pages <- MCPages
  Files <- MCFiles
  OwnTraps <- MCOwnTraps
  MaxBreakpoints = 2
  Liberties = {"a breakpoint at address 0"}
INVARIANTS
  TypeOK
PROPERTIES
  ImplementsTarget
