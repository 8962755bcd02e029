SPECIFICATION Spec
CONSTANTS
  Requests <- MCRequests
  Cells <- MCCells
  Pages <- MCPages
  Files <- MCFiles
  OwnTraps <- MCOwnTraps
  MaxBreakpoints = 2
  Liberties = {"the host sends the value of P low byte first"}
INVARIANTS
  TypeOK
PROPERTIES
  ImplementsTarget
