SPECIFICATION Spec
CONSTANTS
  Requests <- MCRequests
  Cells <- MCCells
  Pages <- MCPages
  Files <- MCFiles
  OwnTraps <- MCOwnTraps
  MaxBreakpoints = 2
  Liberties = {}
INVARIANTS
  TypeOK
PROPERTIES
  ImplementsTarget
