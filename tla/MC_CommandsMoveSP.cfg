SPECIFICATION Spec
CONSTANTS
  Requests <- MoveRequests
  Cells <- MCCells
  Pages <- MCPages
  Files <- MCFiles
  OwnTraps <- MCOwnTraps
  MaxBreakpoints = 2
  Liberties = {"the host writes another SP"}
INVARIANTS
  TypeOK
PROPERTIES
  ImplementsTarget
