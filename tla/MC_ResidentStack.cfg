\* A program the loader starts again goes on with the stack it finds.
SPECIFICATION FairSpec
CONSTANTS
  Pages <- MCPages
  ProgramBank <- MCProgramBank
  NeedsBit7 = TRUE
  Bodies <- MCBodies
  BDOSPage = 6
  PageBytes = 8
  MaxInstalls = 2
  Named = FALSE
  OwnStack = FALSE
  AsksInBDOS = FALSE
  StopsInBDOS = FALSE
INVARIANTS
  ReturnsToCaller
CHECK_DEADLOCK FALSE
