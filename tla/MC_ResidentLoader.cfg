\* The loader is given a file name.
SPECIFICATION FairSpec
CONSTANTS
  Pages <- MCPages
  ProgramBank <- MCProgramBank
  NeedsBit7 = TRUE
  Bodies <- MCBodies
  BDOSPage = 6
  PageBytes = 8
  MaxInstalls = 1
  Named = TRUE
  OwnStack = TRUE
  AsksInBDOS = FALSE
  StopsInBDOS = FALSE
INVARIANTS
  ReturnsToCaller
CHECK_DEADLOCK FALSE
