SPECIFICATION FairSpec
CONSTANTS
  Pages <- MCPages
  ProgramBank <- MCProgramBank
  NeedsBit7 = TRUE
  Bodies <- MCBodies
  BDOSPage = 6
  PageBytes = 8
  MaxInstalls = 1
  Named = FALSE
  OwnStack = TRUE
  AsksInBDOS = TRUE
  StopsInBDOS = FALSE
INVARIANTS
  ReturnsToCaller
