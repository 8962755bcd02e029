\* A program installs the hooks a second time.
SPECIFICATION FairSpec
CONSTANTS
  Pages <- MCPages
  ProgramBank <- MCProgramBank
  NeedsBit7 = TRUE
  Bodies <- MCBodies
  BDOSPage = 6
  PageBytes = 8
  MaxInstalls = 2
  Named = FALSE
  OwnStack = TRUE
  AsksInBDOS = FALSE
  StopsInBDOS = FALSE
PROPERTIES
  InterruptServed
