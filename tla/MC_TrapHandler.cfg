SPECIFICATION FairSpec
CONSTANTS
  Code <- MCCode
  Flow <- MCFlow
  After <- MCAfter
  Skip <- MCSkip
  Own <- MCOwn
  Stores <- MCStores
  Patches <- MCPatches
  Programs <- MCPrograms
  MaxBreakpoints = 2
  Liberties <- MCNone
INVARIANTS
  TypeOK
  StoppedTransparent
  HookIntact
  ResumeExecutes
  Guarded
  NoResidue
  IInv
  Unmixed
PROPERTIES
  Kept
  ImplementsDebugger
  StepStops
  Rearmed
