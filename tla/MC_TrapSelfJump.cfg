SPECIFICATION Spec
CONSTANTS
  Code <- MCCode
  Flow <- SelfFlow
  After <- MCAfter
  Skip <- MCSkip
  Own <- MCOwn
  Stores <- MCStores
  Patches <- MCPatches
  Programs <- SelfPrograms
  Liberties <- MCNone
  MaxBreakpoints = 2
INVARIANTS
  ResumeExecutes
