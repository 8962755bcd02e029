SPECIFICATION Spec
CONSTANTS
  Code <- MCCode
  Flow <- MCFlow
  After <- MCAfter
  Skip <- MCSkip
  Own <- MCOwn
  Stores <- MCNone
  Patches <- MCPatches
  Programs <- MCPrograms
  Liberties <- Nested
  MaxBreakpoints = 2
PROPERTIES
  Kept
