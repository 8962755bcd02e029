SPECIFICATION Spec
CONSTANTS
  Code <- ZeroCode
  Flow <- ZeroFlow
  After <- ZeroAfter
  Skip <- ZeroSkip
  Own <- ZeroOwn
  Stores <- MCNone
  Patches <- MCNone
  Programs <- ZeroPrograms
  Liberties <- MCNone
  MaxBreakpoints = 2
INVARIANTS
  StoppedTransparent
