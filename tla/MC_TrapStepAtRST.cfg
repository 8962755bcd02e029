SPECIFICATION Spec
CONSTANTS
  Code <- MCCode
  Flow <- MCFlow
  After <- MCAfter
  Skip <- MCSkip
  Own <- MCOwn
  Stores <- MCStores
  Patches <- MCPatches
  Programs <- MCPrograms
  Liberties <- AtRST
  MaxBreakpoints = 2
INVARIANTS
  HookIntact
