\* A host that sends again while the answer is on its way.
SPECIFICATION Spec
CONSTANTS
  Capacity = 4
  MaxFaults = 3
  Noise = {"junk"}
  BadReplies = FALSE
  Hasty = TRUE
INVARIANTS
  ExecutedOnce
