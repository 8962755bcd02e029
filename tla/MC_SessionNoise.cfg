\* A byte that arrives as a $ or a #.
SPECIFICATION Spec
CONSTANTS
  Capacity = 4
  MaxFaults = 3
  Noise = {"junk", "$", "#"}
  BadReplies = FALSE
  Hasty = FALSE
INVARIANTS
  ExecutedOnce
