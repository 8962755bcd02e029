SPECIFICATION FairSpec
CONSTANTS
  Capacity = 4
  MaxFaults = 3
  Noise = {"junk"}
  BadReplies = FALSE
  Hasty = FALSE
INVARIANTS
  ExecutedOnce
  InStep
PROPERTIES
  OwnReply
  Answered
