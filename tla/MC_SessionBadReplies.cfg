\* A damaged reply.
SPECIFICATION FairSpec
CONSTANTS
  Capacity = 4
  MaxFaults = 3
  Noise = {"junk"}
  BadReplies = TRUE
  Hasty = FALSE
PROPERTIES
  Answered
