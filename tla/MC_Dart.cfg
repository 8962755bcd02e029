SPECIFICATION FairSpec
CONSTANTS
  CommandLength = 5
  ReplyLength = 4
  Depth = 2
  HighWater = 2
  Slack = 1
INVARIANTS
  TypeOK
  CommandKept
  AnswerKept
PROPERTIES
  Answered
  BreakTaken
