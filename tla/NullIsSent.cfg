CONSTANTS
  Sessions <- OneWaySessions
  MaxAsks = 1
  MaxResizes = 1
SPECIFICATION FairSpec
CHECK_DEADLOCK FALSE
PROPERTY NullIsSent
