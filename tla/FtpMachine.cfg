SPECIFICATION MCSpec
CONSTANTS
  Session <- Sessions
  MaxBlocks = 2
  MaxLogins = 1
  SealedSession <- Sealed
  Nothing = Nothing
INVARIANTS
  RepliesMatched
  Complete
  Understood
  ToldIsTrue
PROPERTIES
  JobEnds
  LoginEnds
CHECK_DEADLOCK FALSE
