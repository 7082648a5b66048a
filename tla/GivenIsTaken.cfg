SPECIFICATION Spec
CONSTANTS
  Session <- GivenSessions
  HistorySize = 3
  MaxSteps = 4
  None = None
INVARIANT GivenIsTaken
CHECK_DEADLOCK FALSE
