SPECIFICATION MCSpec
CONSTANTS
  Session <- Sessions
  MaxCommands = 3
  MaxFiles = 2
  ListSession <- ListSessions
  MaxSteps = 5
  None = None
INVARIANTS
  NothingFreedIsUsed
PROPERTIES
  ResultIsOwn
  CommandEnds
  ActsWhereShown
CHECK_DEADLOCK FALSE
