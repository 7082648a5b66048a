CONSTANTS
  Sessions <- AllSessions
  MaxBlock = 4
  PrintSession <- PrintSessions
  CharWidth = 2
  CharHeight = 2
  PageHeight = 4
  MaxSteps = 3
  None = None
  OptionSessions <- NegotiationSessions
  MaxAsks = 3
  MaxResizes = 1
SPECIFICATION MCSpec
CHECK_DEADLOCK FALSE
INVARIANTS HandledInOrder PrintingIsTrue EndsAgree
PROPERTIES AllHandled Settles
