SPECIFICATION MCSpec
CONSTANTS
  Session <- Sessions
  MaxNotes = 2
  MaxRetries = 1
  Proc = {p1, p2, p3}
  StartSession <- Starts
  Tries = 1
  LogSize = 8
  Nobody = Nobody
PROPERTIES
  Conserved
  RelayGoesOn
  WindowsServe
CHECK_DEADLOCK FALSE
