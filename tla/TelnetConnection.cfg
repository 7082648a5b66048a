SPECIFICATION FairMCSpec
CONSTANTS
  Handle <- Handles
  MaxConns = 3
  MaxBlocks = 2
  AskSession <- AskSessions
  HistorySize = 3
  MaxSteps = 7
  Nothing = Nothing
  Program = {"ktelnet", "kftp"}
  NetRealm = {"R", "S"}
  Label = {"dom", "box"}
  MaxEdits = 4
  SetupSession <- SetupSessions
  CLIENT_KRB_RETRY = 2
  KRB_PORT = 750
  MaxRequests = 2
  KdcSession <- KdcSessions
INVARIANTS
  SocketsKept
  OpensAsAsked
  HostsAreWhole
  HostsAreAsked
PROPERTIES
  CloseEnds
  SavedIsMeant
  ChangeIsTold
CHECK_DEADLOCK FALSE
