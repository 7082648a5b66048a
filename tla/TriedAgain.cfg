SPECIFICATION Spec
CONSTANTS
  CLIENT_KRB_RETRY = 2
  KRB_PORT = 750
  MaxRequests = 2
  None = None
  Session <- ProxySessions
INVARIANT TriedAgain
CHECK_DEADLOCK FALSE
