CONSTANTS
  Slots = {r1}
  Sockets = {s1}
  MaxAuthFailures = 1
  None = None
  AuthMayFail = TRUE
  ConnectMayTimeout = TRUE
  StopMayHappen = FALSE
SPECIFICATION FairSpec
PROPERTIES
  StaleConnectionReplaced
  RebuildsEnd
CHECK_DEADLOCK FALSE
