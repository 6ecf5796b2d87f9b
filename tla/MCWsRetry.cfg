CONSTANTS
  Slots = {r1}
  Sockets = {s1, s2}
  MaxAuthFailures = 2
  None = None
  AuthMayFail = TRUE
  ConnectMayTimeout = TRUE
  StopMayHappen = FALSE
SPECIFICATION FairSpec
PROPERTIES
  FailedAttemptIsRetried
CHECK_DEADLOCK FALSE
