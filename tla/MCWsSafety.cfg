CONSTANTS
  Slots = {r1}
  Sockets = {s1, s2, s3}
  MaxAuthFailures = 2
  None = None
  AuthMayFail = TRUE
  ConnectMayTimeout = TRUE
  StopMayHappen = TRUE
SPECIFICATION Spec
SYMMETRY Symmetry
INVARIANTS
  TypeOK
  NoOrphanSocket
  ConnectedHasSocket
  StopClosesSockets
PROPERTIES
  FatalIsQuiet
CHECK_DEADLOCK FALSE
