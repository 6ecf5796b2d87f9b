CONSTANTS
  MaxStrike = 2
  Radius = 1
  InitialAtm = 1
  Tasks = {t1}
  MaxSockets = 3
  NoCall = NoCall
  CallsMayFail = TRUE
SPECIFICATION FairSpec
INVARIANTS
  RegistryFollowsAtm
  WireFollowsRegistry
PROPERTIES
  WindowKeepsTicking
  ReplayCompletes
CONSTRAINT Uncrossed
CHECK_DEADLOCK FALSE
