CONSTANTS
  MaxInterval = 4
  Session <- MCSession
  MaxTicks = 1
  Kinds = {"index", "future", "option", "spot"}
  IdsMax = 2
  IdsKept = 1
  NoBar = NoBar
  UseDatabase = TRUE
  DatabaseMayStop = TRUE
  BuildMayFail = TRUE
  MayRestart = TRUE
  ClockMayStepBack = TRUE
SPECIFICATION FairSpec
INVARIANTS
  TickInOneBar
  Punctual
PROPERTIES
  NiftyIsFeed
  EmissionEnds
CHECK_DEADLOCK FALSE
