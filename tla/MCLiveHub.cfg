CONSTANTS
  Clients = {c1, c2}
  Fragile = {c2}
  HistoryMax = 2
  MaxMessages = 3
SPECIFICATION FairSpec
INVARIANTS
  NothingMissed
PROPERTIES
  NeverOutdated
  BroadcastsEnd
  UnregisteredIsClosed
CHECK_DEADLOCK FALSE
