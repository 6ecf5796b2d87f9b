CONSTANTS
  Horizon = 0
  Radius = 1
  Strikes <- MCStrikes
  Cuts <- MCCuts
  MinTokens = 6
  Prices <- MCPrices
  Assets <- MCAssets
  Nifty50 <- MCNifty50
  AliasOf <- MCAliasOf
  PoolSize = 2
  MaxAttempts = 2
  MaxDays = 2
  MaxBoots = 3
  MaxTries = 2
SPECIFICATION FairSpec
INVARIANTS
  RefMapsFollowTokens
PROPERTIES
  OnlyUnreadIsReplaced
  LoadEnds
  GateOpensOnWhole
CHECK_DEADLOCK FALSE
