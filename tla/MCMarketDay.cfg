CONSTANTS
  Topics = {"order_book_3m", "market_ohlc_bundle"}
  Payloads <- MCPayloads
  QueueMax = 2
  BatchSize = 2
  MaxItems = 2
  FailuresHappen = TRUE
  MaxLaunches = 2
  MaxProcesses = 2
  MaxProduced = 3
SPECIFICATION FairDaySpec
INVARIANTS
  AtMostOnce
  PartnersFirst
  LostOnlyByFailure
PROPERTIES
  IsRowLog
  EverythingStored
  ExitZeroIsHonest
CHECK_DEADLOCK FALSE
