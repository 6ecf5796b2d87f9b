CONSTANTS
  Topics = {"order_book_3m", "futures_3m", "options_3m", "market_ohlc_bundle", "ticks"}
  Payloads <- MCAllPayloads
  QueueMax = 2
  BatchSize = 2
  MaxItems = 2
  FailuresHappen = TRUE
  MaxLaunches = 2
  MaxProcesses = 2
  MaxProduced = 2
SPECIFICATION DaySpec
INVARIANT ShutdownFlushes
CHECK_DEADLOCK FALSE
