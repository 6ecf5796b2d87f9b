CONSTANTS
  Streams = {"index", "option"}
  QueueMax = 1
  DbMax = 1
  MaxTicks = 3
SPECIFICATION FairSpec
INVARIANTS
  InOrder
  EachOnce
PROPERTIES
  TicksReachPipeline
CHECK_DEADLOCK FALSE
