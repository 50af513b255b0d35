\* Two snapshots of two lines and a logger's line, by calls of enqueue that do not overlap.
CONSTANTS
  SIZE = 3
  Items <- MCItems
  Producers <- MCProducers
  Raw = Raw
  None = None
  logger = logger
  Loggers = {logger}
  MaxSnapshots = 2
  Levels = {2}
  MaxResults = 1
  OrderbookCapacity = 1
SPECIFICATION SerialFairSpec
INVARIANT SentInOrder
PROPERTIES RelaysSnapshots AcceptedLineIsTaken DestructorReturns
CHECK_DEADLOCK FALSE
