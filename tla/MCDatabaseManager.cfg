\* A logger and the orderbook thread, whose calls of enqueue may overlap.
CONSTANTS
  SIZE = 3
  Items <- MCItems
  Producers <- MCProducers
  Raw = Raw
  None = None
  logger = logger
  Loggers = {logger}
  MaxSnapshots = 2
  Levels = {1}
  MaxResults = 1
  OrderbookCapacity = 1
SPECIFICATION ManagerFairSpec
INVARIANTS ManagerTypeOK DestructorIsSafe
PROPERTIES DestructorReturnsOrJams SerialCallsAreSafe
CHECK_DEADLOCK FALSE
