\* One producer: a ring of three slots holds two items.
CONSTANTS
  SIZE = 3
  Items = {x, y}
  x = x
  y = y
  p1 = p1
  Producers = {p1}
  Raw = Raw
  None = None
SPECIFICATION FairSpec
INVARIANTS TypeOK SlotsAreSafe SlotsFollowIndexes
PROPERTIES IsBoundedFifo AcceptedIsDelivered
CHECK_DEADLOCK FALSE
