\* Three ids at two prices: messages alone.
CONSTANTS
  Ids = {i1, i2, i3}
  i3 = i3
  i1 = i1
  i2 = i2
  Prices = {1, 2}
  Sizes = {1, 2}
  Preallocated = 1
  MaxOrders = 3
  MaxVolume = 3
  VolRange = 1
  VolLevels = 2
  Indeterminate = {2, 5}
  Null = Null
SPECIFICATION MessagesSpec
INVARIANTS TypeOK BookCoherent PoolPartition CountersCoverOrders
PROPERTIES OnlyTradesAddEmptyLevels IsPriceTimeBook TradesFollowPriority
SYMMETRY IdSymmetry
