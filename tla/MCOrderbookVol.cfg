\* The running volumes, with every price within VolRange of the best one.
CONSTANTS
  Ids = {i1, i2}
  i1 = i1
  i2 = i2
  Prices = {1, 2}
  Sizes = {1, 2}
  Preallocated = 1
  MaxOrders = 2
  MaxVolume = 3
  VolRange = 1
  VolLevels = 2
  Indeterminate = {2, 5}
  Null = Null
SPECIFICATION Spec
PROPERTIES VolFollowsOrders
SYMMETRY IdSymmetry
