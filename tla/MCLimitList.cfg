CONSTANTS
  Orders = {a, b, c, d}
  a = a
  b = b
  c = c
  d = d
  Limits = {l1, l2}
  l1 = l1
  l2 = l2
  Null = Null
SPECIFICATION Spec
INVARIANTS WellLinked ListIsWhole
PROPERTIES IsLevelQueues
