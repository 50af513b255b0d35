\* Totals of five bits overflow with the second trade of three lots.
CONSTANTS
  Prices = {3, 4}
  Vols <- SmallVols
  Times = {0, 3, 597}
  WarmupPeriod = 2
  MaxPos = 5
  PointValue = 5
  FeesPerSide = 1
  IntMax = 15
  FloatExact = 8
  MaxTrades = 3
SPECIFICATION Spec
INVARIANTS TypeOK PositionWithinLimit
PROPERTIES PnlFollowsTrades
