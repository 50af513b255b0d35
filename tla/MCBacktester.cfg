\* A file that the close cuts short, and one that ends before.
CONSTANTS
  N = 5
  Opens = 1
  Closings = {3, 5}
  Early = 1
  SnapshotEvery = 3
  MaxClicks = 5
  Fields = 2
  Chars = {"0", "1", "2", "3", "4", "5", "6", "7", "8", "9", ","}
  Files <- SmallFiles
SPECIFICATION MainFairSpec
INVARIANTS ParsesEveryLine TypeOK RunningIsDriven IdleIsReady
PROPERTIES BookGoesForward VolsBeforeStrategy ComesToRest
CHECK_DEADLOCK FALSE
