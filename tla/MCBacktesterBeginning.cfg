\* Restart inside the loop.
CONSTANTS
  N = 3
  Opens = 1
  Closings = {3}
  Early = 1
  SnapshotEvery = 2
  MaxClicks = 4
  Fields = 2
  Chars = {"0", "1", "2", "3", "4", "5", "6", "7", "8", "9", ","}
  Files <- SmallFiles
SPECIFICATION MainSpec
PROPERTY StartsFromTheBeginning
CHECK_DEADLOCK FALSE
