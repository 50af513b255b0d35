\* Two runs, with the program's buffer size and with a buffer of two lines.
CONSTANTS
  MaxRuns = 2
  MaxResults = 3
  Lengths = {1, 2}
  BufferSizes = {1, 3}
  PageSize = 2
  Capacity = 2
SPECIFICATION FairSpec
INVARIANTS TypeOK DestroyedIsDrained CopiesStayMapped LinesAreWhole
PROPERTIES RelaysResults Drains
CHECK_DEADLOCK FALSE
