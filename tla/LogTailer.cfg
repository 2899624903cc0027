SPECIFICATION FairSpec
CONSTANTS
  MaxLogs = 2
  MaxLines = 4
  MaxRewrites = 1
  MaxStarts = 2
  MaxFaults = 1
  ReadSize = 3
  ScanSize = 3
  KeepLines = 1
INVARIANTS LiveIsExact NoLineTwice
PROPERTY CatchesUp
CHECK_DEADLOCK FALSE
