CONSTANTS
  None = None
  DayLen = 2
  MaxAlive = 2
  CacheDays = {0, 1}
  MaxFileSize = 1
  Modes = {"async"}
  Roomy = {TRUE, FALSE}
  Faults = {}
  MaxTime = 2
  MaxBack = 0
  MaxWrites = 5
  MaxFaults = 0
  MaxStarts = 1
SPECIFICATION Spec
CHECK_DEADLOCK FALSE
INVARIANTS SplitBounded InOrder
