CONSTANTS
  None = None
  DayLen = 2
  MaxAlive = 2
  CacheDays = {1}
  MaxFileSize = 0
  Modes = {"async"}
  Roomy = {TRUE}
  Faults = {"open"}
  MaxTime = 2
  MaxBack = 0
  MaxWrites = 2
  MaxFaults = 1
  MaxStarts = 1
SPECIFICATION Spec
CHECK_DEADLOCK FALSE
INVARIANT ListShowsAll
