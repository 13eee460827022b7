CONSTANTS
  None = None
  DayLen = 2
  MaxAlive = 2
  CacheDays = {0, 1}
  MaxFileSize = 0
  Modes = {"async"}
  Roomy = {TRUE, FALSE}
  Faults = {}
  MaxTime = 3
  MaxBack = 1
  MaxWrites = 2
  MaxFaults = 0
  MaxStarts = 2
SPECIFICATION Spec
CHECK_DEADLOCK FALSE
INVARIANTS DaysInOrder ListShowsAll
PROPERTY PruneSparesFresh
