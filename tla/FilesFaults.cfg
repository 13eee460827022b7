CONSTANTS
  None = None
  DayLen = 2
  MaxAlive = 2
  CacheDays = {0, 1}
  MaxFileSize = 0
  Modes = {"sync", "async"}
  Roomy = {TRUE, FALSE}
  Faults = {"open", "write", "append"}
  MaxTime = 2
  MaxBack = 0
  MaxWrites = 2
  MaxFaults = 1
  MaxStarts = 2
SPECIFICATION Spec
CHECK_DEADLOCK FALSE
INVARIANTS TypeOK NothingVanishes OnlyCrashDuplicates
