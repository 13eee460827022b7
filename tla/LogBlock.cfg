CONSTANTS
  Magic = 9
  BlockMax = 9
  Bytes = {0, 9}
  Sizes = {2}
  Tea = 3
  Crypts = {TRUE, FALSE}
  LastHour = 1
  MaxWrites = 3
  MaxTicks = 2
  MaxCrashes = 1
SPECIFICATION Spec
INVARIANTS
  TypeOK
  RoomForTailer
  CommittedIsReadable
  LossStartsAtTear
  PortReadsAsMuch
  PeriodIsExact
CHECK_DEADLOCK FALSE
