CONSTANTS
  Writers = {w1}
  Callers = {c1}
  Modes = {"async", "sync"}
  OpenStores = {"mmap"}
  NotifyAt = 2
  TipAt = 2
  BlockMax = 3
  SeqMod = 3
  MaxWrites = 1
  MaxRestarts = 0
  Ctl = Ctl
  Async = Async
  Null = Null
SPECIFICATION FairSpec
CHECK_DEADLOCK FALSE
INVARIANTS TypeOK CloseKeepsParked FlushSyncEmptiesBuffer BufferServed
PROPERTIES Drained CloseTerminates
