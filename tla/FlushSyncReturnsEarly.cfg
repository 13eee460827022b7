CONSTANTS
  Writers = {w1}
  Callers = {c1}
  Modes = {"async"}
  OpenStores = {"mmap"}
  NotifyAt = 2
  TipAt = 3
  BlockMax = 4
  SeqMod = 3
  MaxWrites = 1
  MaxRestarts = 0
  Ctl = Ctl
  Async = Async
  Null = Null
SPECIFICATION Spec
CHECK_DEADLOCK FALSE
INVARIANT FlushSyncCompletes
