CONSTANTS
  Writers = {w1}
  Callers = {}
  Modes = {"async", "sync"}
  OpenStores = {"mmap", "heap"}
  NotifyAt = 2
  TipAt = 2
  BlockMax = 3
  SeqMod = 3
  MaxWrites = 1
  MaxRestarts = 2
  Ctl = Ctl
  Async = Async
  Null = Null
SPECIFICATION Spec
CHECK_DEADLOCK FALSE
INVARIANTS ExactlyOnce FileInOrder MissingIsReal
PROPERTY ImplementsLogStore
