\* Two threads that start, cancel and join one Thread object, with a failing
\* pthread_create.
CONSTANTS
  Users = {u1, u2}
  None = none
  MaxStarts = 3
  MaxFails = 1
SPECIFICATION FairSpec
INVARIANTS
  TypeOK
  DeletedUnreachable
  OneRoutine
  ReapedOnce
  NoneLeftBehind
PROPERTIES
  CancelHolds
  DeletedAtLast
CHECK_DEADLOCK FALSE
