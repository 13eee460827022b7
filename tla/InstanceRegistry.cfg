\* Two threads that create, use and release the instance of two names.
CONSTANTS
  Names = {n1, n2}
  Users = {u1, u2}
  None = none
  Job = job
  Grace = 2
  MaxOp = 1
  MaxJob = 1
  MaxInsts = 2
SPECIFICATION FairSpec
INVARIANTS
  TypeOK
  GraceProtects
  MapIsOpen
PROPERTY FreedAtLast
CHECK_DEADLOCK FALSE
