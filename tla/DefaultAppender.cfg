\* The default appender: one logging thread that nests, two threads that open
\* and close, and exit().
CONSTANTS
  Writers = {w1}
  Owners = {o1, o2}
  Exit = exit
  None = none
  MaxRec = 2
  MaxDepth = 3
  MaxCalls = 4
  MaxApps = 2
SPECIFICATION Spec
INVARIANTS
  TypeOK
  FailsOnlyWhenClosed
  OneOpen
  Balanced
PROPERTY OutermostIsStored
CHECK_DEADLOCK FALSE
