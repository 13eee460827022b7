------------------------------ MODULE LogStore ------------------------------
(***************************************************************************)
(* What a log appender promises about the records it accepts, with nothing *)
(* said of threads, buffers, blocks and files: a record that has been      *)
(* accepted is on its way until it is stored, it is stored at most once    *)
(* and for good, and it can only get lost while the appender goes down.    *)
(***************************************************************************)
VARIABLES
  pending,  \* accepted, not stored yet
  stored,   \* in the log file
  lost,     \* gone
  up        \* there is an open appender

vars == <<pending, stored, lost, up>>

Known == pending \cup stored \cup lost

Init == pending = {} /\ stored = {} /\ lost = {} /\ up = FALSE

Open == ~up /\ up' = TRUE /\ UNCHANGED <<pending, stored, lost>>

Accept ==
  /\ up
  /\ \E r \in pending' \ Known : pending' = pending \cup {r}
  /\ UNCHANGED <<stored, lost, up>>

Store ==
  /\ \E S \in SUBSET pending : /\ pending' = pending \ S
                               /\ stored' = stored \cup S
  /\ UNCHANGED <<lost, up>>

\* A close takes an open appender down, a crash takes the process down
\* whatever state the appender is in.
GoDown ==
  /\ up' = FALSE
  /\ \E S \in SUBSET pending : /\ pending' = pending \ S
                               /\ lost' = lost \cup S
  /\ UNCHANGED stored

Next == Open \/ Accept \/ Store \/ GoDown

Spec == Init /\ [][Next]_vars
=============================================================================
