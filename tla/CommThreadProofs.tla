-------------------------- MODULE CommThreadProofs --------------------------
(***************************************************************************)
(* Theorems about CommThread for every number of threads, starts and       *)
(* failures of pthread_create: the reference count, the cancellation of a  *)
(* delay, and the pthreads given back to the system.                       *)
(***************************************************************************)
EXTENDS CommThread, TLAPS

-----------------------------------------------------------------------------
(* The inductive invariants.                                               *)

\* The count tells who holds the reference; the routine at work is that of
\* the latest pthread and has not ended.
RefInv ==
  /\ count = (IF owned THEN 1 ELSE 0) + (IF isended THEN 0 ELSE 1)
  /\ freed <=> count = 0
  /\ tid = starts /\ (~isended => tid # 0)
  /\ \A t \in Tids : Active(t) => t = tid /\ ~isended
  /\ \A t \in Tids : t > starts => at[t] = "none"

\* The flag stays up while a cancelled routine may still look at it.
Delayed == {"born_after", "test", "cas", "park", "wait", "woken", "test2"}

CancelInv ==
  \A t \in doomed : /\ at[t] \in Delayed \cup {"cleanup", "ended"}
                    /\ at[t] \in Delayed => iscanceldelaystart

\* User u has taken it upon itself to join pthread t.
Joins(u, t) ==
  \/ pc[u] = "joining" /\ joinee[u] = t
  \/ pc[u] = "join" /\ tid = t

Joined(t) == \E u \in Users : Joins(u, t)

\* The latest pthread is open: neither given back nor promised to a join.
Open(t) == t = tid /\ ~isjoined /\ owned

\* A pthread has one joiner at most. An open one has none and has not been
\* given back; of the others each has a joiner or has been given back once.
ReapInv ==
  /\ \A u \in Users : pc[u] # "idle" => owned
  /\ \A t \in Tids : t > starts => reaped[t] = 0
  /\ \A u \in Users : joinee[u] <= starts
  /\ \A u \in Users : pc[u] = "joining" => joinee[u] # 0
  /\ \A u \in Users : pc[u] = "join" => tid # 0
  /\ ~spoiled =>
       /\ \A u, v \in Users : \A t \in Tids : Joins(u, t) /\ Joins(v, t) => u = v
       /\ \A t \in Tids : t <= starts =>
            reaped[t] = IF Open(t) \/ Joined(t) THEN 0 ELSE 1
       /\ \A t \in Tids : Open(t) => ~Joined(t)

-----------------------------------------------------------------------------
(* Type correctness.                                                       *)

\* The values of the program counters of a routine and of a user.
Places == {"none", "born", "born_after", "test", "cas", "park", "wait", "woken", "test2",
           "run", "cleanup", "ended"}

LEMMA ReapType ==
  ASSUME TypeOK, NEW t, Reap(t)
  PROVE  reaped' \in [Tids -> Nat]
BY DEF TypeOK, Reap

LEMMA DetachOldType ==
  ASSUME TypeOK, DetachOld
  PROVE  reaped' \in [Tids -> Nat]
<1>1. reaped \in [Tids -> Nat]
  BY DEF TypeOK
<1> QED
  BY <1>1, ReapType DEF DetachOld

\* An operation of the Thread object leaves every variable in its type.
LEMMA OperationType ==
  ASSUME TypeOK, RefInv, NEW u \in Users, Operation(u) \/ Inside(u)
  PROVE  TypeOK'
<1> USE ThreadAssumption
<1>1. ASSUME StartNow(u) \/ StartAfter(u) PROVE TypeOK'
  <2>1. PICK first \in {"born", "born_after"} : Start(u, first)
    BY <1>1 DEF StartNow, StartAfter
  <2>2. /\ iscanceldelaystart' \in BOOLEAN /\ anyway_notify_' \in BOOLEAN
    BY <1>1 DEF StartNow, StartAfter, cancel, TypeOK
  <2>3. reaped' \in [Tids -> Nat]
    BY <2>1, DetachOldType DEF Start
  <2>4. /\ starts + 1 \in Tids /\ starts' \in 0 .. MaxStarts /\ tid' \in 0 .. MaxStarts
    BY <2>1 DEF Start, TypeOK, Tids
  <2>5. at' \in [Tids -> Places]
    BY <2>1, <2>4 DEF Start, TypeOK, Places
  <2>6. count' \in 0 .. 2
    BY <2>1 DEF Start, AddRef, MayStart, isruning, TypeOK, RefInv
  <2>7. spoiled' \in BOOLEAN
    BY <2>1 DEF Start
  <2> QED
    BY <2>1, <2>2, <2>3, <2>4, <2>5, <2>6, <2>7 DEF Start, TypeOK, users, Places
<1>2. ASSUME StartFails(u) PROVE TypeOK'
  <2>1. reaped' \in [Tids -> Nat]
    BY <1>2, DetachOldType DEF StartFails
  <2>2. fails' \in 0 .. MaxFails
    BY <1>2 DEF StartFails, TypeOK
  <2> QED
    BY <1>2, <2>1, <2>2 DEF StartFails, TypeOK, users, cancel
<1>3. ASSUME CancelFlag(u) PROVE TypeOK'
  <2>1. doomed' \subseteq Tids
    BY <1>3 DEF CancelFlag, TypeOK
  <2> QED
    BY <1>3, <2>1 DEF CancelFlag, Goto, ref, TypeOK
<1>4. ASSUME JoinMark(u) PROVE TypeOK'
  BY <1>4 DEF JoinMark, Goto, cancel, history, TypeOK
<1>5. ASSUME CancelNotify(u) PROVE TypeOK'
  BY <1>5 DEF CancelNotify, Goto, ref, history, TypeOK
<1>6. ASSUME JoinRead(u) PROVE TypeOK'
  BY <1>6 DEF JoinRead, Goto, ref, cancel, history, TypeOK
<1>7. ASSUME JoinReturn(u) PROVE TypeOK'
  <2>1. reaped' \in [Tids -> Nat]
    BY <1>7, ReapType DEF JoinReturn
  <2> QED
    BY <1>7, <2>1 DEF JoinReturn, Goto, ref, cancel, TypeOK
<1> QED
  BY <1>1, <1>2, <1>3, <1>4, <1>5, <1>6, <1>7 DEF Operation, Inside

LEMMA DestroyType ==
  ASSUME TypeOK, RefInv, Destroy
  PROVE  TypeOK'
<1>1. reaped' \in [Tids -> Nat]
  BY DetachOldType DEF Destroy
<1>2. count' \in 0 .. 2 /\ freed' \in BOOLEAN
  BY DEF Destroy, RemoveRef, TypeOK, RefInv
<1> QED
  BY <1>1, <1>2 DEF Destroy, users, cancel, TypeOK

\* So does a step of a routine.
LEMMA RoutineType ==
  ASSUME TypeOK, RefInv, NEW t \in Tids, Routine(t)
  PROVE  TypeOK'
<1>1. ASSUME RoutineInit(t) \/ RoutineTest(t) \/ RoutinePark(t) \/ RoutineTimeout(t)
             \/ RoutineTest2(t) \/ RoutineRun(t)
      PROVE  TypeOK'
  <2>1. at' \in [Tids -> Places]
    BY <1>1 DEF RoutineInit, RoutineTest, RoutinePark, RoutineTimeout, RoutineTest2,
                RoutineRun, Step, TypeOK, Places
  <2>2. UNCHANGED <<owned, freed, ref, cancel, splock, users, history>>
    BY <1>1 DEF RoutineInit, RoutineTest, RoutinePark, RoutineTimeout, RoutineTest2,
                RoutineRun
  <2> QED
    BY <2>1, <2>2 DEF ref, cancel, users, history, TypeOK, Places
<1>2. ASSUME RoutineCas(t) \/ RoutineWoken(t) PROVE TypeOK'
  <2>1. at' \in [Tids -> Places]
    BY <1>2 DEF RoutineCas, RoutineWoken, Step, TypeOK, Places
  <2> QED
    BY <1>2, <2>1 DEF RoutineCas, RoutineWoken, ref, users, history, TypeOK, Places
<1>3. ASSUME RoutineCleanup(t) PROVE TypeOK'
  <2>1. count' \in 0 .. 2 /\ freed' \in BOOLEAN
    BY <1>3 DEF RoutineCleanup, RemoveRef, Active, TypeOK, RefInv
  <2> QED
    BY <1>3, <2>1 DEF RoutineCleanup, Step, cancel, users, history, TypeOK
<1> QED
  BY <1>1, <1>2, <1>3 DEF Routine

-----------------------------------------------------------------------------
(* Who holds the reference.                                                *)

LEMMA OperationRef ==
  ASSUME TypeOK, RefInv, NEW u \in Users, Operation(u) \/ Inside(u)
  PROVE  RefInv'
<1> USE ThreadAssumption
<1>1. ASSUME StartNow(u) \/ StartAfter(u) PROVE RefInv'
  <2>1. PICK first \in {"born", "born_after"} : Start(u, first)
    BY <1>1 DEF StartNow, StartAfter
  <2>2. isended /\ ~isended' /\ owned /\ owned' /\ UNCHANGED freed
    BY <2>1 DEF Start, Enters, MayStart, isruning
  <2>3. count = 1 /\ count' = 2 /\ ~freed
    BY <2>1, <2>2 DEF Start, AddRef, RefInv
  <2>4. tid' = starts' /\ tid' # 0
    BY <2>1 DEF Start, TypeOK
  <2>5. ASSUME NEW t \in Tids, Active(t)' PROVE t = tid'
    BY <2>1, <2>2, <2>5 DEF Start, Active, RefInv, TypeOK
  <2>6. ASSUME NEW t \in Tids, t > starts' PROVE at'[t] = "none"
    BY <2>1, <2>6 DEF Start, RefInv, TypeOK, Tids
  <2> QED
    BY <2>2, <2>3, <2>4, <2>5, <2>6 DEF RefInv
<1>2. ASSUME StartFails(u) PROVE RefInv'
  BY <1>2 DEF StartFails, RefInv, Active
<1>3. ASSUME CancelFlag(u) PROVE RefInv'
  BY <1>3 DEF CancelFlag, ref, RefInv, Active
<1>4. ASSUME JoinMark(u) PROVE RefInv'
  BY <1>4 DEF JoinMark, history, RefInv, Active
<1>5. ASSUME CancelNotify(u) PROVE RefInv'
  <2>1. \A t \in Tids : /\ Active(t)' => Active(t)
                        /\ at[t] = "none" => at'[t] = "none"
    BY <1>5 DEF CancelNotify, Active
  <2> QED
    BY <1>5, <2>1 DEF CancelNotify, ref, history, RefInv
<1>6. ASSUME JoinRead(u) PROVE RefInv'
  BY <1>6 DEF JoinRead, ref, history, RefInv, Active
<1>7. ASSUME JoinReturn(u) PROVE RefInv'
  BY <1>7 DEF JoinReturn, ref, RefInv, Active
<1> QED
  BY <1>1, <1>2, <1>3, <1>4, <1>5, <1>6, <1>7 DEF Operation, Inside

LEMMA DestroyRef ==
  ASSUME TypeOK, RefInv, Destroy
  PROVE  RefInv'
BY DEF Destroy, RemoveRef, RefInv, Active, TypeOK

LEMMA RoutineRef ==
  ASSUME TypeOK, RefInv, NEW t \in Tids, Routine(t)
  PROVE  RefInv'
<1>1. CASE RoutineCleanup(t)
  <2>1. t = tid /\ ~isended /\ \A s \in Tids : Active(s) => s = t
    BY <1>1 DEF RoutineCleanup, Active, RefInv
  <2>2. isended' /\ UNCHANGED <<owned, tid, starts>>
    BY <1>1 DEF RoutineCleanup, history
  <2>3. \A s \in Tids : ~Active(s)'
    BY <1>1, <2>1 DEF RoutineCleanup, Step, Active, TypeOK
  <2>4. count' = count - 1 /\ (freed' <=> count = 1)
    BY <1>1 DEF RoutineCleanup, RemoveRef
  <2>5. \A s \in Tids : s # t => at'[s] = at[s]
    BY <1>1 DEF RoutineCleanup, Step, TypeOK
  <2>6. t <= starts
    BY <2>1 DEF RefInv, TypeOK
  <2> QED
    BY <2>1, <2>2, <2>3, <2>4, <2>5, <2>6 DEF RefInv, TypeOK
<1>2. CASE ~RoutineCleanup(t)
  <2>1. \A s \in Tids : /\ Active(s)' => Active(s)
                        /\ at[s] = "none" => at'[s] = "none"
    BY <1>2 DEF Routine, RoutineInit, RoutineTest, RoutineCas, RoutinePark, RoutineTimeout,
                RoutineWoken, RoutineTest2, RoutineRun, Step, Active, TypeOK
  <2>2. UNCHANGED <<owned, freed, ref, starts>>
    BY <1>2 DEF Routine, RoutineInit, RoutineTest, RoutineCas, RoutinePark, RoutineTimeout,
                RoutineWoken, RoutineTest2, RoutineRun, history
  <2> QED
    BY <2>1, <2>2 DEF ref, RefInv
<1> QED
  BY <1>1, <1>2

LEMMA RefInit ==
  ASSUME Init
  PROVE  TypeOK /\ RefInv
<1>1. doomed = {} /\ doomed \subseteq Tids
  BY DEF Init
<1>2. TypeOK
  <2>1. splock \in Users \cup {None}
    BY DEF Init
  <2>2. /\ pc \in [Users -> {"idle", "notify", "join", "joining"}]
        /\ at \in [Tids -> Places]
    BY DEF Init, Places
  <2>3. /\ joinee \in [Users -> 0 .. MaxStarts] /\ reaped \in [Tids -> Nat]
        /\ starts \in 0 .. MaxStarts /\ fails \in 0 .. MaxFails
        /\ count \in 0 .. 2 /\ tid \in 0 .. MaxStarts
    BY ThreadAssumption DEF Init
  <2>4. /\ owned \in BOOLEAN /\ freed \in BOOLEAN /\ isjoined \in BOOLEAN
        /\ isended \in BOOLEAN /\ iscanceldelaystart \in BOOLEAN
        /\ anyway_notify_ \in BOOLEAN /\ spoiled \in BOOLEAN
    BY DEF Init
  <2> QED
    BY <1>1, <2>1, <2>2, <2>3, <2>4 DEF TypeOK, Places
<1>3. RefInv
  BY DEF Init, RefInv, Active
<1> QED
  BY <1>2, <1>3

LEMMA RefStep ==
  ASSUME TypeOK /\ RefInv, [Next]_vars
  PROVE  (TypeOK /\ RefInv)'
<1>1. ASSUME NEW u \in Users, Operation(u) \/ Inside(u) PROVE (TypeOK /\ RefInv)'
  BY <1>1, OperationType, OperationRef
<1>2. CASE Destroy
  BY <1>2, DestroyType, DestroyRef
<1>3. ASSUME NEW t \in Tids, Routine(t) PROVE (TypeOK /\ RefInv)'
  BY <1>3, RoutineType, RoutineRef
<1>4. CASE UNCHANGED vars
  BY <1>4 DEF vars, ref, cancel, users, history, TypeOK, RefInv, Active
<1> QED
  BY <1>1, <1>2, <1>3, <1>4 DEF Next

\* Every variable keeps its type; the count is 0, 1 or 2.
THEOREM ThreadTypes == Spec => []TypeOK
<1>1. Spec => [](TypeOK /\ RefInv)
  BY RefInit, RefStep, PTL DEF Spec
<1> QED
  BY <1>1, PTL

\* ~Thread and the end of the routine may come in either order, the
\* reference is deleted by the second of them.
THEOREM Reachability == Spec => []DeletedUnreachable
<1>1. TypeOK /\ RefInv => DeletedUnreachable
  BY DEF RefInv, DeletedUnreachable
<1>2. Spec => [](TypeOK /\ RefInv)
  BY RefInit, RefStep, PTL DEF Spec
<1> QED
  BY <1>1, <1>2, PTL

\* start's test of isruning keeps the routines of one Thread object apart.
THEOREM OneAtATime == Spec => []OneRoutine
<1>1. TypeOK /\ RefInv => OneRoutine
  BY DEF RefInv, OneRoutine
<1>2. Spec => [](TypeOK /\ RefInv)
  BY RefInit, RefStep, PTL DEF Spec
<1> QED
  BY <1>1, <1>2, PTL

-----------------------------------------------------------------------------
(* Cancelling a delay.                                                     *)

LEMMA OperationCancel ==
  ASSUME TypeOK, RefInv, CancelInv, NEW u \in Users, Operation(u) \/ Inside(u)
  PROVE  CancelInv'
<1>1. ASSUME StartNow(u) \/ StartAfter(u) \/ StartFails(u) PROVE CancelInv'
  <2>1. isended /\ UNCHANGED doomed
    BY <1>1 DEF StartNow, StartAfter, StartFails, Start, MayStart, isruning
  <2>2. \A t \in doomed : at[t] = "ended"
    BY <2>1 DEF CancelInv, RefInv, Active, Delayed, TypeOK
  <2>3. ASSUME NEW t \in doomed PROVE at'[t] = "ended"
    <3>1. CASE StartFails(u)
      BY <3>1, <2>2 DEF StartFails
    <3>2. CASE StartNow(u) \/ StartAfter(u)
      <4>1. PICK first \in {"born", "born_after"} : Start(u, first)
        BY <3>2 DEF StartNow, StartAfter
      <4>2. t # starts + 1
        BY <2>2 DEF RefInv, TypeOK
      <4> QED
        BY <4>1, <4>2, <2>2 DEF Start, TypeOK
    <3> QED
      BY <1>1, <3>1, <3>2
  <2> QED
    BY <2>1, <2>3 DEF CancelInv, Delayed
<1>2. ASSUME CancelFlag(u) PROVE CancelInv'
  BY <1>2 DEF CancelFlag, CancelInv, Delayed
<1>3. ASSUME CancelNotify(u) PROVE CancelInv'
  BY <1>3 DEF CancelNotify, history, CancelInv, Delayed, TypeOK
<1>4. ASSUME JoinMark(u) \/ JoinRead(u) \/ JoinReturn(u) PROVE CancelInv'
  BY <1>4 DEF JoinMark, JoinRead, JoinReturn, cancel, history, CancelInv
<1> QED
  BY <1>1, <1>2, <1>3, <1>4 DEF Operation, Inside

LEMMA RoutineCancel ==
  ASSUME TypeOK, CancelInv, NEW t \in Tids, Routine(t)
  PROVE  CancelInv' /\ \A s \in doomed : at'[s] = "run" => at[s] = "run"
<1>1. UNCHANGED <<iscanceldelaystart, doomed>>
  BY DEF Routine, RoutineInit, RoutineTest, RoutineCas, RoutinePark, RoutineTimeout,
         RoutineWoken, RoutineTest2, RoutineRun, RoutineCleanup, cancel, history
<1>2. \A s \in Tids : s # t => at'[s] = at[s]
  BY DEF Routine, RoutineInit, RoutineTest, RoutineCas, RoutinePark, RoutineTimeout,
         RoutineWoken, RoutineTest2, RoutineRun, RoutineCleanup, Step, TypeOK
<1>3. ASSUME t \in doomed
      PROVE  /\ at'[t] \in Delayed \cup {"cleanup", "ended"}
             /\ at'[t] \in Delayed => at[t] \in Delayed
  <2>1. /\ at[t] \in Delayed \cup {"cleanup", "ended"}
        /\ at[t] \in Delayed => iscanceldelaystart
    BY <1>3 DEF CancelInv
  <2> QED
    BY <2>1 DEF Routine, RoutineInit, RoutineTest, RoutineCas, RoutinePark, RoutineTimeout,
                RoutineWoken, RoutineTest2, RoutineRun, RoutineCleanup, Step, TypeOK, Delayed
<1>4. \A s \in doomed : s \in Tids
  BY DEF TypeOK
<1>5. CancelInv'
  BY <1>1, <1>2, <1>3, <1>4 DEF CancelInv
<1> QED
  BY <1>1, <1>5 DEF CancelInv, Delayed

\* A routine that was cancelled before its second look at the flag never
\* comes to its job: the flag is not lowered before the routine has ended.
THEOREM CancelIsObeyed == Spec => CancelHolds
<1>1. Init => CancelInv
  BY DEF Init, CancelInv
<1>2. ASSUME TypeOK, RefInv, CancelInv, [Next]_vars
      PROVE  CancelInv' /\ [\A t \in doomed : at'[t] = "run" => at[t] = "run"]_vars
  <2>1. ASSUME NEW u \in Users, Operation(u) \/ Inside(u)
        PROVE  CancelInv' /\ \A t \in doomed : at'[t] = "run" => at[t] = "run"
    <3>1. CancelInv'
      BY <1>2, <2>1, OperationCancel
    <3>2. doomed \subseteq doomed'
      BY <2>1 DEF Operation, Inside, StartNow, StartAfter, Start, StartFails, CancelFlag,
                  JoinMark, CancelNotify, JoinRead, JoinReturn, history
    <3> QED
      BY <3>1, <3>2 DEF CancelInv, Delayed
  <2>2. CASE Destroy
    BY <1>2, <2>2 DEF Destroy, cancel, CancelInv
  <2>3. ASSUME NEW t \in Tids, Routine(t)
        PROVE  CancelInv' /\ \A s \in doomed : at'[s] = "run" => at[s] = "run"
    BY <1>2, <2>3, RoutineCancel
  <2>4. CASE UNCHANGED vars
    BY <1>2, <2>4 DEF vars, cancel, history, CancelInv
  <2> QED
    BY <1>2, <2>1, <2>2, <2>3, <2>4 DEF Next
<1>3. Spec => [](TypeOK /\ RefInv)
  BY RefInit, RefStep, PTL DEF Spec
<1> QED
  BY <1>1, <1>2, <1>3, PTL DEF Spec, CancelHolds

-----------------------------------------------------------------------------
(* The pthreads given back.                                                *)

\* DetachOld gives back the latest pthread if it is open, and nothing else.
LEMMA DetachesOpen ==
  ASSUME TypeOK, owned, DetachOld, NEW t \in Tids
  PROVE  reaped'[t] = IF Open(t) THEN reaped[t] + 1 ELSE reaped[t]
<1>1. tid = 0 => t # tid
  BY DEF Tids
<1>2. CASE tid # 0 /\ ~isjoined
  <2>1. reaped' = [i \in Tids |-> IF i = tid THEN reaped[i] + 1 ELSE reaped[i]]
    BY <1>2 DEF DetachOld, Reap
  <2>2. Open(t) <=> t = tid
    BY <1>2 DEF Open
  <2> QED
    BY <2>1, <2>2
<1>3. CASE ~(tid # 0 /\ ~isjoined)
  <2>1. ~Open(t)
    BY <1>1, <1>3 DEF Open
  <2>2. reaped' = reaped
    BY <1>3 DEF DetachOld
  <2> QED
    BY <2>1, <2>2
<1> QED
  BY <1>2, <1>3

LEMMA StartReap ==
  ASSUME TypeOK, RefInv, ReapInv, NEW u \in Users, StartNow(u) \/ StartAfter(u)
  PROVE  ReapInv'
<1>1. PICK first \in {"born", "born_after"} : Start(u, first)
  BY DEF StartNow, StartAfter
<1>2. /\ owned /\ owned' /\ tid = starts /\ tid' = starts + 1 /\ starts' = starts + 1
      /\ starts \in Nat /\ starts + 1 \in Tids /\ ~isjoined' /\ DetachOld
      /\ UNCHANGED <<pc, joinee>>
      /\ spoiled' = (spoiled \/ \E v \in Users : pc[v] = "join")
  BY <1>1, ThreadAssumption DEF Start, Enters, RefInv, TypeOK, users, Tids
<1>3. \A t \in Tids : reaped'[t] = IF Open(t) THEN reaped[t] + 1 ELSE reaped[t]
  BY <1>2, DetachesOpen
<1>4. \A v \in Users : joinee[v] <= starts /\ joinee[v] \in 0 .. MaxStarts
  BY DEF ReapInv, TypeOK
<1>5. \A t \in Tids : t > starts' => reaped'[t] = 0
  BY <1>2, <1>3 DEF ReapInv, Open, Tids
<1>6. \A v \in Users : joinee'[v] <= starts'
  BY <1>2, <1>4, ThreadAssumption
<1>7. ASSUME ~spoiled'
      PROVE  /\ \A v, w \in Users : \A t \in Tids : Joins(v, t)' /\ Joins(w, t)' => v = w
             /\ \A t \in Tids : t <= starts' =>
                  reaped'[t] = IF Open(t)' \/ Joined(t)' THEN 0 ELSE 1
             /\ \A t \in Tids : Open(t)' => ~Joined(t)'
  <2>1. ~spoiled /\ \A v \in Users : pc[v] # "join"
    BY <1>2, <1>7
  <2>2. \A v \in Users : \A t \in Tids : Joins(v, t)' <=> Joins(v, t)
    BY <1>2, <2>1 DEF Joins
  <2>3. \A t \in Tids : Joined(t)' <=> Joined(t)
    BY <2>2 DEF Joined
  <2>4. \A t \in Tids : Open(t)' <=> t = starts + 1
    BY <1>2 DEF Open
  <2>5. ~Joined(starts + 1)
    BY <1>2, <1>4, <2>1 DEF Joined, Joins
  <2>6. ASSUME NEW t \in Tids, t <= starts'
        PROVE  reaped'[t] = IF Open(t)' \/ Joined(t)' THEN 0 ELSE 1
    <3>1. CASE t = starts + 1
      BY <1>2, <1>3, <2>4, <3>1 DEF ReapInv, Open
    <3>2. CASE t # starts + 1
      <4>1. t <= starts /\ ~Open(t)'
        BY <1>2, <2>4, <2>6, <3>2 DEF Tids
      <4>2. /\ reaped[t] = IF Open(t) \/ Joined(t) THEN 0 ELSE 1
            /\ Open(t) => ~Joined(t)
        BY <2>1, <4>1 DEF ReapInv
      <4> QED
        BY <1>3, <2>3, <4>1, <4>2
    <3> QED
      BY <3>1, <3>2
  <2> QED
    BY <2>1, <2>2, <2>3, <2>4, <2>5, <2>6 DEF ReapInv
<1>8. \A v \in Users : /\ pc'[v] # "idle" => owned'
                       /\ pc'[v] = "joining" => joinee'[v] # 0
                       /\ pc'[v] = "join" => tid' # 0
  BY <1>2 DEF ReapInv
<1> QED
  BY <1>5, <1>6, <1>7, <1>8 DEF ReapInv

LEMMA StartFailsReap ==
  ASSUME TypeOK, RefInv, ReapInv, NEW u \in Users, StartFails(u)
  PROVE  ReapInv'
<1>1. /\ owned /\ owned' /\ tid = starts /\ DetachOld /\ spoiled'
      /\ UNCHANGED <<tid, starts, pc, joinee>>
  BY DEF StartFails, Enters, RefInv, users
<1>2. \A t \in Tids : reaped'[t] = IF Open(t) THEN reaped[t] + 1 ELSE reaped[t]
  BY <1>1, DetachesOpen
<1>3. \A t \in Tids : t > starts' => reaped'[t] = 0
  BY <1>1, <1>2 DEF ReapInv, Open, TypeOK, Tids
<1> QED
  BY <1>1, <1>3 DEF ReapInv

LEMMA JoinMarkReap ==
  ASSUME TypeOK, RefInv, ReapInv, NEW u \in Users, JoinMark(u)
  PROVE  ReapInv'
<1>1. /\ owned /\ isruning /\ ~isjoined /\ pc[u] = "idle" /\ isjoined'
      /\ pc' = [pc EXCEPT ![u] = "join"]
      /\ UNCHANGED <<owned, tid, joinee, reaped, starts, spoiled>>
  BY DEF JoinMark, Enters, Goto, history
<1>2. pc \in [Users -> {"idle", "notify", "join", "joining"}]
  BY DEF TypeOK
<1>3. tid \in Tids /\ Open(tid)
  BY <1>1 DEF RefInv, ReapInv, Open, TypeOK, isruning, Tids, Active
<1>4. \A v \in Users : \A t \in Tids : Joins(v, t)' <=> Joins(v, t) \/ (v = u /\ t = tid)
  BY <1>1, <1>2 DEF Joins
<1>5. \A t \in Tids : ~Open(t)' /\ (Joined(t)' <=> Joined(t) \/ Open(t))
  BY <1>1, <1>3, <1>4 DEF Joined, Open
<1>6. ASSUME ~spoiled
      PROVE  /\ \A v, w \in Users : \A t \in Tids : Joins(v, t)' /\ Joins(w, t)' => v = w
             /\ \A t \in Tids : t <= starts' =>
                  reaped'[t] = IF Open(t)' \/ Joined(t)' THEN 0 ELSE 1
             /\ \A t \in Tids : Open(t)' => ~Joined(t)'
  <2>1. \A v \in Users : ~Joins(v, tid)
    BY <1>3, <1>6 DEF ReapInv, Joined
  <2>2. \A v, w \in Users : \A t \in Tids : Joins(v, t)' /\ Joins(w, t)' => v = w
    BY <1>4, <1>6, <2>1 DEF ReapInv
  <2>3. ASSUME NEW t \in Tids, t <= starts
        PROVE  reaped'[t] = IF Open(t)' \/ Joined(t)' THEN 0 ELSE 1
    <3>1. reaped[t] = IF Open(t) \/ Joined(t) THEN 0 ELSE 1
      BY <1>6, <2>3 DEF ReapInv
    <3> QED
      BY <1>1, <1>5, <3>1
  <2> QED
    BY <1>1, <1>5, <2>2, <2>3
<1>7. \A v \in Users : /\ pc'[v] # "idle" => owned'
                       /\ pc'[v] = "joining" => joinee'[v] # 0
                       /\ pc'[v] = "join" => tid' # 0
  BY <1>1, <1>2, <1>3 DEF ReapInv, Tids
<1>8. /\ \A v \in Users : joinee'[v] <= starts'
      /\ \A t \in Tids : t > starts' => reaped'[t] = 0
  BY <1>1 DEF ReapInv
<1> QED
  BY <1>1, <1>6, <1>7, <1>8 DEF ReapInv

\* What changes neither a pthread's state towards the system nor a joiner.
LEMMA QuietReap ==
  ASSUME TypeOK, RefInv, ReapInv,
         UNCHANGED <<owned, tid, isjoined, starts, reaped, spoiled, joinee>>,
         \A v \in Users : /\ pc'[v] = "join" <=> pc[v] = "join"
                          /\ pc'[v] = "joining" <=> pc[v] = "joining",
         \A v \in Users : pc'[v] # "idle" => owned
  PROVE  ReapInv'
<1>1. \A v \in Users : \A t \in Tids : Joins(v, t)' <=> Joins(v, t)
  BY DEF Joins
<1>2. \A t \in Tids : /\ Joined(t)' <=> Joined(t)
                      /\ Open(t)' <=> Open(t)
  BY <1>1 DEF Joined, Open
<1> QED
  BY <1>1, <1>2 DEF ReapInv

LEMMA JoinReadReap ==
  ASSUME TypeOK, RefInv, ReapInv, NEW u \in Users, JoinRead(u)
  PROVE  ReapInv'
<1>1. /\ pc[u] = "join" /\ pc' = [pc EXCEPT ![u] = "joining"]
      /\ joinee' = [joinee EXCEPT ![u] = tid]
      /\ UNCHANGED <<owned, tid, isjoined, starts, reaped, spoiled>>
  BY DEF JoinRead, Goto, ref, history
<1>2. /\ pc \in [Users -> {"idle", "notify", "join", "joining"}]
      /\ joinee \in [Users -> 0 .. MaxStarts] /\ tid = starts /\ starts \in Nat
  BY DEF TypeOK, RefInv
<1>3. \A v \in Users : \A t \in Tids : Joins(v, t)' <=> Joins(v, t)
  BY <1>1, <1>2 DEF Joins
<1>4. \A t \in Tids : /\ Joined(t)' <=> Joined(t)
                      /\ Open(t)' <=> Open(t)
  BY <1>1, <1>3 DEF Joined, Open
<1>5. \A v \in Users : /\ joinee'[v] <= starts'
                       /\ pc'[v] # "idle" => owned'
                       /\ pc'[v] = "joining" => joinee'[v] # 0
                       /\ pc'[v] = "join" => tid' # 0
  BY <1>1, <1>2 DEF ReapInv
<1> QED
  BY <1>1, <1>3, <1>4, <1>5 DEF ReapInv

LEMMA JoinReturnReap ==
  ASSUME TypeOK, RefInv, ReapInv, NEW u \in Users, JoinReturn(u)
  PROVE  ReapInv'
<1>1. PICK j \in Tids : j = joinee[u] /\ j <= starts /\ pc[u] = "joining"
  BY DEF JoinReturn, ReapInv, TypeOK, Tids
<1>2. /\ pc[u] = "joining" /\ pc' = [pc EXCEPT ![u] = "idle"] /\ Reap(j)
      /\ UNCHANGED <<owned, tid, isjoined, starts, spoiled, joinee>>
  BY <1>1 DEF JoinReturn, Goto, ref
<1>3. /\ pc \in [Users -> {"idle", "notify", "join", "joining"}]
      /\ reaped \in [Tids -> Nat] /\ joinee \in [Users -> 0 .. MaxStarts]
      /\ starts \in 0 .. MaxStarts
  BY DEF TypeOK
<1>4. j <= starts /\ Joins(u, j) /\ Joined(j)
  BY <1>1 DEF Joins, Joined
<1>5. \A t \in Tids : reaped'[t] = IF t = j THEN reaped[t] + 1 ELSE reaped[t]
  BY <1>2 DEF Reap
<1>6. \A v \in Users : \A t \in Tids : Joins(v, t)' <=> Joins(v, t) /\ v # u
  BY <1>1, <1>2, <1>3 DEF Joins
<1>7. \A v \in Users : \A t \in Tids : Joins(v, t)' => Joins(v, t)
  BY <1>6
<1>8. \A t \in Tids : t # j => (Joined(t)' <=> Joined(t))
  <2>1. \A t \in Tids : t # j => ~Joins(u, t)
    BY <1>1 DEF Joins
  <2> QED
    BY <1>6, <2>1 DEF Joined
<1>9. \A t \in Tids : Joined(t)' => Joined(t)
  BY <1>7 DEF Joined
<1>10. ~Joins(u, j)'
  BY <1>4, <1>6
<1>11. \A t \in Tids : Open(t)' <=> Open(t)
  BY <1>2 DEF Open
<1>12. \A v \in Users : /\ joinee'[v] <= starts'
                        /\ pc'[v] # "idle" => owned'
                        /\ pc'[v] = "joining" => joinee'[v] # 0
                        /\ pc'[v] = "join" => tid' # 0
  BY <1>2, <1>3 DEF ReapInv
<1>13. \A t \in Tids : t > starts' => reaped'[t] = 0
  <2>1. ASSUME NEW t \in Tids, t > starts PROVE reaped'[t] = 0
    <3>1. t # j /\ reaped[t] = 0
      BY <1>1, <1>3, <2>1 DEF ReapInv, Tids
    <3> QED
      BY <3>1, <1>5
  <2> QED
    BY <2>1, <1>2
<1>14. ASSUME ~spoiled
      PROVE  /\ \A v, w \in Users : \A t \in Tids : Joins(v, t)' /\ Joins(w, t)' => v = w
             /\ \A t \in Tids : t <= starts' =>
                  reaped'[t] = IF Open(t)' \/ Joined(t)' THEN 0 ELSE 1
             /\ \A t \in Tids : Open(t)' => ~Joined(t)'
  <2>1. ~Open(j) /\ ~Joined(j)' /\ reaped[j] = 0
    BY <1>4, <1>6, <1>14 DEF ReapInv, Joined
  <2>2. ASSUME NEW t \in Tids, t <= starts
        PROVE  reaped'[t] = IF Open(t)' \/ Joined(t)' THEN 0 ELSE 1
    <3>1. reaped[t] = IF Open(t) \/ Joined(t) THEN 0 ELSE 1
      BY <1>14, <2>2 DEF ReapInv
    <3> QED
      BY <1>5, <1>11, <1>8, <2>1, <3>1
  <2> QED
    BY <1>2, <1>7, <1>9, <1>11, <1>14, <2>2 DEF ReapInv
<1> QED
  BY <1>2, <1>12, <1>13, <1>14 DEF ReapInv

LEMMA DestroyReap ==
  ASSUME TypeOK, RefInv, ReapInv, Destroy
  PROVE  ReapInv'
<1>1. /\ owned /\ ~owned' /\ DetachOld /\ \A v \in Users : pc[v] = "idle"
      /\ UNCHANGED <<pc, joinee, tid, isjoined, starts, spoiled>> /\ tid = starts
  BY DEF Destroy, users, RefInv
<1>2. \A t \in Tids : reaped'[t] = IF Open(t) THEN reaped[t] + 1 ELSE reaped[t]
  BY <1>1, DetachesOpen
<1>3. \A t \in Tids : ~Open(t)' /\ ~Joined(t) /\ ~Joined(t)'
  BY <1>1 DEF Open, Joined, Joins
<1>4. \A v \in Users : \A t \in Tids : ~Joins(v, t)'
  BY <1>1 DEF Joins
<1>5. \A t \in Tids : t > starts' => reaped'[t] = 0
  BY <1>1, <1>2 DEF ReapInv, Open, TypeOK, Tids
<1>6. ~spoiled => \A t \in Tids : t <= starts => reaped'[t] = 1
  <2> SUFFICES ASSUME ~spoiled, NEW t \in Tids, t <= starts PROVE reaped'[t] = 1
    OBVIOUS
  <2>1. reaped[t] = IF Open(t) \/ Joined(t) THEN 0 ELSE 1
    BY DEF ReapInv
  <2> QED
    BY <1>2, <1>3, <2>1
<1>7. \A v \in Users : joinee'[v] <= starts' /\ pc'[v] = "idle"
  BY <1>1 DEF ReapInv
<1> QED
  BY <1>1, <1>3, <1>4, <1>5, <1>6, <1>7 DEF ReapInv

LEMMA ReapInit ==
  ASSUME Init
  PROVE  ReapInv
BY DEF Init, ReapInv, Tids, Joins, Joined, Open

LEMMA ReapStep ==
  ASSUME TypeOK, RefInv, ReapInv, [Next]_vars
  PROVE  ReapInv'
<1>1. ASSUME NEW u \in Users, Operation(u) \/ Inside(u) PROVE ReapInv'
  <2>1. CASE StartNow(u) \/ StartAfter(u)
    BY <2>1, StartReap
  <2>2. CASE StartFails(u)
    BY <2>2, StartFailsReap
  <2>3. CASE CancelFlag(u)
    <3>1. /\ owned /\ pc[u] = "idle" /\ pc' = [pc EXCEPT ![u] = "notify"]
          /\ UNCHANGED <<owned, tid, isjoined, starts, reaped, spoiled, joinee>>
      BY <2>3 DEF CancelFlag, Enters, Goto, ref
    <3> QED
      BY <3>1, QuietReap DEF TypeOK
  <2>4. CASE CancelNotify(u)
    <3>1. /\ pc[u] = "notify" /\ pc' = [pc EXCEPT ![u] = "idle"]
          /\ UNCHANGED <<owned, tid, isjoined, starts, reaped, spoiled, joinee>>
      BY <2>4 DEF CancelNotify, Goto, ref, history
    <3>2. \A v \in Users : pc[v] # "idle" => owned
      BY DEF ReapInv
    <3> QED
      BY <3>1, <3>2, QuietReap DEF TypeOK
  <2>5. CASE JoinMark(u)
    BY <2>5, JoinMarkReap
  <2>6. CASE JoinRead(u)
    BY <2>6, JoinReadReap
  <2>7. CASE JoinReturn(u)
    BY <2>7, JoinReturnReap
  <2> QED
    BY <1>1, <2>1, <2>2, <2>3, <2>4, <2>5, <2>6, <2>7 DEF Operation, Inside
<1>2. CASE Destroy
  BY <1>2, DestroyReap
<1>3. ASSUME NEW t \in Tids, Routine(t) PROVE ReapInv'
  <2>1. UNCHANGED <<owned, tid, isjoined, starts, reaped, spoiled, pc, joinee>>
    BY <1>3 DEF Routine, RoutineInit, RoutineTest, RoutineCas, RoutinePark, RoutineTimeout,
                RoutineWoken, RoutineTest2, RoutineRun, RoutineCleanup, ref, users, history
  <2> QED
    BY <2>1, QuietReap DEF ReapInv
<1>4. CASE UNCHANGED vars
  <2>1. UNCHANGED <<owned, tid, isjoined, starts, reaped, spoiled, pc, joinee>>
    BY <1>4 DEF vars, ref, users, history
  <2> QED
    BY <2>1, QuietReap DEF ReapInv
<1> QED
  BY <1>1, <1>2, <1>3, <1>4 DEF Next

LEMMA ReapAlways == Spec => [](TypeOK /\ RefInv /\ ReapInv)
<1>1. Spec => [](TypeOK /\ RefInv)
  BY RefInit, RefStep, PTL DEF Spec
<1> QED
  BY <1>1, ReapInit, ReapStep, PTL DEF Spec

\* Without a start between the halves of a join and without a failure of
\* pthread_create, no pthread is joined or detached twice, nor detached while
\* it is being joined.
THEOREM NoSecondReap == Spec => []ReapedOnce
<1>1. ASSUME TypeOK, RefInv, ReapInv PROVE ReapedOnce
  <2> SUFFICES ASSUME ~spoiled, NEW t \in Tids
               PROVE  reaped[t] + (IF \E u \in Users : pc[u] = "joining" /\ joinee[u] = t
                                   THEN 1 ELSE 0) <= 1
    BY DEF ReapedOnce
  <2>1. CASE t <= starts
    <3>1. reaped[t] = IF Open(t) \/ Joined(t) THEN 0 ELSE 1
      BY <1>1, <2>1 DEF ReapInv
    <3>2. (\E u \in Users : pc[u] = "joining" /\ joinee[u] = t) => Joined(t)
      BY DEF Joined, Joins
    <3> QED
      BY <3>1, <3>2
  <2>2. CASE t > starts
    BY <1>1, <2>2 DEF ReapInv
  <2> QED
    BY <1>1, <2>1, <2>2 DEF TypeOK, Tids
<1> QED
  BY <1>1, ReapAlways, PTL

\* Under the same two conditions none is left behind when the Thread object
\* is gone.
THEOREM NoPthreadLost == Spec => []NoneLeftBehind
<1>1. ASSUME TypeOK, RefInv, ReapInv PROVE NoneLeftBehind
  <2> SUFFICES ASSUME ~spoiled, ~owned, NEW t \in 1 .. starts PROVE reaped[t] = 1
    BY DEF NoneLeftBehind
  <2>1. t \in Tids /\ t <= starts
    BY <1>1, ThreadAssumption DEF TypeOK, Tids
  <2>2. ~Open(t) /\ ~Joined(t)
    BY <1>1 DEF ReapInv, Open, Joined, Joins
  <2> QED
    BY <1>1, <2>1, <2>2 DEF ReapInv
<1> QED
  BY <1>1, ReapAlways, PTL

=============================================================================
