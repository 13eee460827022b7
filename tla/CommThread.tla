----------------------------- MODULE CommThread -----------------------------
(***************************************************************************)
(* mars::comm::Thread: a pthread whose state lives in a RunnableReference, *)
(* counted by the Thread object that owns it and by the routine that runs  *)
(* in it, so that either may go first.  The appender's writer thread is    *)
(* started and joined, its three maintenance jobs and the delayed releases *)
(* are started after a delay and may be cancelled during it.               *)
(*                                                                         *)
(* splock is held over every operation; what the operations do under it    *)
(* that the routine reads without it is a step of its own.  The routine of *)
(* start_after waits on condtime, a Condition with the anyway_notify_ flag *)
(* that is to keep a notification nobody waits for.                        *)
(*                                                                         *)
(* start_periodic, kill and unsafe_exit have no callers in the logger.     *)
(***************************************************************************)
EXTENDS Naturals

CONSTANTS
  Users,       \* threads that call the operations of the Thread object
  None,        \* nobody
  MaxStarts,   \* bound: pthreads created
  MaxFails     \* bound: pthread_create failures

ASSUME ThreadAssumption ==
  /\ MaxStarts \in Nat /\ MaxFails \in Nat
  /\ None \notin Users

Tids == 1 .. MaxStarts

VARIABLES
  owned,                \* the Thread object exists
  freed,                \* the RunnableReference has been deleted
  count, tid, isjoined, isended, iscanceldelaystart,
  anyway_notify_,       \* of condtime
  splock,               \* the user in the middle of an operation
  pc, joinee,           \* where a user is, and the pthread it joins
  at,                   \* where each routine is
  reaped,               \* how often each pthread was joined or detached
  starts, fails,
  doomed,               \* routines cancelled before their second test
  spoiled               \* a start came between the two halves of a join, or
                        \* pthread_create failed

ref     == <<count, tid, isjoined, isended>>
cancel  == <<iscanceldelaystart, anyway_notify_>>
users   == <<pc, joinee>>
history == <<reaped, starts, fails, doomed, spoiled>>
vars    == <<owned, freed, ref, cancel, splock, users, at, history>>

isruning == ~isended
Active(t) == at[t] \notin {"none", "ended"}
Goto(u, l) == pc' = [pc EXCEPT ![u] = l]
Step(t, l) == at' = [at EXCEPT ![t] = l]

\* A detach or a join of pthread t; 0 is no pthread.
Reap(t) == reaped' = [i \in Tids |-> IF i = t THEN reaped[i] + 1 ELSE reaped[i]]

Init ==
  /\ owned = TRUE /\ freed = FALSE
  /\ count = 1 /\ tid = 0 /\ isjoined = FALSE /\ isended = TRUE
  /\ iscanceldelaystart = FALSE /\ anyway_notify_ = FALSE
  /\ splock = None
  /\ pc = [u \in Users |-> "idle"] /\ joinee = [u \in Users |-> 0]
  /\ at = [t \in Tids |-> "none"] /\ reaped = [t \in Tids |-> 0]
  /\ starts = 0 /\ fails = 0 /\ doomed = {} /\ spoiled = FALSE

\* RemoveRef: the last reference deletes.
RemoveRef == count' = count - 1 /\ freed' = (count = 1)

-----------------------------------------------------------------------------
(* Operations of the Thread object.                                        *)

\* A user about to enter an operation that takes splock.
Enters(u) == owned /\ splock = None /\ pc[u] = "idle"

\* Variant: the pthread of an earlier start is forgotten.
DetachNothing == UNCHANGED reaped

\* The pthread of an earlier start that nobody joined.
DetachOld == IF tid # 0 /\ ~isjoined THEN Reap(tid) ELSE UNCHANGED reaped

\* Variant: start does not ask whether the thread is running.
MayAlwaysStart == TRUE

MayStart == ~isruning

\* Variant: the routine does not count as a holder.
AddNoRef == UNCHANGED count

AddRef == count' = count + 1

\* start and start_after, with pthread_create succeeding.
Start(u, first) ==
  /\ Enters(u) /\ MayStart /\ starts < MaxStarts
  /\ DetachOld
  /\ isended' = FALSE /\ isjoined' = FALSE
  /\ AddRef
  /\ tid' = starts + 1 /\ starts' = starts + 1
  /\ at' = [at EXCEPT ![starts + 1] = first]
  /\ spoiled' = (spoiled \/ \E v \in Users : pc[v] = "join")
  /\ UNCHANGED <<owned, freed, splock, users, fails, doomed>>

StartNow(u) == Start(u, "born") /\ UNCHANGED cancel

StartAfter(u) ==
  /\ Start(u, "born_after")
  /\ anyway_notify_' = FALSE /\ iscanceldelaystart' = FALSE

\* pthread_create fails: the reference is taken back, tid stays as it was.
StartFails(u) ==
  /\ Enters(u) /\ MayStart /\ fails < MaxFails
  /\ DetachOld
  /\ isjoined' = FALSE
  /\ fails' = fails + 1 /\ spoiled' = TRUE
  /\ \/ UNCHANGED cancel
     \/ anyway_notify_' = FALSE /\ iscanceldelaystart' = FALSE
  /\ UNCHANGED <<owned, freed, count, tid, isended, splock, users, at, starts, doomed>>

\* cancel_after: the flag first, then the notification.
CancelFlag(u) ==
  /\ Enters(u) /\ isruning
  /\ splock' = u /\ Goto(u, "notify")
  /\ iscanceldelaystart' = TRUE
  /\ doomed' = doomed \cup {t \in Tids : at[t] \in {"born_after", "test", "cas", "park",
                                                    "wait", "woken", "test2"}}
  /\ UNCHANGED <<owned, freed, ref, anyway_notify_, joinee, at, reaped, starts, fails,
                 spoiled>>

\* notifyAll(true): wakes a routine that waits already.
CancelNotify(u) ==
  /\ pc[u] = "notify"
  /\ splock' = None /\ Goto(u, "idle")
  /\ anyway_notify_' = TRUE
  /\ at' = [t \in Tids |-> IF at[t] = "wait" THEN "woken" ELSE at[t]]
  /\ UNCHANGED <<owned, freed, ref, iscanceldelaystart, joinee, history>>

\* join: marked under splock; a second join is asserted against.
JoinMark(u) ==
  /\ Enters(u) /\ isruning /\ ~isjoined
  /\ isjoined' = TRUE
  /\ Goto(u, "join")
  /\ UNCHANGED <<owned, freed, count, tid, isended, cancel, splock, joinee, at, history>>

\* tid() is read after the lock was given up.
JoinRead(u) ==
  /\ pc[u] = "join"
  /\ joinee' = [joinee EXCEPT ![u] = tid] /\ Goto(u, "joining")
  /\ UNCHANGED <<owned, freed, ref, cancel, splock, at, history>>

JoinReturn(u) ==
  /\ pc[u] = "joining" /\ at[joinee[u]] = "ended"
  /\ Reap(joinee[u])
  /\ Goto(u, "idle")
  /\ UNCHANGED <<owned, freed, ref, cancel, splock, joinee, at, starts, fails, doomed,
                 spoiled>>

\* Variant: the destructor detaches without a look at isjoined.
DestroyDetaching ==
  /\ owned /\ \A u \in Users : pc[u] = "idle"
  /\ Reap(tid)
  /\ owned' = FALSE
  /\ RemoveRef
  /\ UNCHANGED <<tid, isjoined, isended, cancel, splock, users, at, starts, fails, doomed,
                 spoiled>>

\* ~Thread, once no user is inside an operation.
Destroy ==
  /\ owned /\ \A u \in Users : pc[u] = "idle"
  /\ DetachOld
  /\ owned' = FALSE
  /\ RemoveRef
  /\ UNCHANGED <<tid, isjoined, isended, cancel, splock, users, at, starts, fails, doomed,
                 spoiled>>

-----------------------------------------------------------------------------
(* The routine of pthread t: init, then the job, behind a delay or at once.*)

RoutineInit(t) ==
  /\ at[t] \in {"born", "born_after"} /\ splock = None
  /\ Step(t, IF at[t] = "born" THEN "run" ELSE "test")
  /\ UNCHANGED <<owned, freed, ref, cancel, splock, users, history>>

RoutineTest(t) ==
  /\ at[t] = "test"
  /\ Step(t, IF iscanceldelaystart THEN "cleanup" ELSE "cas")
  /\ UNCHANGED <<owned, freed, ref, cancel, splock, users, history>>

\* Condition::wait: a notification that was kept is used up.
RoutineCas(t) ==
  /\ at[t] = "cas"
  /\ Step(t, IF anyway_notify_ THEN "woken" ELSE "park")
  /\ anyway_notify_' = FALSE
  /\ UNCHANGED <<owned, freed, ref, iscanceldelaystart, splock, users, history>>

\* The notifier does not take the mutex of the condition, so it may come
\* between the test of the flag and the wait.
RoutinePark(t) ==
  /\ at[t] = "park"
  /\ Step(t, "wait")
  /\ UNCHANGED <<owned, freed, ref, cancel, splock, users, history>>

\* The delay is over.
RoutineTimeout(t) ==
  /\ at[t] = "wait"
  /\ Step(t, "woken")
  /\ UNCHANGED <<owned, freed, ref, cancel, splock, users, history>>

RoutineWoken(t) ==
  /\ at[t] = "woken"
  /\ anyway_notify_' = FALSE
  /\ Step(t, "test2")
  /\ UNCHANGED <<owned, freed, ref, iscanceldelaystart, splock, users, history>>

\* Variant: a routine that has waited runs its job.
RoutineNoTest(t) ==
  /\ at[t] = "test2"
  /\ Step(t, "run")
  /\ UNCHANGED <<owned, freed, ref, cancel, splock, users, history>>

RoutineTest2(t) ==
  /\ at[t] = "test2"
  /\ Step(t, IF iscanceldelaystart THEN "cleanup" ELSE "run")
  /\ UNCHANGED <<owned, freed, ref, cancel, splock, users, history>>

\* target->run().
RoutineRun(t) ==
  /\ at[t] = "run"
  /\ Step(t, "cleanup")
  /\ UNCHANGED <<owned, freed, ref, cancel, splock, users, history>>

\* Variant: the routine keeps its reference.
CleanupKeepingRef(t) ==
  /\ at[t] = "cleanup" /\ splock = None
  /\ isended' = TRUE
  /\ Step(t, "ended")
  /\ UNCHANGED <<owned, freed, count, tid, isjoined, cancel, splock, users, history>>

RoutineCleanup(t) ==
  /\ at[t] = "cleanup" /\ splock = None
  /\ isended' = TRUE
  /\ RemoveRef
  /\ Step(t, "ended")
  /\ UNCHANGED <<owned, tid, isjoined, cancel, splock, users, history>>

Operation(u) ==
  \/ StartNow(u) \/ StartAfter(u) \/ StartFails(u) \/ CancelFlag(u) \/ JoinMark(u)

Inside(u) == CancelNotify(u) \/ JoinRead(u) \/ JoinReturn(u)

Routine(t) ==
  \/ RoutineInit(t) \/ RoutineTest(t) \/ RoutineCas(t) \/ RoutinePark(t)
  \/ RoutineTimeout(t) \/ RoutineWoken(t) \/ RoutineTest2(t) \/ RoutineRun(t)
  \/ RoutineCleanup(t)

Next ==
  \/ \E u \in Users : Operation(u) \/ Inside(u)
  \/ Destroy
  \/ \E t \in Tids : Routine(t)

Spec == Init /\ [][Next]_vars

\* The scheduler runs whoever is in the middle of something; jobs end.
FairSpec ==
  /\ Spec
  /\ \A u \in Users : WF_vars(Inside(u))
  /\ \A t \in Tids : WF_vars(Routine(t))

-----------------------------------------------------------------------------
(* Properties.                                                             *)

TypeOK ==
  /\ owned \in BOOLEAN /\ freed \in BOOLEAN /\ isjoined \in BOOLEAN /\ isended \in BOOLEAN
  /\ iscanceldelaystart \in BOOLEAN /\ anyway_notify_ \in BOOLEAN /\ spoiled \in BOOLEAN
  /\ count \in 0 .. 2 /\ tid \in 0 .. MaxStarts
  /\ splock \in Users \cup {None}
  /\ pc \in [Users -> {"idle", "notify", "join", "joining"}]
  /\ joinee \in [Users -> 0 .. MaxStarts]
  /\ at \in [Tids -> {"none", "born", "born_after", "test", "cas", "park", "wait", "woken",
                      "test2", "run", "cleanup", "ended"}]
  /\ reaped \in [Tids -> Nat]
  /\ starts \in 0 .. MaxStarts /\ fails \in 0 .. MaxFails
  /\ doomed \subseteq Tids

\* The RunnableReference is deleted only when neither the Thread object nor
\* a routine can reach it, whichever of them goes first.
DeletedUnreachable == freed => ~owned /\ \A t \in Tids : ~Active(t)

\* One Thread object never has two routines at work on its reference.
OneRoutine == \A s, t \in Tids : Active(s) /\ Active(t) => s = t

\* A delayed routine that was cancelled before its second look at the flag
\* does not run its job, although a cancel may come before the wait, after
\* the test of anyway_notify_ or together with the end of the delay.
CancelHolds ==
  [][\A t \in doomed : at'[t] = "run" => at[t] = "run"]_vars

\* No pthread is joined or detached a second time or detached while it is
\* being joined ("join may not return then", says thread.h), unless a start
\* came between the two halves of a join or pthread_create failed.
ReapedOnce ==
  ~spoiled => \A t \in Tids :
    reaped[t] + (IF \E u \in Users : pc[u] = "joining" /\ joinee[u] = t THEN 1 ELSE 0) <= 1

\* Nor is one left behind: when the Thread object is gone and its routine
\* has ended, every pthread has been given back to the system.
NoneLeftBehind ==
  ~spoiled /\ ~owned => \A t \in 1 .. starts : reaped[t] = 1

\* Once the Thread object is gone the reference is deleted, as soon as the
\* delay and the job are over.
DeletedAtLast == ~owned ~> freed

=============================================================================
