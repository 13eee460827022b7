-------------------------- MODULE DefaultAppender --------------------------
(***************************************************************************)
(* The process-wide default appender: appender_open, appender_close and    *)
(* the exit handler on one side, xlogger_appender and the recursion        *)
(* counter of XloggerAppender::Write on the other.                         *)
(*                                                                         *)
(* sg_mutex serialises appender_close with itself and with nothing else:   *)
(* xlogger_appender tests the guard and follows the pointer without it,    *)
(* appender_open and the exit handler do not take it.  An appender is      *)
(* what the pointer leads to: "open", "closing" once log_close_ is set,    *)
(* "closed" once log_buff_ is gone, "released" when it waits for Release   *)
(* besides, "freed" once it is deleted.                                    *)
(*                                                                         *)
(* A log call may log again, through g_log_write_callback; frames[w] is    *)
(* the stack of calls thread w is in.  The mode is async; XloggerAppender  *)
(* has the calls of sync mode that race with Close.                        *)
(***************************************************************************)
EXTENDS Integers, Sequences, SequencesExt

CONSTANTS
  Writers,    \* threads that log
  Owners,     \* threads that call appender_open and appender_close
  Exit,       \* the thread that runs the exit handlers
  None,       \* nobody
  MaxRec,     \* the recursion limit of Write (10 in the code)
  MaxDepth,   \* bound: calls nested in each other
  MaxCalls,   \* bound: log calls of one thread
  MaxApps     \* bound: appenders created

ASSUME DefaultAssumption ==
  /\ {MaxRec, MaxDepth, MaxCalls, MaxApps} \subseteq Nat
  /\ MaxRec >= 2
  /\ Exit \notin Owners /\ None \notin Owners \cup {Exit} \cup Writers
  /\ Writers \cap (Owners \cup {Exit}) = {}

Apps == 1 .. MaxApps
Closers == Owners \cup {Exit}

\* A call that has passed the guard and not yet followed the pointer; a call
\* further on is the appender it is in.
AtGuard == 0

VARIABLES
  sg_default_appender,  \* an appender or 0
  sg_release_guard,
  sg_mutex,             \* the thread in appender_close
  app,                  \* what has become of each appender
  pc, target,           \* where a closer is, and the appender it is busy with
  frames,               \* per writer, the calls it is in, innermost last
  recursion_count,
  recursion_str,        \* the thread has a recursion report to write
  stored,               \* records a thread has put into an appender
  calls, deepest,       \* log calls of a thread, and how deep they nested
  closedIn,             \* appender_close has cleared the pointer since the
                        \* thread's last test of the guard or the pointer
  overlap,              \* two appender_opens have been under way at once
  crash                 \* None, or the thread whose access ended the process

globals == <<sg_default_appender, sg_release_guard, sg_mutex, app>>
local   == <<recursion_count, recursion_str, stored, calls, deepest>>
vars    == <<globals, pc, target, frames, local, closedIn, overlap, crash>>

Running == crash = None
Goto(t, l) == pc' = [pc EXCEPT ![t] = l]
Dies(t) == crash' = t
Usable(a) == a # 0 /\ app[a] # "freed"
HasBuffer(a) == a # 0 /\ app[a] \in {"open", "closing"}

Init ==
  /\ sg_default_appender = 0 /\ sg_release_guard = TRUE /\ sg_mutex = None
  /\ app = [a \in Apps |-> "none"]
  /\ pc = [t \in Closers |-> "idle"] /\ target = [t \in Closers |-> 0]
  /\ frames = [w \in Writers |-> <<>>]
  /\ recursion_count = [w \in Writers |-> 0]
  /\ recursion_str = [w \in Writers |-> FALSE]
  /\ stored = [w \in Writers |-> 0] /\ calls = [w \in Writers |-> 0]
  /\ deepest = [w \in Writers |-> 0]
  /\ closedIn = [t \in Writers \cup Closers |-> FALSE]
  /\ overlap = FALSE /\ crash = None

-----------------------------------------------------------------------------
(* xlogger_appender and XloggerAppender::Write.                            *)

InCallback(w) == frames[w] # <<>> => Last(frames[w]) # AtGuard

\* The guard is tested, at the top of a log call or of one made by the
\* write callback of another.
Log(w) ==
  /\ InCallback(w) /\ ~sg_release_guard
  /\ Len(frames[w]) < MaxDepth /\ calls[w] < MaxCalls
  /\ frames' = [frames EXCEPT ![w] = Append(@, AtGuard)]
  /\ calls' = [calls EXCEPT ![w] = @ + 1]
  /\ closedIn' = [closedIn EXCEPT ![w] = FALSE]
  /\ UNCHANGED <<globals, pc, target, recursion_count, recursion_str, stored,
                 deepest, overlap, crash>>

\* Variant: the counter is given back although it was not raised.
RefuseDecrementing(w) ==
  /\ frames' = [frames EXCEPT ![w] = Front(@)]
  /\ recursion_count' = [recursion_count EXCEPT ![w] = @ - 1]
  /\ UNCHANGED <<recursion_str, stored, calls, deepest, crash>>

\* Write returns at once when log_close_ is set.
Refuse(w) ==
  /\ frames' = [frames EXCEPT ![w] = Front(@)]
  /\ UNCHANGED <<local, crash>>

\* The pointer is followed and log_close_ tested; a call that is let in
\* raises the thread's counter and runs the callback.
Follow(w) ==
  LET a == sg_default_appender IN
  /\ frames[w] # <<>> /\ Last(frames[w]) = AtGuard
  /\ IF ~Usable(a) THEN Dies(w) /\ UNCHANGED <<frames, local>>
     ELSE IF app[a] # "open" THEN Refuse(w)
     ELSE /\ frames' = [frames EXCEPT ![w] = Append(Front(@), a)]
          /\ recursion_count' = [recursion_count EXCEPT ![w] = @ + 1]
          /\ deepest' = [deepest EXCEPT ![w] = IF @ < Len(frames[w]) THEN Len(frames[w]) ELSE @]
          /\ UNCHANGED <<recursion_str, stored, calls, crash>>
  /\ UNCHANGED <<globals, pc, target, closedIn, overlap>>

\* What remains of Write after the callback, for the appender a.
Nested(w) == recursion_count[w] >= 2 /\ ~recursion_str[w]

\* Variant: the limit is met one call early.
GiveUpEarly(w) ==
  /\ Nested(w) /\ recursion_count[w] >= MaxRec
  /\ UNCHANGED local

\* Too deep: the call returns, the counter stays as it is.
GiveUp(w) ==
  /\ Nested(w) /\ recursion_count[w] > MaxRec
  /\ UNCHANGED local

\* A nested call leaves a report in the place of its record.
KeepReport(w) ==
  /\ Nested(w) /\ recursion_count[w] <= MaxRec
  /\ recursion_str' = [recursion_str EXCEPT ![w] = TRUE]
  /\ recursion_count' = [recursion_count EXCEPT ![w] = @ - 1]
  /\ UNCHANGED <<stored, calls, deepest>>

\* Variant: the report is written and stays.
StoreKeepingReport(w, a) ==
  /\ ~Nested(w)
  /\ stored' = [stored EXCEPT ![w] = IF HasBuffer(a) THEN @ + 1 ELSE @]
  /\ recursion_count' = [recursion_count EXCEPT ![w] = @ - 1]
  /\ UNCHANGED <<recursion_str, calls, deepest>>

\* The record goes to the appender, behind the report if there is one. An
\* appender that has been closed in the meantime refuses it.
Store(w, a) ==
  /\ ~Nested(w)
  /\ recursion_str' = [recursion_str EXCEPT ![w] = FALSE]
  /\ stored' = [stored EXCEPT ![w] = IF HasBuffer(a) THEN @ + 1 ELSE @]
  /\ recursion_count' = [recursion_count EXCEPT ![w] = @ - 1]
  /\ UNCHANGED <<calls, deepest>>

\* Writing the report uses log_buff_ without a test.
Breaks(w, a) == ~Usable(a) \/ (~Nested(w) /\ recursion_str[w] /\ ~HasBuffer(a))

Finish(w) ==
  LET a == Last(frames[w]) IN
  /\ frames[w] # <<>> /\ a # AtGuard
  /\ IF Breaks(w, a) THEN Dies(w) /\ UNCHANGED <<frames, local>>
     ELSE /\ GiveUp(w) \/ KeepReport(w) \/ Store(w, a)
          /\ frames' = [frames EXCEPT ![w] = Front(@)]
          /\ UNCHANGED crash
  /\ UNCHANGED <<globals, pc, target, closedIn, overlap>>

-----------------------------------------------------------------------------
(* appender_open.                                                          *)

Opening(t) == pc[t] \in {"new", "publish", "guard"}

OpenTest(o) ==
  /\ pc[o] = "idle"
  /\ IF sg_default_appender = 0
     THEN /\ Goto(o, "new")
          /\ overlap' = (overlap \/ \E t \in Owners : Opening(t))
     ELSE Goto(o, "tip") /\ UNCHANGED overlap
  /\ closedIn' = [closedIn EXCEPT ![o] = FALSE]
  /\ UNCHANGED <<globals, target, frames, local, crash>>

\* "appender has already been opened": a tip through the pointer.
OpenAgain(o) ==
  /\ pc[o] = "tip"
  /\ IF HasBuffer(sg_default_appender) THEN Goto(o, "idle") /\ UNCHANGED crash
     ELSE Dies(o) /\ UNCHANGED pc
  /\ UNCHANGED <<globals, target, frames, local, closedIn, overlap>>

\* NewInstance opens the appender's files and mapping.
OpenNew(o) == \E a \in Apps :
  /\ pc[o] = "new"
  /\ app[a] = "none" /\ \A b \in Apps : b < a => app[b] # "none"
  /\ app' = [app EXCEPT ![a] = "open"]
  /\ target' = [target EXCEPT ![o] = a]
  /\ Goto(o, "publish")
  /\ UNCHANGED <<sg_default_appender, sg_release_guard, sg_mutex, frames, local,
                 closedIn, overlap, crash>>

\* Variant: the guard is lifted together with the test.
OpenPublishGuardFirst(o) ==
  /\ pc[o] = "publish" /\ sg_release_guard
  /\ sg_release_guard' = FALSE
  /\ UNCHANGED <<sg_default_appender, sg_mutex, app, pc, target, frames, local,
                 closedIn, overlap, crash>>

OpenPublish(o) ==
  /\ pc[o] = "publish"
  /\ sg_default_appender' = target[o]
  /\ Goto(o, "guard")
  /\ UNCHANGED <<sg_release_guard, sg_mutex, app, target, frames, local, closedIn,
                 overlap, crash>>

\* SetConsoleLog through the pointer, then the guard is lifted and the exit
\* handler registered, the latter once.
OpenGuard(o) ==
  /\ pc[o] = "guard"
  /\ IF Usable(sg_default_appender)
     THEN sg_release_guard' = FALSE /\ Goto(o, "idle") /\ UNCHANGED crash
     ELSE Dies(o) /\ UNCHANGED <<sg_release_guard, pc>>
  /\ UNCHANGED <<sg_default_appender, sg_mutex, app, target, frames, local,
                 closedIn, overlap>>

-----------------------------------------------------------------------------
(* appender_close and the exit handler.                                    *)

\* Variant: appender_close without sg_mutex.
CloseTestNoLock(o) ==
  /\ pc[o] = "idle" /\ ~sg_release_guard
  /\ Goto(o, "set")
  /\ closedIn' = [closedIn EXCEPT ![o] = FALSE]
  /\ UNCHANGED <<globals, target, frames, local, overlap, crash>>

\* A call that finds the guard down goes back without a trace.
CloseTest(o) ==
  /\ pc[o] = "idle" /\ sg_mutex = None /\ ~sg_release_guard
  /\ sg_mutex' = o
  /\ Goto(o, "set")
  /\ closedIn' = [closedIn EXCEPT ![o] = FALSE]
  /\ UNCHANGED <<sg_default_appender, sg_release_guard, app, target, frames, local,
                 overlap, crash>>

\* exit() may be called while other threads run; the handler is registered
\* by the first appender_open.
ExitTest ==
  /\ pc[Exit] = "idle" /\ ~sg_release_guard
  /\ Goto(Exit, "set")
  /\ closedIn' = [closedIn EXCEPT ![Exit] = FALSE]
  /\ UNCHANGED <<globals, target, frames, local, overlap, crash>>

\* The guard is set and the pointer followed into Close, which returns at
\* once if the appender is closed.
GuardDown(t) ==
  LET a == sg_default_appender IN
  /\ pc[t] = "set"
  /\ sg_release_guard' = TRUE
  /\ IF Usable(a)
     THEN /\ target' = [target EXCEPT ![t] = a]
          /\ Goto(t, IF app[a] = "open" THEN "close" ELSE "release")
          /\ UNCHANGED crash
     ELSE Dies(t) /\ UNCHANGED <<pc, target>>
  /\ UNCHANGED <<sg_default_appender, sg_mutex, app, frames, local, closedIn, overlap>>

CloseSet(t) ==
  /\ pc[t] = "close"
  /\ app' = [app EXCEPT ![target[t]] = IF @ = "open" THEN "closing" ELSE @]
  /\ Goto(t, "wipe")
  /\ UNCHANGED <<sg_default_appender, sg_release_guard, sg_mutex, target, frames,
                 local, closedIn, overlap, crash>>

CloseWipe(t) ==
  /\ pc[t] = "wipe"
  /\ app' = [app EXCEPT ![target[t]] = "closed"]
  /\ Goto(t, "release")
  /\ UNCHANGED <<sg_default_appender, sg_release_guard, sg_mutex, target, frames,
                 local, closedIn, overlap, crash>>

\* DelayRelease: an appender whose log_close_ is set stays in memory for
\* good; another one is closed, and deleted after five seconds.
DelayRelease(a) ==
  app' = [app EXCEPT ![a] = IF @ \in {"closing", "closed"} THEN @ ELSE "released"]

CloseRelease(o) ==
  /\ pc[o] = "release" /\ o # Exit
  /\ IF Usable(sg_default_appender)
     THEN /\ DelayRelease(sg_default_appender)
          /\ sg_default_appender' = 0
          /\ sg_mutex' = None
          /\ closedIn' = [t \in DOMAIN closedIn |-> TRUE]
          /\ target' = [target EXCEPT ![o] = 0]
          /\ Goto(o, "idle")
          /\ UNCHANGED crash
     ELSE Dies(o) /\ UNCHANGED <<app, sg_default_appender, sg_mutex, closedIn, target, pc>>
  /\ UNCHANGED <<sg_release_guard, frames, local, overlap>>

\* Release, five seconds later.
Release(a) ==
  /\ app[a] = "released"
  /\ app' = [app EXCEPT ![a] = "freed"]
  /\ UNCHANGED <<sg_default_appender, sg_release_guard, sg_mutex, pc, target, frames,
                 local, closedIn, overlap, crash>>

\* The exit handler keeps the object and the pointer, for threads that are
\* still running.
ExitDone ==
  /\ pc[Exit] = "release"
  /\ Goto(Exit, "over")
  /\ UNCHANGED <<globals, target, frames, local, closedIn, overlap, crash>>

Next ==
  /\ Running
  /\ \/ \E w \in Writers : Log(w) \/ Follow(w) \/ Finish(w)
     \/ \E o \in Owners : OpenTest(o) \/ OpenAgain(o) \/ OpenNew(o)
                          \/ OpenPublish(o) \/ OpenGuard(o)
                          \/ CloseTest(o) \/ CloseRelease(o)
     \/ \E t \in Closers : GuardDown(t) \/ CloseSet(t) \/ CloseWipe(t)
     \/ ExitTest \/ ExitDone
     \/ \E a \in Apps : Release(a)

Spec == Init /\ [][Next]_vars

-----------------------------------------------------------------------------
(* Properties.                                                             *)

\* The appenders thread w is inside of, one within the other: only the last
\* call can still be at the guard.
Depth(w) == IF InCallback(w) THEN Len(frames[w]) ELSE Len(frames[w]) - 1

TypeOK ==
  /\ sg_default_appender \in Apps \cup {0} /\ sg_release_guard \in BOOLEAN
  /\ sg_mutex \in Owners \cup {None}
  /\ app \in [Apps -> {"none", "open", "closing", "closed", "released", "freed"}]
  /\ pc \in [Closers -> {"idle", "tip", "new", "publish", "guard", "set", "close",
                         "wipe", "release", "over"}]
  /\ target \in [Closers -> Apps \cup {0}]
  /\ frames \in [Writers -> Seq(Apps \cup {AtGuard})]
  /\ recursion_count \in [Writers -> 0 .. MaxCalls]
  /\ recursion_str \in [Writers -> BOOLEAN]
  /\ stored \in [Writers -> 0 .. MaxCalls] /\ calls \in [Writers -> 0 .. MaxCalls]
  /\ deepest \in [Writers -> 0 .. MaxCalls]
  /\ closedIn \in [Writers \cup Closers -> BOOLEAN]
  /\ overlap \in BOOLEAN /\ crash \in Writers \cup Closers \cup {None}

\* What makes up for the missing locks, as long as two appender_opens do not
\* overlap: an access through sg_default_appender fails only if a whole
\* appender_close fell between it and the test that permitted it, an
\* appender_open that meets an open appender fails only beside an
\* appender_close or after the exit handler, which keeps the pointer to a
\* closed appender, and the appender a writer is inside of fails it only
\* when the writer has a recursion report to write.
FailsOnlyWhenClosed ==
  crash # None /\ ~overlap =>
    CASE crash \in Writers -> IF InCallback(crash) THEN recursion_str[crash]
                              ELSE closedIn[crash]
      [] crash \in Closers -> \/ closedIn[crash]
                              \/ pc[crash] = "tip" /\ (sg_mutex # None \/ pc[Exit] \in {"release", "over"})

\* Two appenders of one process are never open at once (they would map and
\* append to the same files), unless two appender_opens overlap or the exit
\* handler is inside Close: appender_close does not wait for it.
OneOpen ==
  ~overlap /\ pc[Exit] \notin {"close", "wipe"} =>
    \A a, b \in Apps : HasBuffer(a) /\ HasBuffer(b) => a = b

\* As long as a thread has not gone beyond the recursion limit, every call
\* gives back the counter it raised, and no report outlives the outermost
\* call: the thread is neither silenced nor owed a report.
Balanced ==
  \A w \in Writers : deepest[w] <= MaxRec /\ crash # w =>
    /\ recursion_count[w] = Depth(w)
    /\ frames[w] = <<>> => ~recursion_str[w]

\* An outermost log call of such a thread puts its record into the appender
\* it was let into, whatever was logged inside it, unless the appender has
\* been closed meanwhile.
OutermostIsStored ==
  [][\A w \in Writers :
       /\ Len(frames[w]) = 1 /\ frames'[w] = <<>>
       /\ InCallback(w) /\ HasBuffer(frames[w][1])
       /\ deepest[w] <= MaxRec
       => stored'[w] = stored[w] + 1]_vars

=============================================================================
