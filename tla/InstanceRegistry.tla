-------------------------- MODULE InstanceRegistry --------------------------
(***************************************************************************)
(* The named instances of xlogger_interface.cc: a map under one mutex from *)
(* a name prefix to an XloggerCategory, which leads to an XloggerAppender. *)
(* The application holds bare pointers to categories and calls through     *)
(* them without the mutex; ReleaseXloggerInstance therefore closes the     *)
(* appender at once and deletes appender and category five seconds later.  *)
(*                                                                         *)
(* Time is what is left of each delay and how long each call has lasted.   *)
(* That a call lasts less than the five seconds is an assumption of the    *)
(* code, and the constants MaxOp and MaxJob here.                          *)
(***************************************************************************)
EXTENDS Integers

CONSTANTS
  Names,      \* name prefixes
  Users,      \* threads of the application
  None,       \* nobody
  Job,        \* the maintenance jobs of the appenders
  Grace,      \* the 5000 ms of the delayed releases
  MaxOp,      \* assumption: a call through a pointer lasts no longer
  MaxJob,     \* assumption: a maintenance job lasts no longer
  MaxInsts    \* bound: instances created

ASSUME RegistryAssumption ==
  /\ {Grace, MaxOp, MaxJob, MaxInsts} \subseteq Nat
  /\ MaxOp < Grace /\ MaxJob < Grace
  /\ {None, Job} \cap Users = {} /\ None # Job

Insts == 1 .. MaxInsts
Never == -1

VARIABLES
  map,           \* sg_map: an instance or 0 for each name
  lock,          \* the user that holds the global mutex
  app, cat,      \* the appender and the category of each instance
  appIn, catIn,  \* what is left until they are deleted
  job, jobAge,   \* the maintenance jobs of each appender
  held,          \* the instance pointer a user has
  at, todo, age, \* the call a user is in
  early,         \* it began before the instance was released
  crash          \* who used deleted memory

objects == <<app, cat, appIn, catIn>>
jobs    == <<job, jobAge>>
call    == <<at, todo, age, early>>
vars    == <<map, lock, objects, jobs, held, call, crash>>

Goto(u, l) == at' = [at EXCEPT ![u] = l]
Used == {i \in Insts : app[i] # "none"}
Fresh(i) == app[i] = "none" /\ \A j \in Insts : j < i => j \in Used

Init ==
  /\ map = [n \in Names |-> 0] /\ lock = None
  /\ app = [i \in Insts |-> "none"] /\ cat = [i \in Insts |-> "none"]
  /\ appIn = [i \in Insts |-> Never] /\ catIn = [i \in Insts |-> Never]
  /\ job = [i \in Insts |-> "none"] /\ jobAge = [i \in Insts |-> 0]
  /\ held = [u \in Users |-> 0]
  /\ at = [u \in Users |-> "idle"] /\ todo = [u \in Users |-> {}]
  /\ age = [u \in Users |-> 0] /\ early = [u \in Users |-> FALSE]
  /\ crash = None

Locks(u) == at[u] = "idle" /\ lock = None

-----------------------------------------------------------------------------
(* The map.                                                                *)

Known(n) == map[n] # 0

\* NewXloggerInstance: an instance of that name is shared; a new one opens
\* its appender, which starts its maintenance jobs.
New(u, n) == \E i \in Insts :
  /\ Locks(u)
  /\ IF Known(n)
     THEN i = map[n] /\ UNCHANGED <<map, objects, jobs>>
     ELSE /\ Fresh(i)
          /\ map' = [map EXCEPT ![n] = i]
          /\ app' = [app EXCEPT ![i] = "open"] /\ cat' = [cat EXCEPT ![i] = "live"]
          /\ job' = [job EXCEPT ![i] = "delay"]
          /\ UNCHANGED <<appIn, catIn, jobAge>>
  /\ held' = [held EXCEPT ![u] = i]
  /\ UNCHANGED <<lock, call, crash>>

\* GetXloggerInstance.
Get(u, n) ==
  /\ Locks(u)
  /\ held' = [held EXCEPT ![u] = map[n]]
  /\ UNCHANGED <<map, lock, objects, jobs, call, crash>>

\* Variant: the appender is deleted at the next opportunity.
StartReleaseNow(i) == appIn' = [appIn EXCEPT ![i] = 0]

\* Thread(&Release).start_after(5000).
StartRelease(i) == appIn' = [appIn EXCEPT ![i] = Grace]

\* Variant: the name is not looked up.
RegisteredUntested(n) == TRUE

\* A name without an instance is not released.
Registered(n) == map[n] # 0

\* ReleaseXloggerInstance under the mutex: DelayRelease closes the appender,
\* which cancels the jobs that are still in their delay.
ReleaseClose(u, n) ==
  LET i == map[n] IN
  /\ Locks(u) /\ Registered(n)
  /\ lock' = u
  /\ app' = [app EXCEPT ![i] = "closed"]
  /\ StartRelease(i)
  /\ job' = [job EXCEPT ![i] = IF @ = "delay" THEN "done" ELSE @]
  /\ todo' = [todo EXCEPT ![u] = {i}]
  /\ Goto(u, "erase")
  /\ UNCHANGED <<map, cat, catIn, jobAge, held, age, early, crash>>

\* Variant: the entry stays in the map.
ReleaseEraseNothing(u) ==
  /\ at[u] = "erase"
  /\ catIn' = [i \in Insts |-> IF i \in todo[u] THEN Grace ELSE catIn[i]]
  /\ lock' = None
  /\ todo' = [todo EXCEPT ![u] = {}] /\ age' = [age EXCEPT ![u] = 0]
  /\ Goto(u, "idle")
  /\ UNCHANGED <<map, app, cat, appIn, jobs, held, early, crash>>

\* Variant: the category is not released.
ReleaseEraseLeaking(u) ==
  /\ at[u] = "erase"
  /\ map' = [n \in Names |-> IF map[n] \in todo[u] THEN 0 ELSE map[n]]
  /\ lock' = None
  /\ todo' = [todo EXCEPT ![u] = {}] /\ age' = [age EXCEPT ![u] = 0]
  /\ Goto(u, "idle")
  /\ UNCHANGED <<app, cat, appIn, catIn, jobs, held, early, crash>>

\* Then the category's release is started and the entry erased.
ReleaseErase(u) ==
  /\ at[u] = "erase"
  /\ catIn' = [i \in Insts |-> IF i \in todo[u] THEN Grace ELSE catIn[i]]
  /\ map' = [n \in Names |-> IF map[n] \in todo[u] THEN 0 ELSE map[n]]
  /\ lock' = None
  /\ todo' = [todo EXCEPT ![u] = {}] /\ age' = [age EXCEPT ![u] = 0]
  /\ Goto(u, "idle")
  /\ UNCHANGED <<app, cat, appIn, jobs, held, early, crash>>

\* FlushAll keeps the mutex while it goes through the map.
FlushAll(u) ==
  /\ Locks(u)
  /\ lock' = u
  /\ todo' = [todo EXCEPT ![u] = {map[n] : n \in Names} \ {0}]
  /\ Goto(u, "flush")
  /\ UNCHANGED <<map, objects, jobs, held, age, early, crash>>

FlushAllOne(u) == \E i \in todo[u] :
  /\ at[u] = "flush"
  /\ IF app[i] = "open" /\ cat[i] = "live"
     THEN todo' = [todo EXCEPT ![u] = @ \ {i}] /\ UNCHANGED crash
     ELSE crash' = u /\ UNCHANGED todo
  /\ UNCHANGED <<map, lock, objects, jobs, held, at, age, early>>

FlushAllEnd(u) ==
  /\ at[u] = "flush" /\ todo[u] = {}
  /\ lock' = None /\ age' = [age EXCEPT ![u] = 0]
  /\ Goto(u, "idle")
  /\ UNCHANGED <<map, objects, jobs, held, todo, early, crash>>

-----------------------------------------------------------------------------
(* Calls through an instance pointer: XloggerWrite, IsEnabledFor, GetLevel,*)
(* SetLevel stay in the category or go on to the appender; Flush,          *)
(* SetAppenderMode and the other settings go on to the appender.           *)

Ends(u) == Goto(u, "idle") /\ age' = [age EXCEPT ![u] = 0]

Uses(u, alive) ==
  IF alive THEN UNCHANGED crash ELSE crash' = u

Call(u) ==
  /\ at[u] = "idle" /\ held[u] # 0
  /\ Goto(u, "category")
  /\ early' = [early EXCEPT ![u] = app[held[u]] = "open"]
  /\ UNCHANGED <<map, lock, objects, jobs, held, todo, age, crash>>

CallCategory(u) ==
  /\ at[u] = "category"
  /\ Uses(u, cat[held[u]] = "live")
  /\ Ends(u) \/ (Goto(u, "appender") /\ UNCHANGED age)
  /\ UNCHANGED <<map, lock, objects, jobs, held, todo, early>>

\* A closed appender takes no record; other calls go through it as well.
CallAppender(u) ==
  /\ at[u] = "appender"
  /\ Uses(u, app[held[u]] \in {"open", "closed"})
  /\ IF app[held[u]] = "open" THEN Goto(u, "inside") /\ UNCHANGED age ELSE Ends(u)
  /\ UNCHANGED <<map, lock, objects, jobs, held, todo, early>>

CallEnd(u) ==
  /\ at[u] = "inside"
  /\ Uses(u, app[held[u]] \in {"open", "closed"})
  /\ Ends(u)
  /\ UNCHANGED <<map, lock, objects, jobs, held, todo, early>>

-----------------------------------------------------------------------------
(* Maintenance jobs, delayed releases, time.                               *)

JobStart(i) ==
  /\ job[i] = "delay"
  /\ job' = [job EXCEPT ![i] = "running"]
  /\ UNCHANGED <<map, lock, objects, jobAge, held, call, crash>>

JobEnd(i) ==
  /\ job[i] = "running"
  /\ job' = [job EXCEPT ![i] = "done"] /\ jobAge' = [jobAge EXCEPT ![i] = 0]
  /\ Uses(Job, app[i] \in {"open", "closed"})
  /\ UNCHANGED <<map, lock, objects, held, call>>

\* XloggerAppender::Release.
FreeApp(i) ==
  /\ appIn[i] = 0
  /\ app' = [app EXCEPT ![i] = "freed"] /\ appIn' = [appIn EXCEPT ![i] = Never]
  /\ UNCHANGED <<map, lock, cat, catIn, jobs, held, call, crash>>

\* XloggerCategory::__Release.
FreeCat(i) ==
  /\ catIn[i] = 0
  /\ cat' = [cat EXCEPT ![i] = "freed"] /\ catIn' = [catIn EXCEPT ![i] = Never]
  /\ UNCHANGED <<map, lock, app, appIn, jobs, held, call, crash>>

Sooner(d) == IF d > 0 THEN d - 1 ELSE d

\* No call and no job outlasts its bound.
Tick ==
  /\ \A u \in Users : at[u] # "idle" => age[u] < MaxOp
  /\ \A i \in Insts : job[i] = "running" => jobAge[i] < MaxJob
  /\ \E i \in Insts : appIn[i] > 0 \/ catIn[i] > 0
  /\ appIn' = [i \in Insts |-> Sooner(appIn[i])]
  /\ catIn' = [i \in Insts |-> Sooner(catIn[i])]
  /\ age' = [u \in Users |-> IF at[u] # "idle" THEN age[u] + 1 ELSE 0]
  /\ jobAge' = [i \in Insts |-> IF job[i] = "running" THEN jobAge[i] + 1 ELSE 0]
  /\ UNCHANGED <<map, lock, app, cat, job, held, at, todo, early, crash>>

Continue(u) ==
  /\ crash = None
  /\ \/ ReleaseErase(u) \/ FlushAllOne(u) \/ FlushAllEnd(u)
     \/ CallCategory(u) \/ CallAppender(u) \/ CallEnd(u)

Begin(u) ==
  /\ crash = None
  /\ \/ \E n \in Names : New(u, n) \/ Get(u, n) \/ ReleaseClose(u, n)
     \/ FlushAll(u) \/ Call(u)

Background(i) ==
  /\ crash = None
  /\ JobEnd(i) \/ FreeApp(i) \/ FreeCat(i)

Next ==
  \/ \E u \in Users : Begin(u) \/ Continue(u)
  \/ \E i \in Insts : Background(i) \/ (crash = None /\ JobStart(i))
  \/ crash = None /\ Tick

Spec == Init /\ [][Next]_vars

\* Calls end, jobs end, delays end.
FairSpec ==
  /\ Spec
  /\ \A u \in Users : WF_vars(Continue(u))
  /\ \A i \in Insts : WF_vars(Background(i))
  /\ WF_vars(crash = None /\ Tick)

-----------------------------------------------------------------------------
(* Properties.                                                             *)

TypeOK ==
  /\ map \in [Names -> 0 .. MaxInsts] /\ held \in [Users -> 0 .. MaxInsts]
  /\ lock \in Users \cup {None}
  /\ app \in [Insts -> {"none", "open", "closed", "freed"}]
  /\ cat \in [Insts -> {"none", "live", "freed"}]
  /\ {appIn, catIn} \subseteq [Insts -> Never .. Grace]
  /\ job \in [Insts -> {"none", "delay", "running", "done"}]
  /\ jobAge \in [Insts -> 0 .. MaxJob]
  /\ at \in [Users -> {"idle", "erase", "flush", "category", "appender", "inside"}]
  /\ todo \in [Users -> SUBSET Insts] /\ age \in [Users -> 0 .. MaxOp]
  /\ early \in [Users -> BOOLEAN]
  /\ crash \in Users \cup {Job, None}

\* What the five seconds are for: deleted memory is used only by a call
\* that began after its instance had been released; a call that began
\* before, FlushAll and a job that the release could not cancel are safe.
GraceProtects ==
  /\ crash # Job
  /\ crash \in Users => at[crash] # "flush" /\ ~early[crash]

\* The map leads to every open appender, and only to open ones except while a
\* release has the mutex: two appenders of one name, which would share their
\* files, are never open at once, and what a thread looks up it can use.
MapIsOpen ==
  /\ \A i \in Insts : app[i] = "open" => \E n \in Names : map[n] = i
  /\ \A n \in Names : map[n] # 0 =>
       cat[map[n]] = "live" /\ (lock = None => app[map[n]] = "open")

\* A released instance is deleted, appender and category.
FreedAtLast ==
  \A i \in Insts : app[i] = "closed" ~>
    (app[i] = "freed" /\ cat[i] = "freed") \/ crash # None

=============================================================================
