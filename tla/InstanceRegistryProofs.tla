----------------------- MODULE InstanceRegistryProofs -----------------------
(***************************************************************************)
(* GraceProtects and MapIsOpen of InstanceRegistry for any number of names,*)
(* threads and instances, and any delay that is longer than the calls and  *)
(* the jobs last.                                                          *)
(***************************************************************************)
EXTENDS InstanceRegistry, TLAPS

\* The global mutex is held by whoever releases or flushes.
LockHeld == \A u \in Users : at[u] \in {"erase", "flush"} <=> lock = u

\* What the map leads to is open, or in the hands of the release in progress.
MapInv ==
  /\ \A i \in Insts : app[i] = "open" => \E n \in Names : map[n] = i
  /\ \A n \in Names : map[n] # 0 =>
       /\ cat[map[n]] = "live"
       /\ \/ app[map[n]] = "open"
          \/ \E u \in Users : at[u] = "erase" /\ map[n] \in todo[u]

\* What a release and FlushAll still have to do.
TodoInv ==
  \A u \in Users : \A i \in todo[u] :
    /\ at[u] = "erase" => app[i] \in {"closed", "freed"}
    /\ at[u] = "flush" => app[i] = "open" /\ cat[i] = "live"

\* What waits to be deleted can no longer be found.
DelayInv ==
  \A i \in Insts :
    /\ appIn[i] # Never => app[i] = "closed"
    /\ catIn[i] # Never => app[i] \in {"closed", "freed"} /\ \A n \in Names : map[n] # i
    /\ job[i] = "delay" => app[i] = "open"

\* Of the delay at least as much is left as the job, or the call, has not
\* used of it.
JobInv ==
  \A i \in Insts : job[i] = "running" =>
    app[i] = "open" \/ (app[i] = "closed" /\ appIn[i] >= Grace - jobAge[i])

Calling == {"category", "appender", "inside"}

Protected(i, a) ==
  /\ i # 0 /\ cat[i] = "live"
  /\ app[i] = "open" \/ (app[i] = "closed" /\ appIn[i] >= Grace - a)
  /\ catIn[i] # Never => catIn[i] >= Grace - a

CallInv ==
  \A u \in Users : at[u] \in Calling /\ early[u] => Protected(held[u], age[u])

RegistryInv ==
  /\ TypeOK /\ LockHeld /\ MapInv /\ TodoInv /\ DelayInv /\ JobInv /\ CallInv
  /\ GraceProtects

-----------------------------------------------------------------------------
(* The steps.                                                              *)

LEMMA InitInv == Init => RegistryInv
<1> SUFFICES ASSUME Init PROVE RegistryInv
  OBVIOUS
<1>1. Never \in Never .. Grace /\ 0 \in 0 .. MaxOp /\ 0 \in 0 .. MaxJob /\ 0 \in 0 .. MaxInsts
  BY RegistryAssumption DEF Never
<1>2. TypeOK
  BY <1>1 DEF Init, TypeOK
<1>3. LockHeld /\ MapInv /\ TodoInv
  BY RegistryAssumption DEF Init, LockHeld, MapInv, TodoInv
<1>4. DelayInv /\ JobInv /\ CallInv /\ GraceProtects
  BY RegistryAssumption DEF Init, DelayInv, JobInv, CallInv, GraceProtects, Calling
<1> QED
  BY <1>2, <1>3, <1>4 DEF RegistryInv

\* What Types has to say of each variable, for the provers' use.
LEMMA Types ==
  ASSUME TypeOK
  PROVE  /\ map \in [Names -> 0 .. MaxInsts] /\ held \in [Users -> 0 .. MaxInsts]
         /\ app \in [Insts -> {"none", "open", "closed", "freed"}]
         /\ cat \in [Insts -> {"none", "live", "freed"}]
         /\ appIn \in [Insts -> Never .. Grace] /\ catIn \in [Insts -> Never .. Grace]
         /\ \A n \in Names : map[n] # 0 => map[n] \in Insts
         /\ \A u \in Users : held[u] # 0 => held[u] \in Insts
BY DEF TypeOK, Insts

LEMMA NewInv ==
  ASSUME RegistryInv, crash = None, NEW u \in Users, NEW n \in Names, New(u, n)
  PROVE  RegistryInv'
<1>1. PICK i \in Insts :
        /\ Locks(u) /\ held' = [held EXCEPT ![u] = i]
        /\ IF Known(n)
           THEN i = map[n] /\ UNCHANGED <<map, objects, jobs>>
           ELSE /\ Fresh(i)
                /\ map' = [map EXCEPT ![n] = i]
                /\ app' = [app EXCEPT ![i] = "open"] /\ cat' = [cat EXCEPT ![i] = "live"]
                /\ job' = [job EXCEPT ![i] = "delay"]
                /\ UNCHANGED <<appIn, catIn, jobAge>>
  BY DEF New
<1>2. /\ UNCHANGED <<lock, call, crash>> /\ at[u] = "idle"
      /\ TypeOK /\ LockHeld /\ MapInv /\ TodoInv /\ DelayInv /\ JobInv /\ CallInv /\ GraceProtects
  BY <1>1 DEF New, RegistryInv, Locks
<1>3. i \in 0 .. MaxInsts /\ i # 0
  BY DEF Insts
<1>4. CASE Known(n)
  <2>1. TypeOK'
    BY <1>1, <1>2, <1>3, <1>4 DEF TypeOK, objects, jobs, call
  <2>2. LockHeld' /\ MapInv' /\ TodoInv' /\ DelayInv' /\ JobInv' /\ GraceProtects'
    BY <1>1, <1>2, <1>4 DEF LockHeld, MapInv, TodoInv, DelayInv, JobInv, GraceProtects, objects,
                            jobs, call
  <2>3. CallInv'
    BY <1>1, <1>2, <1>4 DEF CallInv, Calling, Protected, TypeOK, objects, call
  <2> QED
    BY <2>1, <2>2, <2>3 DEF RegistryInv
<1>5. CASE ~Known(n)
  <2>1. /\ Fresh(i) /\ app[i] = "none" /\ map[n] = 0
        /\ map' = [map EXCEPT ![n] = i]
        /\ app' = [app EXCEPT ![i] = "open"] /\ cat' = [cat EXCEPT ![i] = "live"]
        /\ job' = [job EXCEPT ![i] = "delay"]
        /\ UNCHANGED <<appIn, catIn, jobAge>>
    BY <1>1, <1>5 DEF Known, Fresh
  <2>2. TypeOK'
    BY <1>1, <1>2, <1>3, <2>1 DEF TypeOK, call
  <2>3. LockHeld' /\ GraceProtects'
    BY <1>2 DEF LockHeld, GraceProtects, call
  <2>4. MapInv'
    <3>1. ASSUME NEW j \in Insts, app'[j] = "open"
          PROVE  \E m \in Names : map'[m] = j
      <4>1. CASE j = i
        BY <1>2, <2>1, <4>1, Types
      <4>2. CASE j # i
        <5>1. PICK m \in Names : map[m] = j
          BY <1>2, <2>1, <3>1, <4>2, Types DEF MapInv
        <5>2. m # n /\ map'[m] = j
          BY <1>2, <2>1, <5>1, Types DEF Insts
        <5> QED
          BY <5>2
      <4> QED
        BY <4>1, <4>2
    <3>2. ASSUME NEW m \in Names, map'[m] # 0
          PROVE  /\ cat'[map'[m]] = "live"
                 /\ \/ app'[map'[m]] = "open"
                    \/ \E v \in Users : at'[v] = "erase" /\ map'[m] \in todo'[v]
      <4>1. CASE map'[m] = i
        BY <1>2, <2>1, <4>1, Types
      <4>2. CASE map'[m] # i
        <5>1. map'[m] = map[m] /\ map[m] \in Insts \ {i}
          BY <1>2, <2>1, <3>2, <4>2, Types
        <5>2. cat'[map[m]] = cat[map[m]] /\ app'[map[m]] = app[map[m]]
          BY <1>2, <2>1, <5>1, Types
        <5> QED
          BY <1>2, <3>2, <5>1, <5>2 DEF MapInv, call
      <4> QED
        BY <4>1, <4>2
    <3> QED
      BY <3>1, <3>2 DEF MapInv
  <2>5. TodoInv'
    BY <1>2, <2>1, Types DEF TodoInv, TypeOK, call
  <2>6. DelayInv'
    BY <1>2, <2>1, Types DEF DelayInv, TypeOK
  <2>7. JobInv'
    BY <1>2, <2>1, Types DEF JobInv, TypeOK
  <2>8. CallInv'
    BY <1>1, <1>2, <2>1, Types DEF CallInv, Calling, Protected, TypeOK, call
  <2> QED
    BY <2>2, <2>3, <2>4, <2>5, <2>6, <2>7, <2>8 DEF RegistryInv
<1> QED
  BY <1>4, <1>5

LEMMA GetInv ==
  ASSUME RegistryInv, crash = None, NEW u \in Users, NEW n \in Names, Get(u, n)
  PROVE  RegistryInv'
<1>1. /\ held' = [held EXCEPT ![u] = map[n]] /\ at[u] = "idle"
      /\ UNCHANGED <<map, lock, objects, jobs, call, crash>>
      /\ TypeOK /\ LockHeld /\ MapInv /\ TodoInv /\ DelayInv /\ JobInv /\ CallInv /\ GraceProtects
  BY DEF Get, Locks, RegistryInv
<1>2. TypeOK'
  BY <1>1 DEF TypeOK, objects, jobs, call
<1>3. LockHeld' /\ MapInv' /\ TodoInv' /\ DelayInv' /\ JobInv' /\ GraceProtects'
  BY <1>1 DEF LockHeld, MapInv, TodoInv, DelayInv, JobInv, GraceProtects, objects, jobs, call
<1>4. CallInv'
  BY <1>1 DEF CallInv, Calling, Protected, TypeOK, objects, call
<1> QED
  BY <1>2, <1>3, <1>4 DEF RegistryInv

LEMMA ReleaseCloseInv ==
  ASSUME RegistryInv, crash = None, NEW u \in Users, NEW n \in Names, ReleaseClose(u, n)
  PROVE  RegistryInv'
<1>1. PICK i \in Insts :
        /\ i = map[n] /\ at[u] = "idle" /\ lock = None /\ lock' = u
        /\ app' = [app EXCEPT ![i] = "closed"] /\ appIn' = [appIn EXCEPT ![i] = Grace]
        /\ job' = [job EXCEPT ![i] = IF @ = "delay" THEN "done" ELSE @]
        /\ todo' = [todo EXCEPT ![u] = {i}] /\ at' = [at EXCEPT ![u] = "erase"]
        /\ UNCHANGED <<map, cat, catIn, jobAge, held, age, early, crash>>
  BY Types DEF ReleaseClose, Locks, Registered, StartRelease, Goto, RegistryInv
<1>2. /\ TypeOK /\ LockHeld /\ MapInv /\ TodoInv /\ DelayInv /\ JobInv /\ CallInv /\ GraceProtects
      /\ Grace \in Nat /\ MaxOp \in Nat /\ MaxJob \in Nat /\ None \notin Users
  BY RegistryAssumption DEF RegistryInv
<1>3. \A v \in Users : at[v] \notin {"erase", "flush"}
  BY <1>1, <1>2 DEF LockHeld
<1>4. app[i] = "open" /\ cat[i] = "live" /\ i # 0
  BY <1>1, <1>2, <1>3 DEF MapInv, Insts
<1>5. Grace \in Never .. Grace
  BY <1>2 DEF Never
<1>6. TypeOK'
  BY <1>1, <1>2, <1>5 DEF TypeOK
<1>7. LockHeld' /\ GraceProtects'
  BY <1>1, <1>2, <1>3 DEF LockHeld, GraceProtects, TypeOK
<1>8. MapInv'
  <2>1. \A j \in Insts : app'[j] = "open" => \E m \in Names : map'[m] = j
    BY <1>1, <1>2, Types DEF MapInv
  <2>2. ASSUME NEW m \in Names, map[m] # 0
        PROVE  app'[map[m]] = "open" \/ (at'[u] = "erase" /\ map[m] \in todo'[u])
    BY <1>1, <1>2, <1>3, <2>2, Types DEF MapInv, TypeOK
  <2> QED
    BY <1>1, <1>2, <2>1, <2>2 DEF MapInv
<1>9. TodoInv'
  BY <1>1, <1>2, <1>3, Types DEF TodoInv, TypeOK
<1>10. DelayInv'
  BY <1>1, <1>2, Types DEF DelayInv, TypeOK
<1>11. JobInv'
  BY <1>1, <1>2, Types DEF JobInv, TypeOK
<1>12. CallInv'
  <2> SUFFICES ASSUME NEW v \in Users, at'[v] \in Calling, early'[v]
               PROVE  Protected(held[v], age[v])'
    BY DEF CallInv
  <2>1. at[v] \in Calling /\ early[v] /\ held'[v] = held[v] /\ age'[v] = age[v]
    BY <1>1, <1>2 DEF TypeOK, Calling
  <2>2. Protected(held[v], age[v]) /\ age[v] \in Nat /\ held[v] \in Insts
    BY <1>2, <2>1, Types DEF CallInv, Protected, TypeOK
  <2> QED
    BY <1>1, <1>2, <2>1, <2>2, Types DEF Protected
<1> QED
  BY <1>6, <1>7, <1>8, <1>9, <1>10, <1>11, <1>12 DEF RegistryInv

LEMMA ReleaseEraseInv ==
  ASSUME RegistryInv, crash = None, NEW u \in Users, ReleaseErase(u)
  PROVE  RegistryInv'
<1>1. /\ at[u] = "erase" /\ lock' = None /\ at' = [at EXCEPT ![u] = "idle"]
      /\ catIn' = [i \in Insts |-> IF i \in todo[u] THEN Grace ELSE catIn[i]]
      /\ map' = [n \in Names |-> IF map[n] \in todo[u] THEN 0 ELSE map[n]]
      /\ todo' = [todo EXCEPT ![u] = {}] /\ age' = [age EXCEPT ![u] = 0]
      /\ UNCHANGED <<app, cat, appIn, jobs, held, early, crash>>
  BY DEF ReleaseErase, Goto
<1>2. /\ TypeOK /\ LockHeld /\ MapInv /\ TodoInv /\ DelayInv /\ JobInv /\ CallInv /\ GraceProtects
      /\ Grace \in Nat /\ MaxOp \in Nat /\ MaxInsts \in Nat /\ None \notin Users
  BY RegistryAssumption DEF RegistryInv
<1>3. lock = u /\ \A v \in Users \ {u} : at[v] \notin {"erase", "flush"}
  BY <1>1, <1>2 DEF LockHeld
<1>4. \A i \in todo[u] : i \in Insts /\ app[i] \in {"closed", "freed"}
  BY <1>1, <1>2 DEF TodoInv, TypeOK
<1>5. Grace \in Never .. Grace /\ 0 \in 0 .. MaxOp /\ 0 \in 0 .. MaxInsts
  BY <1>2 DEF Never
<1>6. TypeOK'
  BY <1>1, <1>2, <1>5 DEF TypeOK, jobs
<1>7. LockHeld'
  BY <1>1, <1>2, <1>3 DEF LockHeld, TypeOK
<1>8. GraceProtects'
  BY <1>1, <1>2, RegistryAssumption DEF GraceProtects
<1>9. MapInv'
  <2>1. ASSUME NEW i \in Insts, app'[i] = "open"
        PROVE  \E n \in Names : map'[n] = i
    <3>1. PICK n \in Names : map[n] = i
      BY <1>1, <1>2, <2>1 DEF MapInv
    <3>2. i \notin todo[u]
      BY <1>1, <1>4, <2>1
    <3> QED
      BY <1>1, <3>1, <3>2
  <2>2. ASSUME NEW n \in Names, map'[n] # 0
        PROVE  cat'[map'[n]] = "live" /\ app'[map'[n]] = "open"
    <3>1. map'[n] = map[n] /\ map[n] \notin todo[u]
      BY <1>1, <2>2
    <3>2. ~ \E v \in Users : at[v] = "erase" /\ map[n] \in todo[v]
      BY <1>3, <3>1
    <3> QED
      BY <1>1, <1>2, <2>2, <3>1, <3>2 DEF MapInv
  <2> QED
    BY <2>1, <2>2 DEF MapInv
<1>10. TodoInv'
  BY <1>1, <1>2 DEF TodoInv, TypeOK
<1>11. DelayInv'
  <2> SUFFICES ASSUME NEW i \in Insts
               PROVE  /\ appIn'[i] # Never => app'[i] = "closed"
                      /\ catIn'[i] # Never => app'[i] \in {"closed", "freed"} /\ \A n \in Names : map'[n] # i
                      /\ job'[i] = "delay" => app'[i] = "open"
    BY DEF DelayInv
  <2>1. appIn' = appIn /\ app' = app /\ job' = job
    BY <1>1 DEF jobs
  <2>2. catIn'[i] # Never => i \in todo[u] \/ catIn[i] # Never
    BY <1>1, <1>2 DEF TypeOK
  <2>3. i # 0
    BY <1>2 DEF Insts
  <2>4. \A n \in Names : i \in todo[u] \/ map[n] # i => map'[n] # i
    BY <1>1, <2>3
  <2> QED
    BY <1>2, <1>4, <2>1, <2>2, <2>4 DEF DelayInv
<1>12. JobInv'
  BY <1>1, <1>2 DEF JobInv, jobs
<1>13. CallInv'
  <2> SUFFICES ASSUME NEW v \in Users, at'[v] \in Calling, early'[v]
               PROVE  Protected(held[v], age[v])'
    BY DEF CallInv
  <2>1. at[v] \in Calling /\ early[v] /\ held'[v] = held[v] /\ age'[v] = age[v]
    BY <1>1, <1>2 DEF TypeOK, Calling
  <2>2. Protected(held[v], age[v]) /\ age[v] \in Nat /\ held[v] \in Insts
    BY <1>2, <2>1, Types DEF CallInv, Protected, TypeOK
  <2> QED
    BY <1>1, <1>2, <2>1, <2>2, Types DEF Protected
<1> QED
  BY <1>6, <1>7, <1>8, <1>9, <1>10, <1>11, <1>12, <1>13 DEF RegistryInv

LEMMA FlushAllInv ==
  ASSUME RegistryInv, crash = None, NEW u \in Users,
         FlushAll(u) \/ FlushAllOne(u) \/ FlushAllEnd(u)
  PROVE  RegistryInv'
<1>1. /\ TypeOK /\ LockHeld /\ MapInv /\ TodoInv /\ DelayInv /\ JobInv /\ CallInv /\ GraceProtects
      /\ MaxOp \in Nat /\ None \notin Users /\ 0 \in 0 .. MaxOp
  BY RegistryAssumption DEF RegistryInv
<1>2. CASE FlushAll(u)
  <2>1. /\ at[u] = "idle" /\ lock = None /\ lock' = u /\ at' = [at EXCEPT ![u] = "flush"]
        /\ todo' = [todo EXCEPT ![u] = {map[n] : n \in Names} \ {0}]
        /\ UNCHANGED <<map, objects, jobs, held, age, early, crash>>
    BY <1>2 DEF FlushAll, Locks, Goto
  <2>2. \A v \in Users : at[v] \notin {"erase", "flush"}
    BY <1>1, <2>1 DEF LockHeld
  <2>3. \A i \in {map[n] : n \in Names} \ {0} : i \in Insts /\ app[i] = "open" /\ cat[i] = "live"
    BY <1>1, <2>2, Types DEF MapInv
  <2>4. TypeOK'
    BY <1>1, <2>1, <2>3 DEF TypeOK, objects, jobs
  <2>5. LockHeld' /\ TodoInv'
    BY <1>1, <2>1, <2>2, <2>3 DEF LockHeld, TodoInv, TypeOK, objects
  <2>6. MapInv'
    BY <1>1, <2>1, <2>2 DEF MapInv, objects
  <2>7. DelayInv' /\ JobInv' /\ GraceProtects'
    BY <1>1, <2>1, RegistryAssumption DEF DelayInv, JobInv, GraceProtects, objects, jobs
  <2>8. CallInv'
    BY <1>1, <2>1 DEF CallInv, Calling, Protected, TypeOK, objects
  <2> QED
    BY <2>4, <2>5, <2>6, <2>7, <2>8 DEF RegistryInv
<1>3. CASE FlushAllOne(u)
  <2>1. PICK i \in todo[u] :
          /\ at[u] = "flush"
          /\ IF app[i] = "open" /\ cat[i] = "live"
             THEN todo' = [todo EXCEPT ![u] = @ \ {i}] /\ UNCHANGED crash
             ELSE crash' = u /\ UNCHANGED todo
          /\ UNCHANGED <<map, lock, objects, jobs, held, at, age, early>>
    BY <1>3 DEF FlushAllOne
  <2>2. todo' = [todo EXCEPT ![u] = @ \ {i}] /\ UNCHANGED crash
    BY <1>1, <2>1 DEF TodoInv
  <2>3. TypeOK'
    BY <1>1, <2>1, <2>2 DEF TypeOK, objects, jobs
  <2>4. LockHeld' /\ DelayInv' /\ JobInv' /\ GraceProtects'
    BY <1>1, <2>1, <2>2 DEF LockHeld, DelayInv, JobInv, GraceProtects, objects, jobs
  <2>5. TodoInv'
    BY <1>1, <2>1, <2>2 DEF TodoInv, TypeOK, objects
  <2>6. \A v \in Users \ {u} : todo'[v] = todo[v]
    BY <1>1, <2>2 DEF TypeOK
  <2>7. MapInv'
    BY <1>1, <2>1, <2>6 DEF MapInv, objects
  <2>8. CallInv'
    BY <1>1, <2>1 DEF CallInv, Calling, Protected, objects
  <2> QED
    BY <2>3, <2>4, <2>5, <2>7, <2>8 DEF RegistryInv
<1>4. CASE FlushAllEnd(u)
  <2>1. /\ at[u] = "flush" /\ lock' = None /\ at' = [at EXCEPT ![u] = "idle"]
        /\ age' = [age EXCEPT ![u] = 0]
        /\ UNCHANGED <<map, objects, jobs, held, todo, early, crash>>
    BY <1>4 DEF FlushAllEnd, Goto
  <2>2. lock = u /\ \A v \in Users \ {u} : at[v] \notin {"erase", "flush"}
    BY <1>1, <2>1 DEF LockHeld
  <2>3. TypeOK'
    BY <1>1, <2>1 DEF TypeOK, objects, jobs
  <2>4. LockHeld' /\ TodoInv'
    BY <1>1, <2>1, <2>2 DEF LockHeld, TodoInv, TypeOK, objects
  <2>5. MapInv'
    BY <1>1, <2>1, <2>2 DEF MapInv, objects
  <2>6. DelayInv' /\ JobInv' /\ GraceProtects'
    BY <1>1, <2>1, RegistryAssumption DEF DelayInv, JobInv, GraceProtects, objects, jobs
  <2>7. CallInv'
    BY <1>1, <2>1 DEF CallInv, Calling, Protected, TypeOK, objects
  <2> QED
    BY <2>3, <2>4, <2>5, <2>6, <2>7 DEF RegistryInv
<1> QED
  BY <1>2, <1>3, <1>4

\* A call that began before the release finds what it uses.
LEMMA CallInvNext ==
  ASSUME RegistryInv, crash = None, NEW u \in Users,
         Call(u) \/ CallCategory(u) \/ CallAppender(u) \/ CallEnd(u)
  PROVE  RegistryInv'
<1>1. /\ TypeOK /\ LockHeld /\ MapInv /\ TodoInv /\ DelayInv /\ JobInv /\ CallInv /\ GraceProtects
      /\ Grace \in Nat /\ MaxOp \in Nat /\ None \notin Users /\ Job \notin Users
      /\ 0 \in 0 .. MaxOp /\ None # Job
  BY RegistryAssumption DEF RegistryInv
<1>2. CASE Call(u)
  <2>1. /\ at[u] = "idle" /\ held[u] # 0 /\ at' = [at EXCEPT ![u] = "category"]
        /\ early' = [early EXCEPT ![u] = app[held[u]] = "open"]
        /\ UNCHANGED <<map, lock, objects, jobs, held, todo, age, crash>>
    BY <1>2 DEF Call, Goto
  <2>2. (app[held[u]] = "open") \in BOOLEAN
    OBVIOUS
  <2>3. TypeOK'
    BY <1>1, <2>1, <2>2 DEF TypeOK, objects, jobs
  <2>4. LockHeld' /\ TodoInv' /\ MapInv'
    BY <1>1, <2>1 DEF LockHeld, TodoInv, MapInv, TypeOK, objects
  <2>5. DelayInv' /\ JobInv' /\ GraceProtects'
    BY <1>1, <2>1, RegistryAssumption DEF DelayInv, JobInv, GraceProtects, objects, jobs
  <2>6. app[held[u]] = "open" => Protected(held[u], age[u])
    <3>1. held[u] \in Insts
      BY <1>1, <2>1, Types
    <3>2. ASSUME app[held[u]] = "open"
          PROVE  cat[held[u]] = "live" /\ catIn[held[u]] = Never
      <4>1. PICK n \in Names : map[n] = held[u]
        BY <1>1, <3>1, <3>2 DEF MapInv
      <4> QED
        BY <1>1, <2>1, <3>1, <3>2, <4>1 DEF MapInv, DelayInv
    <3> QED
      BY <2>1, <3>2 DEF Protected
  <2>7. CallInv'
    BY <1>1, <2>1, <2>6 DEF CallInv, Calling, Protected, TypeOK, objects
  <2> QED
    BY <2>3, <2>4, <2>5, <2>7 DEF RegistryInv
<1>3. ASSUME at[u] \in Calling, UNCHANGED <<map, lock, objects, jobs, held, todo, early>>,
             crash' \in {None, u}, early[u] => crash' = None,
             NEW l \in Calling \cup {"idle"}, at' = [at EXCEPT ![u] = l],
             \/ l \in Calling /\ UNCHANGED age
             \/ l = "idle" /\ age' = [age EXCEPT ![u] = 0]
      PROVE  RegistryInv'
  <2>1. l \notin {"erase", "flush"} /\ at[u] \notin {"erase", "flush"}
    BY <1>3 DEF Calling
  <2>2. TypeOK'
    BY <1>1, <1>3 DEF TypeOK, objects, jobs, Calling
  <2>3. LockHeld' /\ TodoInv' /\ MapInv'
    BY <1>1, <1>3, <2>1 DEF LockHeld, TodoInv, MapInv, TypeOK, objects
  <2>4. DelayInv' /\ JobInv'
    BY <1>1, <1>3 DEF DelayInv, JobInv, objects, jobs
  <2>5. GraceProtects'
    BY <1>1, <1>3, <2>1 DEF GraceProtects, TypeOK
  <2>6. CallInv'
    BY <1>1, <1>3 DEF CallInv, Calling, Protected, TypeOK, objects
  <2> QED
    BY <2>2, <2>3, <2>4, <2>5, <2>6 DEF RegistryInv
<1>4. at[u] \in Calling /\ early[u] => cat[held[u]] = "live" /\ app[held[u]] \in {"open", "closed"}
  BY <1>1 DEF CallInv, Protected
<1>5. CASE CallCategory(u)
  <2>1. at[u] \in Calling /\ UNCHANGED <<map, lock, objects, jobs, held, todo, early>>
    BY <1>5 DEF CallCategory, Calling
  <2>2. crash' \in {None, u} /\ (early[u] => crash' = None)
    BY <1>4, <1>5, <2>1 DEF CallCategory, Uses
  <2>3. \/ at' = [at EXCEPT ![u] = "idle"] /\ age' = [age EXCEPT ![u] = 0]
        \/ at' = [at EXCEPT ![u] = "appender"] /\ UNCHANGED age
    BY <1>5 DEF CallCategory, Ends, Goto
  <2> QED
    BY <1>3, <2>1, <2>2, <2>3 DEF Calling
<1>6. CASE CallAppender(u)
  <2>1. at[u] \in Calling /\ UNCHANGED <<map, lock, objects, jobs, held, todo, early>>
    BY <1>6 DEF CallAppender, Calling
  <2>2. crash' \in {None, u} /\ (early[u] => crash' = None)
    BY <1>4, <1>6, <2>1 DEF CallAppender, Uses
  <2>3. \/ at' = [at EXCEPT ![u] = "idle"] /\ age' = [age EXCEPT ![u] = 0]
        \/ at' = [at EXCEPT ![u] = "inside"] /\ UNCHANGED age
    BY <1>6 DEF CallAppender, Ends, Goto
  <2> QED
    BY <1>3, <2>1, <2>2, <2>3 DEF Calling
<1>7. CASE CallEnd(u)
  <2>1. at[u] \in Calling /\ UNCHANGED <<map, lock, objects, jobs, held, todo, early>>
    BY <1>7 DEF CallEnd, Calling
  <2>2. crash' \in {None, u} /\ (early[u] => crash' = None)
    BY <1>4, <1>7, <2>1 DEF CallEnd, Uses
  <2>3. at' = [at EXCEPT ![u] = "idle"] /\ age' = [age EXCEPT ![u] = 0]
    BY <1>7 DEF CallEnd, Ends, Goto
  <2> QED
    BY <1>3, <2>1, <2>2, <2>3
<1> QED
  BY <1>2, <1>5, <1>6, <1>7

LEMMA BackgroundInv ==
  ASSUME RegistryInv, crash = None, NEW i \in Insts, Background(i) \/ JobStart(i)
  PROVE  RegistryInv'
<1>1. /\ TypeOK /\ LockHeld /\ MapInv /\ TodoInv /\ DelayInv /\ JobInv /\ CallInv /\ GraceProtects
      /\ Grace \in Nat /\ MaxOp \in Nat /\ MaxJob \in Nat /\ MaxOp < Grace /\ MaxJob < Grace
      /\ Never \in Never .. Grace /\ 0 \in 0 .. MaxJob
  BY RegistryAssumption DEF RegistryInv, Never
<1>2. CASE JobStart(i)
  <2>1. /\ job[i] = "delay" /\ job' = [job EXCEPT ![i] = "running"]
        /\ UNCHANGED <<map, lock, objects, jobAge, held, call, crash>>
    BY <1>2 DEF JobStart
  <2>2. app[i] = "open"
    BY <1>1, <2>1 DEF DelayInv
  <2>3. TypeOK'
    BY <1>1, <2>1 DEF TypeOK, objects, call
  <2>4. LockHeld' /\ TodoInv' /\ MapInv' /\ GraceProtects' /\ CallInv'
    BY <1>1, <2>1 DEF LockHeld, TodoInv, MapInv, GraceProtects, CallInv, Protected, objects, call
  <2>5. DelayInv' /\ JobInv'
    BY <1>1, <2>1, <2>2 DEF DelayInv, JobInv, TypeOK, objects
  <2> QED
    BY <2>3, <2>4, <2>5 DEF RegistryInv
<1>3. CASE JobEnd(i)
  <2>1. /\ job[i] = "running" /\ job' = [job EXCEPT ![i] = "done"]
        /\ jobAge' = [jobAge EXCEPT ![i] = 0]
        /\ UNCHANGED <<map, lock, objects, held, call>>
    BY <1>3 DEF JobEnd
  <2>2. crash' = crash
    BY <1>1, <1>3, <2>1 DEF JobEnd, Uses, JobInv
  <2>3. TypeOK'
    BY <1>1, <2>1, <2>2 DEF TypeOK, objects, call
  <2>4. LockHeld' /\ TodoInv' /\ MapInv' /\ GraceProtects' /\ CallInv'
    BY <1>1, <2>1, <2>2 DEF LockHeld, TodoInv, MapInv, GraceProtects, CallInv, Protected, objects,
                            call
  <2>5. DelayInv' /\ JobInv'
    BY <1>1, <2>1 DEF DelayInv, JobInv, TypeOK, objects
  <2> QED
    BY <2>3, <2>4, <2>5 DEF RegistryInv
<1>4. CASE FreeApp(i)
  <2>1. /\ appIn[i] = 0 /\ app' = [app EXCEPT ![i] = "freed"]
        /\ appIn' = [appIn EXCEPT ![i] = Never]
        /\ UNCHANGED <<map, lock, cat, catIn, jobs, held, call, crash>>
    BY <1>4 DEF FreeApp
  <2>2. app[i] = "closed"
    BY <1>1, <2>1 DEF DelayInv, Never
\* Neither a job nor a call that began in time is still under way.
  <2>3. job[i] # "running"
    BY <1>1, <2>1, <2>2 DEF JobInv, TypeOK
  <2>4. \A u \in Users : at[u] \in Calling /\ early[u] => held[u] # i
    BY <1>1, <2>1, <2>2 DEF CallInv, Protected, TypeOK
  <2>5. TypeOK'
    BY <1>1, <2>1 DEF TypeOK, jobs, call
  <2>6. LockHeld' /\ TodoInv' /\ GraceProtects'
    BY <1>1, <2>1, <2>2, Types DEF LockHeld, TodoInv, GraceProtects, call, TypeOK
  <2>7. MapInv'
    BY <1>1, <2>1, <2>2, Types DEF MapInv, call
  <2>8. DelayInv' /\ JobInv'
    BY <1>1, <2>1, <2>2, <2>3, Types DEF DelayInv, JobInv, jobs
  <2>9. CallInv'
    BY <1>1, <2>1, <2>4, Types DEF CallInv, Protected, call
  <2> QED
    BY <2>5, <2>6, <2>7, <2>8, <2>9 DEF RegistryInv
<1>5. CASE FreeCat(i)
  <2>1. /\ catIn[i] = 0 /\ cat' = [cat EXCEPT ![i] = "freed"]
        /\ catIn' = [catIn EXCEPT ![i] = Never]
        /\ UNCHANGED <<map, lock, app, appIn, jobs, held, call, crash>>
    BY <1>5 DEF FreeCat
  <2>2. app[i] \in {"closed", "freed"} /\ \A n \in Names : map[n] # i
    BY <1>1, <2>1 DEF DelayInv, Never
  <2>3. \A u \in Users : at[u] \in Calling /\ early[u] => held[u] # i
    BY <1>1, <2>1 DEF CallInv, Protected, TypeOK, Never
  <2>4. TypeOK'
    BY <1>1, <2>1 DEF TypeOK, jobs, call
  <2>5. LockHeld' /\ TodoInv' /\ GraceProtects'
    BY <1>1, <2>1, <2>2, Types DEF LockHeld, TodoInv, GraceProtects, call, TypeOK
  <2>6. MapInv'
    BY <1>1, <2>1, <2>2, Types DEF MapInv, call
  <2>7. DelayInv' /\ JobInv'
    BY <1>1, <2>1, Types DEF DelayInv, JobInv, jobs
  <2>8. CallInv'
    BY <1>1, <2>1, <2>3, Types DEF CallInv, Protected, call
  <2> QED
    BY <2>4, <2>5, <2>6, <2>7, <2>8 DEF RegistryInv
<1> QED
  BY <1>2, <1>3, <1>4, <1>5 DEF Background

\* A delay that runs does not run out while less than it has passed.
LEMMA SoonerFacts ==
  ASSUME NEW d \in Never .. Grace
  PROVE  /\ Sooner(d) \in Never .. Grace
         /\ Sooner(d) # Never <=> d # Never
         /\ d > 0 => Sooner(d) = d - 1
BY RegistryAssumption DEF Sooner, Never

LEMMA TickInv ==
  ASSUME RegistryInv, crash = None, Tick
  PROVE  RegistryInv'
<1>1. /\ TypeOK /\ LockHeld /\ MapInv /\ TodoInv /\ DelayInv /\ JobInv /\ CallInv /\ GraceProtects
      /\ Grace \in Nat /\ MaxOp \in Nat /\ MaxJob \in Nat /\ MaxOp < Grace /\ MaxJob < Grace
  BY RegistryAssumption DEF RegistryInv
<1>2. /\ \A u \in Users : at[u] # "idle" => age[u] < MaxOp
      /\ \A i \in Insts : job[i] = "running" => jobAge[i] < MaxJob
      /\ appIn' = [i \in Insts |-> Sooner(appIn[i])]
      /\ catIn' = [i \in Insts |-> Sooner(catIn[i])]
      /\ age' = [u \in Users |-> IF at[u] # "idle" THEN age[u] + 1 ELSE 0]
      /\ jobAge' = [i \in Insts |-> IF job[i] = "running" THEN jobAge[i] + 1 ELSE 0]
      /\ UNCHANGED <<map, lock, app, cat, job, held, at, todo, early, crash>>
  BY DEF Tick
<1>3. \A i \in Insts :
        /\ appIn[i] \in Never .. Grace /\ catIn[i] \in Never .. Grace
        /\ appIn'[i] \in Never .. Grace /\ catIn'[i] \in Never .. Grace
        /\ appIn'[i] # Never <=> appIn[i] # Never
        /\ catIn'[i] # Never <=> catIn[i] # Never
        /\ appIn[i] > 0 => appIn'[i] = appIn[i] - 1
        /\ catIn[i] > 0 => catIn'[i] = catIn[i] - 1
  <2> SUFFICES ASSUME NEW i \in Insts
               PROVE  /\ appIn[i] \in Never .. Grace /\ catIn[i] \in Never .. Grace
                      /\ appIn'[i] \in Never .. Grace /\ catIn'[i] \in Never .. Grace
                      /\ appIn'[i] # Never <=> appIn[i] # Never
                      /\ catIn'[i] # Never <=> catIn[i] # Never
                      /\ appIn[i] > 0 => appIn'[i] = appIn[i] - 1
                      /\ catIn[i] > 0 => catIn'[i] = catIn[i] - 1
    OBVIOUS
  <2>1. appIn[i] \in Never .. Grace /\ catIn[i] \in Never .. Grace
    BY <1>1, Types
  <2>2. appIn'[i] = Sooner(appIn[i]) /\ catIn'[i] = Sooner(catIn[i])
    BY <1>2
  <2> QED
    BY <2>1, <2>2, SoonerFacts
<1>4. appIn' \in [Insts -> Never .. Grace] /\ catIn' \in [Insts -> Never .. Grace]
  BY <1>2, <1>3
<1>5. age' \in [Users -> 0 .. MaxOp] /\ jobAge' \in [Insts -> 0 .. MaxJob]
  BY <1>1, <1>2 DEF TypeOK
<1>6. TypeOK'
  BY <1>1, <1>2, <1>4, <1>5 DEF TypeOK
<1>7. LockHeld' /\ TodoInv' /\ MapInv' /\ GraceProtects'
  BY <1>1, <1>2 DEF LockHeld, TodoInv, MapInv, GraceProtects
<1>8. DelayInv'
  BY <1>1, <1>2, <1>3 DEF DelayInv
<1>9. JobInv'
  <2> SUFFICES ASSUME NEW i \in Insts, job[i] = "running", app[i] # "open"
               PROVE  app[i] = "closed" /\ appIn'[i] >= Grace - jobAge'[i]
    BY <1>2 DEF JobInv
  <2>1. /\ app[i] = "closed" /\ appIn[i] >= Grace - jobAge[i]
        /\ jobAge[i] < MaxJob /\ jobAge[i] \in Nat /\ jobAge'[i] = jobAge[i] + 1
    BY <1>1, <1>2 DEF JobInv, TypeOK
  <2>2. appIn[i] \in Never .. Grace /\ appIn[i] > 0
    BY <1>1, <1>3, <2>1 DEF Never
  <2>3. appIn'[i] = appIn[i] - 1
    BY <1>3, <2>2
  <2> QED
    BY <1>1, <2>1, <2>2, <2>3 DEF Never
<1>10. CallInv'
  <2> SUFFICES ASSUME NEW u \in Users, at[u] \in Calling, early[u]
               PROVE  Protected(held[u], age[u])'
    BY <1>2 DEF CallInv
  <2>1. /\ Protected(held[u], age[u]) /\ held[u] \in Insts /\ held'[u] = held[u]
        /\ age[u] < MaxOp /\ age[u] \in Nat /\ age'[u] = age[u] + 1
    BY <1>1, <1>2, Types DEF CallInv, Protected, TypeOK, Calling
  <2>2. app[held[u]] # "open" => app[held[u]] = "closed" /\ appIn'[held[u]] >= Grace - age'[u]
    <3>1. ASSUME app[held[u]] # "open"
          PROVE  app[held[u]] = "closed" /\ appIn'[held[u]] >= Grace - age'[u]
      <4>1. app[held[u]] = "closed" /\ appIn[held[u]] >= Grace - age[u]
        BY <2>1, <3>1 DEF Protected
      <4>2. appIn[held[u]] \in Never .. Grace /\ appIn[held[u]] > 0
        BY <1>1, <1>3, <2>1, <4>1 DEF Never
      <4>3. appIn'[held[u]] = appIn[held[u]] - 1
        BY <1>3, <2>1, <4>2
      <4> QED
        BY <1>1, <2>1, <4>1, <4>2, <4>3 DEF Never
    <3> QED
      BY <3>1
  <2>3. catIn'[held[u]] # Never => catIn'[held[u]] >= Grace - age'[u]
    <3>1. ASSUME catIn'[held[u]] # Never
          PROVE  catIn'[held[u]] >= Grace - age'[u]
      <4>1. catIn[held[u]] >= Grace - age[u]
        BY <1>3, <2>1, <3>1 DEF Protected
      <4>2. catIn[held[u]] \in Never .. Grace /\ catIn[held[u]] > 0
        BY <1>1, <1>3, <2>1, <4>1 DEF Never
      <4>3. catIn'[held[u]] = catIn[held[u]] - 1
        BY <1>3, <2>1, <4>2
      <4> QED
        BY <1>1, <2>1, <4>1, <4>2, <4>3 DEF Never
    <3> QED
      BY <3>1
  <2> QED
    BY <1>2, <2>1, <2>2, <2>3 DEF Protected
<1> QED
  BY <1>6, <1>7, <1>8, <1>9, <1>10 DEF RegistryInv

LEMMA RegistryInvHolds == Spec => []RegistryInv
<1>1. ASSUME RegistryInv, [Next]_vars
      PROVE  RegistryInv'
  <2>1. CASE UNCHANGED vars
    <3>1. TypeOK'
      BY <1>1, <2>1 DEF vars, objects, jobs, call, RegistryInv, TypeOK
    <3>2. LockHeld' /\ MapInv' /\ TodoInv' /\ DelayInv' /\ JobInv' /\ GraceProtects'
      BY <1>1, <2>1 DEF vars, objects, jobs, call, RegistryInv, LockHeld, MapInv, TodoInv,
                        DelayInv, JobInv, GraceProtects
    <3>3. CallInv'
      BY <1>1, <2>1 DEF vars, objects, call, RegistryInv, CallInv, Protected
    <3> QED
      BY <3>1, <3>2, <3>3 DEF RegistryInv
  <2>2. ASSUME NEW u \in Users, Begin(u) \/ Continue(u)
        PROVE  RegistryInv'
    <3>1. crash = None
      BY <2>2 DEF Begin, Continue
    <3>2. CASE Begin(u)
      BY <1>1, <3>1, <3>2, NewInv, GetInv, ReleaseCloseInv, FlushAllInv, CallInvNext DEF Begin
    <3>3. CASE Continue(u)
      BY <1>1, <3>1, <3>3, ReleaseEraseInv, FlushAllInv, CallInvNext DEF Continue
    <3> QED
      BY <2>2, <3>2, <3>3
  <2>3. ASSUME NEW i \in Insts, Background(i) \/ (crash = None /\ JobStart(i))
        PROVE  RegistryInv'
    <3>1. crash = None
      BY <2>3 DEF Background
    <3> QED
      BY <1>1, <2>3, <3>1, BackgroundInv
  <2>4. CASE crash = None /\ Tick
    BY <1>1, <2>4, TickInv
  <2> QED
    BY <1>1, <2>1, <2>2, <2>3, <2>4 DEF Next
<1>2. RegistryInv /\ [Next]_vars => RegistryInv'
  BY <1>1
<1> QED
  BY <1>2, InitInv, PTL DEF Spec

-----------------------------------------------------------------------------
(* The theorems.                                                           *)

\* The five seconds protect every call that began before the release, every
\* FlushAll and every job, if these last less than five seconds.
THEOREM GraceIsEnough == Spec => []GraceProtects
<1>1. RegistryInv => GraceProtects
  BY DEF RegistryInv
<1> QED
  BY <1>1, RegistryInvHolds, PTL

\* What can be found is open, and what is open can be found, so one name never
\* has two open appenders.
THEOREM MapLeadsToOpen == Spec => []MapIsOpen
<1>1. RegistryInv => MapIsOpen
  <2> SUFFICES ASSUME RegistryInv PROVE MapIsOpen
    OBVIOUS
  <2>1. TypeOK /\ LockHeld /\ MapInv /\ None \notin Users
    BY RegistryAssumption DEF RegistryInv
  <2>2. lock = None => \A u \in Users : at[u] # "erase"
    BY <2>1 DEF LockHeld
  <2> QED
    BY <2>1, <2>2 DEF MapInv, MapIsOpen
<1> QED
  BY <1>1, RegistryInvHolds, PTL

\* Every variable of the registry keeps its type.
THEOREM RegistryTypes == Spec => []TypeOK
<1>1. RegistryInv => TypeOK
  BY DEF RegistryInv
<1> QED
  BY <1>1, RegistryInvHolds, PTL
=============================================================================
