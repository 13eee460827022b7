----------------------- MODULE DefaultAppenderProofs -----------------------
(***************************************************************************)
(* The properties of DefaultAppender for any number of logging, opening    *)
(* and closing threads, appenders, calls and any recursion limit.          *)
(***************************************************************************)
EXTENDS DefaultAppender, SequenceTheorems, TLAPS

\* Only the innermost call of a thread can be at the guard.
FramesInv ==
  /\ frames \in [Writers -> Seq(Apps \cup {AtGuard})]
  /\ \A w \in Writers : \A i \in 1 .. Len(frames[w]) - 1 : frames[w][i] # AtGuard

\* What the counters of a thread say about each other.
Agree(len, depth, rec, str, sto, cal, deep) ==
  /\ depth <= rec /\ depth <= deep
  /\ rec + (len - depth) <= cal
  /\ sto + len <= cal
  /\ deep <= cal
  /\ deep <= MaxRec => rec = depth /\ (depth = 0 => ~str)

CountOf(w) ==
  Agree(Len(frames[w]), Depth(w), recursion_count[w], recursion_str[w], stored[w],
        calls[w], deepest[w])

LocalTypes ==
  /\ recursion_count \in [Writers -> 0 .. MaxCalls]
  /\ recursion_str \in [Writers -> BOOLEAN]
  /\ stored \in [Writers -> 0 .. MaxCalls] /\ calls \in [Writers -> 0 .. MaxCalls]
  /\ deepest \in [Writers -> 0 .. MaxCalls]

LocalInv == FramesInv /\ LocalTypes /\ \A w \in Writers : CountOf(w)

InClose == {"set", "close", "wipe", "release"}

\* sg_mutex is held by whoever is in appender_close.
MutexInv ==
  /\ \A o \in Owners : pc[o] \in InClose <=> sg_mutex = o
  /\ pc[Exit] \in {"idle", "over"} \cup InClose
  /\ \A o \in Owners : pc[o] # "over"

\* One thread opens at a time; meanwhile the guard is down and nobody closes.
OpenInv ==
  /\ \A o, p \in Owners : Opening(o) /\ Opening(p) => o = p
  /\ \A o \in Owners :
       /\ Opening(o) => sg_release_guard /\ sg_mutex = None
       /\ pc[o] \in {"new", "publish"} => sg_default_appender = 0
       /\ pc[o] = "publish" => target[o] # 0 /\ app[target[o]] = "open"
       /\ pc[o] = "guard" => sg_default_appender # 0
  /\ sg_default_appender = 0 => sg_release_guard /\ sg_mutex = None

\* What a thread in Close is busy with.
CloseInv ==
  /\ \A t \in Closers : pc[t] \in {"close", "wipe", "release"} =>
       /\ target[t] # 0 /\ app[target[t]] # "none"
       /\ t # Exit => target[t] = sg_default_appender /\ sg_release_guard
       /\ pc[t] = "release" => app[target[t]] # "open"
  /\ \A a \in Apps : app[a] = "closing" =>
       \E t \in Closers : pc[t] = "wipe" /\ target[t] = a
  /\ \A a \in Apps : app[a] \in {"none", "open", "closing", "closed"}
  /\ \A o \in Owners : pc[o] = "publish" /\ pc[Exit] \in {"close", "wipe"} => target[Exit] # target[o]

\* An appender with files and mapping is the default one, about to become
\* that, or in the hands of the exit handler.
BufferInv ==
  \A a \in Apps : HasBuffer(a) =>
    \/ a = sg_default_appender
    \/ \E o \in Owners : pc[o] = "publish" /\ target[o] = a
    \/ pc[Exit] \in {"close", "wipe"} /\ target[Exit] = a

\* Where a thread has made its test and not followed the pointer yet.
Waits(t) == IF t \in Writers THEN ~InCallback(t) ELSE pc[t] \in {"tip", "set"}

PointerInv ==
  /\ \A t \in Writers \cup Closers : Waits(t) /\ sg_default_appender = 0 => closedIn[t]
  /\ sg_default_appender # 0 => app[sg_default_appender] # "none"
  /\ sg_default_appender # 0 /\ app[sg_default_appender] = "closed" =>
       sg_mutex # None \/ pc[Exit] \in {"release", "over"}

SoleParts == OpenInv /\ CloseInv /\ BufferInv /\ PointerInv

SoleInv == ~overlap => SoleParts


-----------------------------------------------------------------------------
(* The stack of calls.                                                     *)

LEMMA PushFrame ==
  ASSUME NEW S, NEW f \in Seq(S), NEW e \in S
  PROVE  /\ Append(f, e) \in Seq(S) /\ Append(f, e) # <<>>
         /\ Len(Append(f, e)) = Len(f) + 1 /\ Len(f) \in Nat
         /\ Last(Append(f, e)) = e
         /\ \A i \in 1 .. Len(f) : Append(f, e)[i] = f[i]
BY DEF Last

LEMMA PopFrame ==
  ASSUME NEW S, NEW f \in Seq(S), f # <<>>
  PROVE  /\ Front(f) \in Seq(S) /\ Last(f) \in S
         /\ Len(f) \in Nat \ {0} /\ Len(Front(f)) = Len(f) - 1
         /\ \A i \in 1 .. Len(f) - 1 : Front(f)[i] = f[i]
         /\ Last(f) = f[Len(f)]
         /\ Front(f) # <<>> => Last(Front(f)) = f[Len(f) - 1]
<1>1. Len(f) \in Nat \ {0} /\ Last(f) = f[Len(f)] /\ Last(f) \in S
  BY DEF Last
<1>2. /\ Front(f) \in Seq(S) /\ Len(Front(f)) = Len(f) - 1
      /\ \A i \in 1 .. Len(f) - 1 : Front(f)[i] = f[i]
  <2> DEFINE n == Len(f) - 1
  <2>1. n \in Int /\ \A i \in 1 .. n : f[i] \in S
    BY <1>1
  <2> HIDE DEF n
  <2>2. /\ SubSeq(f, 1, n) \in Seq(S)
        /\ Len(SubSeq(f, 1, n)) = IF 1 <= n THEN n - 1 + 1 ELSE 0
        /\ \A i \in 1 .. n - 1 + 1 : SubSeq(f, 1, n)[i] = f[1 + i - 1]
    BY <2>1, SubSeqProperties
  <2>3. Front(f) = SubSeq(f, 1, n) /\ n = Len(f) - 1 /\ n \in Nat
    BY <1>1 DEF Front, n
  <2> QED
    BY <2>2, <2>3
<1>3. ASSUME Front(f) # <<>> PROVE Last(Front(f)) = f[Len(f) - 1]
  <2>1. Len(Front(f)) \in Nat \ {0}
    BY <1>2, <1>3
  <2> QED
    BY <1>1, <1>2, <2>1 DEF Last
<1> QED
  BY <1>1, <1>2, <1>3

Frames == Seq(Apps \cup {AtGuard})

LEMMA FrameTypes ==
  ASSUME FramesInv, NEW w \in Writers
  PROVE  /\ frames[w] \in Frames /\ Len(frames[w]) \in Nat
         /\ frames[w] = <<>> <=> Len(frames[w]) = 0
         /\ frames[w] # <<>> => Last(frames[w]) \in Apps \cup {AtGuard} /\ Len(frames[w]) > 0
         /\ Depth(w) \in Int
         /\ Depth(w) = IF InCallback(w) THEN Len(frames[w]) ELSE Len(frames[w]) - 1
         /\ Depth(w) >= 0
         /\ frames[w] = <<>> => InCallback(w)
<1>1. frames[w] \in Frames
  BY DEF FramesInv, Frames
<1>2. /\ Len(frames[w]) \in Nat
      /\ frames[w] = <<>> <=> Len(frames[w]) = 0
  BY <1>1 DEF Frames
<1>3. frames[w] # <<>> => Last(frames[w]) \in Apps \cup {AtGuard} /\ Len(frames[w]) > 0
  BY <1>1, <1>2, PopFrame DEF Frames
<1> QED
  BY <1>1, <1>2, <1>3 DEF Depth, InCallback

\* What a step that replaces the stack of w by f makes of the depth.
Restacked(w, f) == frames' = [frames EXCEPT ![w] = f]

LEMMA Restack ==
  ASSUME FramesInv, NEW w \in Writers, NEW f \in Frames, Restacked(w, f),
         \A i \in 1 .. Len(f) - 1 : f[i] # AtGuard
  PROVE  /\ FramesInv'
         /\ frames'[w] = f
         /\ Depth(w)' = IF f # <<>> => Last(f) # AtGuard THEN Len(f) ELSE Len(f) - 1
         /\ InCallback(w)' <=> (f # <<>> => Last(f) # AtGuard)
         /\ \A v \in Writers \ {w} : frames'[v] = frames[v] /\ Depth(v)' = Depth(v)
<1>1. frames' \in [Writers -> Frames] /\ frames'[w] = f
  BY DEF Restacked, FramesInv, Frames
<1>2. \A v \in Writers \ {w} : frames'[v] = frames[v]
  BY DEF Restacked, FramesInv
<1> QED
  BY <1>1, <1>2 DEF FramesInv, Frames, Depth, InCallback

LEMMA LogStack ==
  ASSUME FramesInv, NEW w \in Writers, InCallback(w), Restacked(w, Append(frames[w], AtGuard))
  PROVE  /\ FramesInv' /\ frames'[w] # <<>>
         /\ Len(frames'[w]) = Len(frames[w]) + 1 /\ Depth(w)' = Depth(w)
         /\ \A v \in Writers \ {w} : frames'[v] = frames[v] /\ Depth(v)' = Depth(v)
<1> DEFINE f == Append(frames[w], AtGuard)
<1>1. frames[w] \in Frames /\ Len(frames[w]) \in Nat
      /\ (frames[w] # <<>> => Last(frames[w]) # AtGuard /\ Last(frames[w]) = frames[w][Len(frames[w])])
  BY FrameTypes, PopFrame DEF InCallback, Frames
<1>2. /\ f \in Frames /\ f # <<>> /\ Len(f) = Len(frames[w]) + 1 /\ Last(f) = AtGuard
      /\ \A i \in 1 .. Len(frames[w]) : f[i] = frames[w][i]
  BY <1>1, PushFrame DEF Frames
<1>3. \A i \in 1 .. Len(f) - 1 : f[i] # AtGuard
  BY <1>1, <1>2 DEF FramesInv
<1> HIDE DEF f
<1>4. /\ FramesInv' /\ frames'[w] = f /\ Depth(w)' = Len(f) - 1
      /\ \A v \in Writers \ {w} : frames'[v] = frames[v] /\ Depth(v)' = Depth(v)
  BY <1>2, <1>3, Restack DEF f
<1> QED
  BY <1>1, <1>2, <1>4, FrameTypes

LEMMA PopStack ==
  ASSUME FramesInv, NEW w \in Writers, frames[w] # <<>>, Restacked(w, Front(frames[w]))
  PROVE  /\ FramesInv' /\ frames'[w] = Front(frames[w]) /\ InCallback(w)'
         /\ Len(frames'[w]) = Len(frames[w]) - 1 /\ Depth(w)' = Len(frames[w]) - 1
         /\ \A v \in Writers \ {w} : frames'[v] = frames[v] /\ Depth(v)' = Depth(v)
<1> DEFINE f == Front(frames[w])
<1>1. frames[w] \in Frames
  BY FrameTypes
<1>2. /\ f \in Frames /\ Len(frames[w]) \in Nat \ {0} /\ Len(f) = Len(frames[w]) - 1
      /\ \A i \in 1 .. Len(frames[w]) - 1 : f[i] = frames[w][i]
      /\ f # <<>> => Last(f) = frames[w][Len(frames[w]) - 1]
  BY <1>1, PopFrame DEF Frames
<1>3. \A i \in 1 .. Len(f) - 1 : f[i] # AtGuard
  BY <1>2 DEF FramesInv
<1>4. f # <<>> => Last(f) # AtGuard
  <2>1. f \in Seq(Apps \cup {AtGuard}) => (f # <<>> => Len(f) # 0)
    <3> HIDE DEF f
    <3> QED
      OBVIOUS
  <2> QED
    BY <1>2, <2>1 DEF FramesInv, Frames
<1> HIDE DEF f
<1>5. /\ FramesInv' /\ frames'[w] = f /\ Depth(w)' = Len(f) /\ InCallback(w)'
      /\ \A v \in Writers \ {w} : frames'[v] = frames[v] /\ Depth(v)' = Depth(v)
  BY <1>2, <1>3, <1>4, Restack DEF f
<1> QED
  BY <1>2, <1>5 DEF f

LEMMA EnterStack ==
  ASSUME FramesInv, NEW w \in Writers, ~InCallback(w), NEW a \in Apps,
         Restacked(w, Append(Front(frames[w]), a))
  PROVE  /\ FramesInv' /\ frames'[w] # <<>> /\ InCallback(w)'
         /\ Len(frames'[w]) = Len(frames[w]) /\ Depth(w)' = Len(frames[w])
         /\ \A v \in Writers \ {w} : frames'[v] = frames[v] /\ Depth(v)' = Depth(v)
<1> DEFINE g == Front(frames[w])
           f == Append(g, a)
<1>1. frames[w] \in Frames /\ frames[w] # <<>>
  BY FrameTypes DEF InCallback
<1>2. /\ g \in Frames /\ Len(frames[w]) \in Nat \ {0} /\ Len(g) = Len(frames[w]) - 1
      /\ \A i \in 1 .. Len(frames[w]) - 1 : g[i] = frames[w][i]
  BY <1>1, PopFrame DEF Frames
<1>3. /\ f \in Frames /\ f # <<>> /\ Len(f) = Len(frames[w]) /\ Last(f) = a
      /\ \A i \in 1 .. Len(g) : f[i] = g[i]
  BY <1>2, PushFrame DEF Frames
<1>4. \A i \in 1 .. Len(f) - 1 : f[i] # AtGuard
  BY <1>2, <1>3 DEF FramesInv
<1>5. a # AtGuard
  BY DEF Apps, AtGuard
<1> HIDE DEF f, g
<1>6. /\ FramesInv' /\ frames'[w] = f /\ Depth(w)' = Len(f)
      /\ \A v \in Writers \ {w} : frames'[v] = frames[v] /\ Depth(v)' = Depth(v)
  BY <1>3, <1>4, <1>5, Restack DEF f, g
<1> QED
  BY <1>3, <1>5, <1>6 DEF InCallback


-----------------------------------------------------------------------------
(* The counters.                                                           *)

CountTyped(w) ==
  /\ recursion_count[w] \in Nat /\ stored[w] \in Nat /\ deepest[w] \in Nat
  /\ calls[w] \in Nat /\ calls[w] <= MaxCalls /\ recursion_str[w] \in BOOLEAN
  /\ Len(frames[w]) \in Nat /\ Depth(w) \in Nat
  /\ MaxRec \in Nat /\ MaxCalls \in Nat

\* How the counters may change together.
Moves(len, depth, rec, str, sto, cal, deep) ==
  /\ Agree(len + 1, depth, rec, str, sto, cal + 1, deep)
  /\ len > 0 /\ depth = len - 1 =>
       /\ Agree(len - 1, len - 1, rec, str, sto, cal, deep)
       /\ Agree(len, len, rec + 1, str, sto, cal, IF deep < len THEN len ELSE deep)
       /\ rec + 1 <= cal
  /\ len > 0 /\ depth = len =>
       /\ rec > MaxRec => Agree(len - 1, len - 1, rec, str, sto, cal, deep)
       /\ rec >= 2 => Agree(len - 1, len - 1, rec - 1, TRUE, sto, cal, deep)
       /\ Agree(len - 1, len - 1, rec - 1, FALSE, sto, cal, deep)
       /\ Agree(len - 1, len - 1, rec - 1, FALSE, sto + 1, cal, deep)
       /\ rec >= 1 /\ sto + 1 <= cal
  /\ len <= cal /\ deep <= cal

LEMMA Agreements ==
  ASSUME MaxRec \in Nat,
         NEW len \in Nat, NEW depth \in Nat, NEW rec \in Nat, NEW str,
         NEW sto \in Nat, NEW cal \in Nat, NEW deep \in Nat,
         Agree(len, depth, rec, str, sto, cal, deep)
  PROVE  Moves(len, depth, rec, str, sto, cal, deep)
<1>1. Agree(len + 1, depth, rec, str, sto, cal + 1, deep)
  BY DEF Agree
<1>2. ASSUME len > 0, depth = len - 1
      PROVE  /\ Agree(len - 1, len - 1, rec, str, sto, cal, deep)
             /\ Agree(len, len, rec + 1, str, sto, cal, IF deep < len THEN len ELSE deep)
             /\ rec + 1 <= cal
  <2>1. Agree(len - 1, len - 1, rec, str, sto, cal, deep) /\ rec + 1 <= cal
    BY <1>2 DEF Agree
  <2>2. CASE deep < len
    BY <1>2, <2>2 DEF Agree
  <2>3. CASE ~(deep < len)
    BY <1>2, <2>3 DEF Agree
  <2> QED
    BY <2>1, <2>2, <2>3
<1>3. ASSUME len > 0, depth = len
      PROVE  /\ rec > MaxRec => Agree(len - 1, len - 1, rec, str, sto, cal, deep)
             /\ rec >= 2 => Agree(len - 1, len - 1, rec - 1, TRUE, sto, cal, deep)
             /\ Agree(len - 1, len - 1, rec - 1, FALSE, sto, cal, deep)
             /\ Agree(len - 1, len - 1, rec - 1, FALSE, sto + 1, cal, deep)
             /\ rec >= 1 /\ sto + 1 <= cal
  BY <1>3 DEF Agree
<1>4. len <= cal /\ deep <= cal
  BY DEF Agree
<1> QED
  BY <1>1, <1>2, <1>3, <1>4 DEF Moves

CountMoves(w) ==
  Moves(Len(frames[w]), Depth(w), recursion_count[w], recursion_str[w], stored[w],
        calls[w], deepest[w])

LEMMA CountTypes ==
  ASSUME LocalInv, NEW w \in Writers
  PROVE  CountTyped(w) /\ CountMoves(w)
<1>1. MaxRec \in Nat /\ MaxCalls \in Nat
  BY DefaultAssumption
<1>2. Len(frames[w]) \in Nat /\ Depth(w) \in Nat
  BY FrameTypes DEF LocalInv
<1>3. CountTyped(w)
  BY <1>1, <1>2 DEF LocalInv, LocalTypes, CountTyped
<1>4. Agree(Len(frames[w]), Depth(w), recursion_count[w], recursion_str[w], stored[w],
            calls[w], deepest[w])
  BY DEF LocalInv, CountOf
<1>5. CountMoves(w)
  BY ONLY <1>3, <1>4, Agreements DEF CountMoves, CountTyped
<1> QED
  BY <1>3, <1>5

LEMMA LocalUnchanged ==
  ASSUME LocalInv, UNCHANGED <<frames, local>>
  PROVE  LocalInv'
BY DEF LocalInv, FramesInv, LocalTypes, CountOf, Depth, InCallback, local

\* A step of thread w touches its own counters only.
LEMMA OthersCount ==
  ASSUME LocalInv, NEW w \in Writers, NEW v \in Writers \ {w},
         frames'[v] = frames[v], Depth(v)' = Depth(v),
         recursion_count'[v] = recursion_count[v], recursion_str'[v] = recursion_str[v],
         stored'[v] = stored[v], calls'[v] = calls[v], deepest'[v] = deepest[v]
  PROVE  CountOf(v)'
BY DEF LocalInv, CountOf

LEMMA LogLocal ==
  ASSUME LocalInv, NEW w \in Writers, Log(w)
  PROVE  LocalInv'
<1>1. /\ FramesInv' /\ Len(frames'[w]) = Len(frames[w]) + 1 /\ Depth(w)' = Depth(w)
      /\ \A v \in Writers \ {w} : frames'[v] = frames[v] /\ Depth(v)' = Depth(v)
  BY LogStack DEF Log, Restacked, LocalInv
<1>2. /\ UNCHANGED <<recursion_count, recursion_str, stored, deepest>>
      /\ calls[w] < MaxCalls /\ calls' = [calls EXCEPT ![w] = @ + 1]
  BY DEF Log
<1>3. /\ calls'[w] = calls[w] + 1 /\ \A v \in Writers \ {w} : calls'[v] = calls[v]
      /\ calls' \in [Writers -> 0 .. MaxCalls]
  BY <1>2, CountTypes DEF LocalInv, LocalTypes, CountTyped
<1>4. LocalTypes'
  BY <1>2, <1>3 DEF LocalInv, LocalTypes
<1>5. CountOf(w)'
  BY <1>1, <1>2, <1>3, CountTypes DEF CountTyped, CountMoves, Moves, CountOf, local
<1>6. \A v \in Writers \ {w} : CountOf(v)'
  BY <1>1, <1>2, <1>3, OthersCount
<1> QED
  BY <1>1, <1>4, <1>5, <1>6 DEF LocalInv

LEMMA FollowLocal ==
  ASSUME LocalInv, NEW w \in Writers, Follow(w), sg_default_appender \in Apps \cup {0}
  PROVE  LocalInv'
<1> DEFINE a == sg_default_appender
<1>1. CASE ~Usable(a)
  BY <1>1, LocalUnchanged DEF Follow
<1>2. CASE Usable(a) /\ app[a] # "open"
  <2>1. frames[w] # <<>> /\ ~InCallback(w) /\ Restacked(w, Front(frames[w])) /\ UNCHANGED local
    BY <1>2 DEF Follow, Refuse, Restacked, InCallback
  <2>2. /\ FramesInv' /\ Len(frames'[w]) = Len(frames[w]) - 1 /\ Depth(w)' = Len(frames[w]) - 1
        /\ \A v \in Writers \ {w} : frames'[v] = frames[v] /\ Depth(v)' = Depth(v)
        /\ Depth(w) = Len(frames[w]) - 1 /\ Len(frames[w]) > 0
    BY <2>1, PopStack, FrameTypes DEF LocalInv
  <2>3. LocalTypes'
    BY <2>1 DEF LocalInv, LocalTypes, local
  <2>4. CountOf(w)'
    <3>1. Agree(Len(frames[w]) - 1, Len(frames[w]) - 1, recursion_count[w],
                recursion_str[w], stored[w], calls[w], deepest[w])
      BY <2>2, CountTypes DEF CountTyped, CountMoves, Moves
    <3> QED
      BY <2>1, <2>2, <3>1 DEF CountOf, local
  <2>5. \A v \in Writers \ {w} : CountOf(v)'
    BY <2>1, <2>2, OthersCount DEF local
  <2> QED
    BY <2>2, <2>3, <2>4, <2>5 DEF LocalInv
<1>3. CASE Usable(a) /\ app[a] = "open"
  <2>1. /\ frames[w] # <<>> /\ ~InCallback(w) /\ a \in Apps
        /\ Restacked(w, Append(Front(frames[w]), a))
        /\ recursion_count' = [recursion_count EXCEPT ![w] = @ + 1]
        /\ deepest' = [deepest EXCEPT ![w] = IF @ < Len(frames[w]) THEN Len(frames[w]) ELSE @]
        /\ UNCHANGED <<recursion_str, stored, calls>>
    BY <1>3 DEF Follow, Restacked, InCallback, Usable
  <2>2. /\ FramesInv' /\ Len(frames'[w]) = Len(frames[w]) /\ Depth(w)' = Len(frames[w])
        /\ \A v \in Writers \ {w} : frames'[v] = frames[v] /\ Depth(v)' = Depth(v)
        /\ Depth(w) = Len(frames[w]) - 1 /\ Len(frames[w]) > 0
    BY <2>1, EnterStack, FrameTypes DEF LocalInv
  <2>3. /\ recursion_count[w] + 1 <= calls[w] /\ Len(frames[w]) <= calls[w]
        /\ deepest[w] <= calls[w]
    BY <2>2, CountTypes DEF CountTyped, CountMoves, Moves, CountOf
  <2>4. /\ recursion_count'[w] = recursion_count[w] + 1
        /\ deepest'[w] = IF deepest[w] < Len(frames[w]) THEN Len(frames[w]) ELSE deepest[w]
        /\ \A v \in Writers \ {w} : recursion_count'[v] = recursion_count[v] /\ deepest'[v] = deepest[v]
    BY <2>1 DEF LocalInv, LocalTypes
  <2>5. recursion_count'[w] \in 0 .. MaxCalls /\ deepest'[w] \in 0 .. MaxCalls
    BY <2>3, <2>4, CountTypes DEF CountTyped
  <2>6. LocalTypes'
    BY <2>1, <2>4, <2>5 DEF LocalInv, LocalTypes
  <2>7. CountOf(w)'
    <3>1. Agree(Len(frames[w]), Len(frames[w]), recursion_count[w] + 1, recursion_str[w], stored[w],
                calls[w], IF deepest[w] < Len(frames[w]) THEN Len(frames[w]) ELSE deepest[w])
      BY <2>2, CountTypes DEF CountMoves, Moves
    <3> QED
      BY <2>1, <2>2, <2>4, <3>1, Zenon DEF CountOf
  <2>8. \A v \in Writers \ {w} : CountOf(v)'
    BY <2>1, <2>2, <2>4, OthersCount
  <2> QED
    BY <2>2, <2>6, <2>7, <2>8 DEF LocalInv
<1> QED
  BY <1>1, <1>2, <1>3

LEMMA FinishLocal ==
  ASSUME LocalInv, NEW w \in Writers, Finish(w)
  PROVE  LocalInv'
<1> DEFINE a == Last(frames[w])
<1>1. CASE Breaks(w, a)
  BY <1>1, LocalUnchanged DEF Finish
<1>2. CASE ~Breaks(w, a)
  <2>1. /\ frames[w] # <<>> /\ InCallback(w) /\ Restacked(w, Front(frames[w]))
        /\ GiveUp(w) \/ KeepReport(w) \/ Store(w, a)
    BY <1>2 DEF Finish, Restacked, InCallback
  <2>2. /\ FramesInv' /\ Len(frames'[w]) = Len(frames[w]) - 1 /\ Depth(w)' = Len(frames[w]) - 1
        /\ \A v \in Writers \ {w} : frames'[v] = frames[v] /\ Depth(v)' = Depth(v)
        /\ Depth(w) = Len(frames[w]) /\ Len(frames[w]) > 0
    BY <2>1, PopStack, FrameTypes DEF LocalInv
  <2>3. CountTyped(w) /\ CountMoves(w)
    BY CountTypes
  <2>4. CASE GiveUp(w)
    <3>1. UNCHANGED local /\ recursion_count[w] > MaxRec
      BY <2>4 DEF GiveUp
    <3>2. LocalTypes'
      BY <3>1 DEF LocalInv, LocalTypes, local
    <3>3. CountOf(w)'
      BY <2>2, <2>3, <3>1 DEF CountTyped, CountMoves, Moves, CountOf, local
    <3>4. \A v \in Writers \ {w} : CountOf(v)'
      BY <2>2, <3>1, OthersCount DEF local
    <3> QED
      BY <2>2, <3>2, <3>3, <3>4 DEF LocalInv
  <2>5. CASE KeepReport(w)
    <3>1. /\ recursion_count[w] >= 2
          /\ recursion_str' = [recursion_str EXCEPT ![w] = TRUE]
          /\ recursion_count' = [recursion_count EXCEPT ![w] = @ - 1]
          /\ UNCHANGED <<stored, calls, deepest>>
      BY <2>5 DEF KeepReport, Nested
    <3>2. /\ recursion_count'[w] = recursion_count[w] - 1 /\ recursion_str'[w] = TRUE
          /\ \A v \in Writers \ {w} : recursion_count'[v] = recursion_count[v]
                                      /\ recursion_str'[v] = recursion_str[v]
      BY <3>1 DEF LocalInv, LocalTypes
    <3>3. recursion_count'[w] \in 0 .. MaxCalls
      BY <2>3, <3>1, <3>2 DEF LocalInv, LocalTypes, CountTyped
    <3>4. LocalTypes'
      BY <3>1, <3>2, <3>3 DEF LocalInv, LocalTypes
    <3>5. CountOf(w)'
      BY <2>2, <2>3, <3>1, <3>2 DEF CountTyped, CountMoves, Moves, CountOf, local
    <3>6. \A v \in Writers \ {w} : CountOf(v)'
      BY <2>2, <3>1, <3>2, OthersCount
    <3> QED
      BY <2>2, <3>4, <3>5, <3>6 DEF LocalInv
  <2>6. CASE Store(w, a)
    <3>1. /\ recursion_str' = [recursion_str EXCEPT ![w] = FALSE]
          /\ stored' = [stored EXCEPT ![w] = IF HasBuffer(a) THEN @ + 1 ELSE @]
          /\ recursion_count' = [recursion_count EXCEPT ![w] = @ - 1]
          /\ UNCHANGED <<calls, deepest>>
      BY <2>6 DEF Store
    <3>2. /\ recursion_count'[w] = recursion_count[w] - 1 /\ recursion_str'[w] = FALSE
          /\ stored'[w] = stored[w] \/ stored'[w] = stored[w] + 1
          /\ \A v \in Writers \ {w} : /\ recursion_count'[v] = recursion_count[v]
                                      /\ recursion_str'[v] = recursion_str[v]
                                      /\ stored'[v] = stored[v]
      BY <3>1 DEF LocalInv, LocalTypes
    <3>3. recursion_count'[w] \in 0 .. MaxCalls /\ stored'[w] \in 0 .. MaxCalls
      <4>1. recursion_count[w] >= 1 /\ stored[w] + 1 <= calls[w]
        BY <2>2, <2>3 DEF CountMoves, Moves
      <4>2. recursion_count[w] <= MaxCalls
        BY DEF LocalInv, LocalTypes
      <4> QED
        BY <2>3, <3>2, <4>1, <4>2 DEF CountTyped
    <3>4. LocalTypes'
      BY <3>1, <3>2, <3>3 DEF LocalInv, LocalTypes
    <3>5. CountOf(w)'
      BY <2>2, <2>3, <3>1, <3>2 DEF CountTyped, CountMoves, Moves, CountOf, local
    <3>6. \A v \in Writers \ {w} : CountOf(v)'
      BY <2>2, <3>1, <3>2, OthersCount
    <3> QED
      BY <2>2, <3>4, <3>5, <3>6 DEF LocalInv
  <2> QED
    BY <2>1, <2>4, <2>5, <2>6
<1> QED
  BY <1>1, <1>2


-----------------------------------------------------------------------------
(* The threads that open and close.                                        *)

Places == {"idle", "tip", "new", "publish", "guard", "set", "close", "wipe", "release", "over"}

GlobalTypes ==
  /\ sg_default_appender \in Apps \cup {0} /\ sg_release_guard \in BOOLEAN
  /\ sg_mutex \in Owners \cup {None}
  /\ app \in [Apps -> {"none", "open", "closing", "closed", "released", "freed"}]
  /\ pc \in [Closers -> Places] /\ target \in [Closers -> Apps \cup {0}]
  /\ closedIn \in [Writers \cup Closers -> BOOLEAN]
  /\ overlap \in BOOLEAN /\ crash \in Writers \cup Closers \cup {None}

\* A log call changes, of all this, closedIn and perhaps crash.
LogStep(w) == Log(w) \/ Follow(w) \/ Finish(w)

OwnerStep(o) ==
  \/ OpenTest(o) \/ OpenAgain(o) \/ OpenNew(o) \/ OpenPublish(o) \/ OpenGuard(o)
  \/ CloseTest(o) \/ CloseRelease(o)

CloserStep(t) == GuardDown(t) \/ CloseSet(t) \/ CloseWipe(t)

LEMMA Cases ==
  ASSUME Next
  PROVE  /\ Running
         /\ \/ \E w \in Writers : LogStep(w)
            \/ \E o \in Owners : OwnerStep(o)
            \/ \E t \in Closers : CloserStep(t)
            \/ ExitTest \/ ExitDone
            \/ \E a \in Apps : Release(a)
BY DEF Next, LogStep, OwnerStep, CloserStep

LEMMA Roles ==
  /\ Exit \in Closers /\ Exit \notin Owners /\ Owners \subseteq Closers
  /\ \A t \in Closers : t # Exit => t \in Owners
  /\ None \notin Owners /\ Writers \cap Closers = {}
BY DefaultAssumption DEF Closers

LEMMA LogStepLeaves ==
  ASSUME NEW w \in Writers, LogStep(w)
  PROVE  UNCHANGED <<globals, pc, target, overlap>>
BY DEF LogStep, Log, Follow, Finish

LEMMA GlobalTypesNext ==
  ASSUME GlobalTypes, Next
  PROVE  GlobalTypes'
<1>1. ASSUME NEW w \in Writers, LogStep(w) PROVE GlobalTypes'
  <2>1. UNCHANGED <<globals, pc, target, overlap>>
    BY <1>1, LogStepLeaves
  <2>2. closedIn' \in [Writers \cup Closers -> BOOLEAN] /\ crash' \in Writers \cup Closers \cup {None}
    BY <1>1 DEF LogStep, Log, Follow, Refuse, Finish, Dies, GlobalTypes
  <2> QED
    BY <2>1, <2>2 DEF globals, GlobalTypes
<1>2. ASSUME NEW o \in Owners, OwnerStep(o) PROVE GlobalTypes'
  <2> USE Roles DEF GlobalTypes, globals, Goto, Dies
  <2>1. CASE OpenTest(o)
    BY <2>1 DEF OpenTest, Places
  <2>2. CASE OpenAgain(o)
    BY <2>2 DEF OpenAgain, Places
  <2>3. CASE OpenNew(o)
    BY <2>3 DEF OpenNew, Places
  <2>4. CASE OpenPublish(o)
    BY <2>4 DEF OpenPublish, Places
  <2>5. CASE OpenGuard(o)
    BY <2>5 DEF OpenGuard, Places
  <2>6. CASE CloseTest(o)
    BY <2>6 DEF CloseTest, Places
  <2>7. CASE CloseRelease(o)
    BY <2>7 DEF CloseRelease, Places, DelayRelease
  <2> QED
    BY <1>2, <2>1, <2>2, <2>3, <2>4, <2>5, <2>6, <2>7 DEF OwnerStep
<1>3. ASSUME NEW t \in Closers, CloserStep(t) PROVE GlobalTypes'
  <2> USE DEF GlobalTypes, globals, Goto, Dies
  <2>1. CASE GuardDown(t)
    BY <2>1 DEF GuardDown, Places
  <2>2. CASE CloseSet(t)
    BY <2>2 DEF CloseSet, Places
  <2>3. CASE CloseWipe(t)
    BY <2>3 DEF CloseWipe, Places
  <2> QED
    BY <1>3, <2>1, <2>2, <2>3 DEF CloserStep
<1>4. CASE ExitTest \/ ExitDone
  BY <1>4, Roles DEF ExitTest, ExitDone, GlobalTypes, globals, Goto, Places
<1>5. ASSUME NEW a \in Apps, Release(a) PROVE GlobalTypes'
  BY <1>5 DEF Release, GlobalTypes
<1> QED
  BY <1>1, <1>2, <1>3, <1>4, <1>5, Cases

LEMMA MutexNext ==
  ASSUME GlobalTypes, MutexInv, Next
  PROVE  MutexInv'
<1> USE Roles DEF MutexInv, InClose, GlobalTypes
<1>1. ASSUME NEW w \in Writers, LogStep(w) PROVE MutexInv'
  BY <1>1, LogStepLeaves DEF globals
<1>2. ASSUME NEW o \in Owners, OwnerStep(o) PROVE MutexInv'
  <2> USE DEF globals, Goto
  <2>1. CASE OpenTest(o)
    BY <2>1 DEF OpenTest
  <2>2. CASE OpenAgain(o)
    BY <2>2 DEF OpenAgain
  <2>3. CASE OpenNew(o)
    BY <2>3 DEF OpenNew
  <2>4. CASE OpenPublish(o)
    BY <2>4 DEF OpenPublish
  <2>5. CASE OpenGuard(o)
    BY <2>5 DEF OpenGuard
  <2>6. CASE CloseTest(o)
    BY <2>6 DEF CloseTest
  <2>7. CASE CloseRelease(o)
    BY <2>7 DEF CloseRelease
  <2> QED
    BY <1>2, <2>1, <2>2, <2>3, <2>4, <2>5, <2>6, <2>7 DEF OwnerStep
<1>3. ASSUME NEW t \in Closers, CloserStep(t) PROVE MutexInv'
  <2> USE DEF globals, Goto
  <2>1. CASE GuardDown(t)
    BY <2>1 DEF GuardDown
  <2>2. CASE CloseSet(t)
    BY <2>2 DEF CloseSet
  <2>3. CASE CloseWipe(t)
    BY <2>3 DEF CloseWipe
  <2> QED
    BY <1>3, <2>1, <2>2, <2>3 DEF CloserStep
<1>4. CASE ExitTest \/ ExitDone
  BY <1>4 DEF ExitTest, ExitDone, globals, Goto
<1>5. ASSUME NEW a \in Apps, Release(a) PROVE MutexInv'
  BY <1>5 DEF Release
<1> QED
  BY <1>1, <1>2, <1>3, <1>4, <1>5, Cases

-----------------------------------------------------------------------------
(* What holds while two appender_opens do not overlap.                     *)

LEMMA OpenTestSole ==
  ASSUME GlobalTypes, MutexInv, SoleParts, ~overlap', NEW o \in Owners, OpenTest(o)
  PROVE  SoleParts'
<1> USE Roles DEF GlobalTypes, MutexInv, InClose, SoleParts, globals, Goto, Opening, HasBuffer
<1>1. OpenInv'
  BY DEF OpenTest, OpenInv, CloseInv
<1>2. CloseInv'
  BY DEF OpenTest, OpenInv, CloseInv
<1>3. BufferInv'
  BY DEF OpenTest, OpenInv, CloseInv, BufferInv
<1>4. PointerInv'
  BY DEF OpenTest, OpenInv, CloseInv, PointerInv, Waits, InCallback
<1> QED
  BY <1>1, <1>2, <1>3, <1>4

LEMMA OpenAgainSole ==
  ASSUME GlobalTypes, MutexInv, SoleParts, ~overlap', NEW o \in Owners, OpenAgain(o)
  PROVE  SoleParts'
<1> USE Roles DEF GlobalTypes, MutexInv, InClose, SoleParts, globals, Goto, Opening, HasBuffer
<1>1. OpenInv'
  BY DEF OpenAgain, OpenInv, CloseInv
<1>2. CloseInv'
  BY DEF OpenAgain, OpenInv, CloseInv
<1>3. BufferInv'
  BY DEF OpenAgain, OpenInv, CloseInv, BufferInv
<1>4. PointerInv'
  BY DEF OpenAgain, OpenInv, CloseInv, PointerInv, Waits, InCallback
<1> QED
  BY <1>1, <1>2, <1>3, <1>4

LEMMA OpenNewSole ==
  ASSUME GlobalTypes, MutexInv, SoleParts, ~overlap', NEW o \in Owners, OpenNew(o)
  PROVE  SoleParts'
<1> USE Roles DEF GlobalTypes, MutexInv, InClose, SoleParts, globals, Goto, Opening, HasBuffer
<1>1. OpenInv'
  <2>1. PICK a \in Apps :
          /\ pc[o] = "new" /\ app' = [app EXCEPT ![a] = "open"]
          /\ target' = [target EXCEPT ![o] = a] /\ pc' = [pc EXCEPT ![o] = "publish"]
          /\ UNCHANGED <<sg_default_appender, sg_release_guard, sg_mutex>>
    BY DEF OpenNew
  <2>2. \A p \in Owners \ {o} : ~Opening(p) /\ pc'[p] = pc[p]
    BY <2>1 DEF OpenInv
  <2>3. pc'[o] = "publish" /\ target'[o] = a /\ app'[a] = "open" /\ a # 0
    BY <2>1 DEF Apps
  <2>4. sg_default_appender = 0 /\ sg_release_guard /\ sg_mutex = None
    BY <2>1 DEF OpenInv
  <2> QED
    BY <2>1, <2>2, <2>3, <2>4 DEF OpenInv
<1>2. CloseInv'
  BY DEF OpenNew, OpenInv, CloseInv
<1>3. BufferInv'
  BY DEF OpenNew, OpenInv, CloseInv, BufferInv
<1>4. PointerInv'
  BY DEF OpenNew, OpenInv, CloseInv, PointerInv, Waits, InCallback
<1> QED
  BY <1>1, <1>2, <1>3, <1>4

LEMMA OpenPublishSole ==
  ASSUME GlobalTypes, MutexInv, SoleParts, ~overlap', NEW o \in Owners, OpenPublish(o)
  PROVE  SoleParts'
<1> USE Roles DEF GlobalTypes, MutexInv, InClose, SoleParts, globals, Goto, Opening, HasBuffer
<1>1. OpenInv'
  BY DEF OpenPublish, OpenInv, CloseInv
<1>2. CloseInv'
  BY DEF OpenPublish, OpenInv, CloseInv
<1>3. BufferInv'
  BY DEF OpenPublish, OpenInv, CloseInv, BufferInv
<1>4. PointerInv'
  BY DEF OpenPublish, OpenInv, CloseInv, PointerInv, Waits, InCallback
<1> QED
  BY <1>1, <1>2, <1>3, <1>4

LEMMA OpenGuardSole ==
  ASSUME GlobalTypes, MutexInv, SoleParts, ~overlap', NEW o \in Owners, OpenGuard(o)
  PROVE  SoleParts'
<1> USE Roles DEF GlobalTypes, MutexInv, InClose, SoleParts, globals, Goto, Opening, HasBuffer
<1>1. OpenInv'
  BY DEF OpenGuard, OpenInv, CloseInv
<1>2. CloseInv'
  BY DEF OpenGuard, OpenInv, CloseInv
<1>3. BufferInv'
  BY DEF OpenGuard, OpenInv, CloseInv, BufferInv
<1>4. PointerInv'
  BY DEF OpenGuard, OpenInv, CloseInv, PointerInv, Waits, InCallback
<1> QED
  BY <1>1, <1>2, <1>3, <1>4

LEMMA CloseTestSole ==
  ASSUME GlobalTypes, MutexInv, SoleParts, ~overlap', NEW o \in Owners, CloseTest(o)
  PROVE  SoleParts'
<1> USE Roles DEF GlobalTypes, MutexInv, InClose, SoleParts, globals, Goto, Opening, HasBuffer
<1>1. OpenInv'
  BY DEF CloseTest, OpenInv, CloseInv
<1>2. CloseInv'
  BY DEF CloseTest, OpenInv, CloseInv
<1>3. BufferInv'
  BY DEF CloseTest, OpenInv, CloseInv, BufferInv
<1>4. PointerInv'
  BY DEF CloseTest, OpenInv, CloseInv, PointerInv, Waits, InCallback
<1> QED
  BY <1>1, <1>2, <1>3, <1>4

LEMMA CloseReleaseSole ==
  ASSUME GlobalTypes, MutexInv, SoleParts, ~overlap', NEW o \in Owners, CloseRelease(o)
  PROVE  SoleParts'
<1> USE Roles DEF GlobalTypes, MutexInv, InClose, SoleParts, globals, Goto, Opening, HasBuffer
<1>1. OpenInv'
  BY DEF CloseRelease, OpenInv, CloseInv, DelayRelease, Usable
<1>2. CloseInv'
  BY DEF CloseRelease, OpenInv, CloseInv, DelayRelease, Usable
<1>3. BufferInv'
  BY DEF CloseRelease, OpenInv, CloseInv, BufferInv, DelayRelease, Usable
<1>4. PointerInv'
  BY DEF CloseRelease, OpenInv, CloseInv, PointerInv, Waits, InCallback, DelayRelease, Usable
<1> QED
  BY <1>1, <1>2, <1>3, <1>4

LEMMA GuardDownSole ==
  ASSUME GlobalTypes, MutexInv, SoleParts, ~overlap', NEW t \in Closers, GuardDown(t)
  PROVE  SoleParts'
<1> USE Roles DEF GlobalTypes, MutexInv, InClose, SoleParts, globals, Goto, Opening, HasBuffer
<1>1. OpenInv'
  BY DEF GuardDown, OpenInv, CloseInv, PointerInv, Usable
<1>2. CloseInv'
  BY DEF GuardDown, OpenInv, CloseInv, PointerInv, Usable
<1>3. BufferInv'
  BY DEF GuardDown, OpenInv, CloseInv, BufferInv
<1>4. PointerInv'
  BY DEF GuardDown, OpenInv, CloseInv, PointerInv, Waits, InCallback
<1> QED
  BY <1>1, <1>2, <1>3, <1>4

LEMMA CloseSetSole ==
  ASSUME GlobalTypes, MutexInv, SoleParts, ~overlap', NEW t \in Closers, CloseSet(t)
  PROVE  SoleParts'
<1> USE Roles DEF GlobalTypes, MutexInv, InClose, SoleParts, globals, Goto, Opening, HasBuffer
<1>1. OpenInv'
  BY DEF CloseSet, OpenInv, CloseInv
<1>2. CloseInv'
  BY DEF CloseSet, OpenInv, CloseInv
<1>3. BufferInv'
  BY DEF CloseSet, OpenInv, CloseInv, BufferInv
<1>4. PointerInv'
  BY DEF CloseSet, OpenInv, CloseInv, PointerInv, Waits, InCallback
<1> QED
  BY <1>1, <1>2, <1>3, <1>4

LEMMA CloseWipeSole ==
  ASSUME GlobalTypes, MutexInv, SoleParts, ~overlap', NEW t \in Closers, CloseWipe(t)
  PROVE  SoleParts'
<1> USE Roles DEF GlobalTypes, MutexInv, InClose, SoleParts, globals, Goto, Opening, HasBuffer
<1>1. OpenInv'
  BY DEF CloseWipe, OpenInv, CloseInv
<1>2. CloseInv'
  BY DEF CloseWipe, OpenInv, CloseInv
<1>3. BufferInv'
  BY DEF CloseWipe, OpenInv, CloseInv, BufferInv
<1>4. PointerInv'
  BY DEF CloseWipe, OpenInv, CloseInv, PointerInv, Waits, InCallback
<1> QED
  BY <1>1, <1>2, <1>3, <1>4

LEMMA ExitTestSole ==
  ASSUME GlobalTypes, MutexInv, SoleParts, ~overlap', ExitTest
  PROVE  SoleParts'
<1> USE Roles DEF GlobalTypes, MutexInv, InClose, SoleParts, globals, Goto, Opening, HasBuffer
<1>1. OpenInv'
  BY DEF ExitTest, OpenInv, CloseInv
<1>2. CloseInv'
  BY DEF ExitTest, OpenInv, CloseInv
<1>3. BufferInv'
  BY DEF ExitTest, OpenInv, CloseInv, BufferInv
<1>4. PointerInv'
  BY DEF ExitTest, OpenInv, CloseInv, PointerInv, Waits, InCallback
<1> QED
  BY <1>1, <1>2, <1>3, <1>4

LEMMA ExitDoneSole ==
  ASSUME GlobalTypes, MutexInv, SoleParts, ~overlap', ExitDone
  PROVE  SoleParts'
<1> USE Roles DEF GlobalTypes, MutexInv, InClose, SoleParts, globals, Goto, Opening, HasBuffer
<1>1. OpenInv'
  BY DEF ExitDone, OpenInv, CloseInv
<1>2. CloseInv'
  BY DEF ExitDone, OpenInv, CloseInv
<1>3. BufferInv'
  BY DEF ExitDone, OpenInv, CloseInv, BufferInv
<1>4. PointerInv'
  BY DEF ExitDone, OpenInv, CloseInv, PointerInv, Waits, InCallback
<1> QED
  BY <1>1, <1>2, <1>3, <1>4

LEMMA ReleaseSole ==
  ASSUME GlobalTypes, MutexInv, SoleParts, ~overlap', NEW a \in Apps, Release(a)
  PROVE  SoleParts'
<1> USE Roles DEF GlobalTypes, MutexInv, InClose, SoleParts, globals, Goto, Opening, HasBuffer
<1>1. OpenInv'
  BY DEF Release, OpenInv, CloseInv
<1>2. CloseInv'
  BY DEF Release, OpenInv, CloseInv
<1>3. BufferInv'
  BY DEF Release, OpenInv, CloseInv, BufferInv
<1>4. PointerInv'
  BY DEF Release, OpenInv, CloseInv, PointerInv, Waits, InCallback
<1> QED
  BY <1>1, <1>2, <1>3, <1>4

\* A log call that is let in, refused or finished is in no doubt any more.
LEMMA WaitsAfter ==
  ASSUME LocalInv, NEW w \in Writers, LogStep(w), sg_default_appender \in Apps \cup {0}
  PROVE  /\ \A v \in Writers \ {w} : InCallback(v)' <=> InCallback(v)
         /\ Log(w) \/ InCallback(w)' \/ UNCHANGED frames
<1>1. CASE Log(w)
  BY <1>1, LogStack DEF Log, Restacked, LocalInv, InCallback
<1>2. CASE Follow(w)
  <2>1. CASE UNCHANGED frames
    BY <2>1 DEF InCallback
  <2>2. CASE Restacked(w, Front(frames[w])) /\ frames[w] # <<>>
    BY <2>2, PopStack DEF LocalInv, InCallback
  <2>3. CASE /\ Restacked(w, Append(Front(frames[w]), sg_default_appender))
             /\ ~InCallback(w) /\ sg_default_appender \in Apps
    BY <2>3, EnterStack DEF LocalInv, InCallback
  <2> QED
    BY <1>2, <2>1, <2>2, <2>3 DEF Follow, Refuse, Restacked, InCallback, Usable
<1>3. CASE Finish(w)
  <2>1. CASE UNCHANGED frames
    BY <2>1 DEF InCallback
  <2>2. CASE Restacked(w, Front(frames[w])) /\ frames[w] # <<>>
    BY <2>2, PopStack DEF LocalInv, InCallback
  <2> QED
    BY <1>3, <2>1, <2>2 DEF Finish, Restacked
<1> QED
  BY <1>1, <1>2, <1>3 DEF LogStep

LEMMA LogSole ==
  ASSUME GlobalTypes, LocalInv, SoleParts, ~overlap', NEW w \in Writers, LogStep(w)
  PROVE  SoleParts'
<1>1. UNCHANGED <<globals, pc, target, overlap>>
  BY LogStepLeaves
<1>2. OpenInv' /\ CloseInv' /\ BufferInv'
  BY <1>1 DEF SoleParts, OpenInv, CloseInv, BufferInv, Opening, HasBuffer, globals
<1>3. ASSUME NEW t \in Writers \cup Closers, Waits(t)', sg_default_appender' = 0
      PROVE  closedIn'[t]
  <2>1. sg_default_appender = 0 /\ sg_release_guard /\ pc' = pc
    BY <1>1, <1>3 DEF globals, SoleParts, OpenInv
  <2>2. ~Log(w) /\ UNCHANGED closedIn
    BY <2>1 DEF LogStep, Log, Follow, Finish
  <2>3. Waits(t)
    BY <1>3, <2>1, <2>2, WaitsAfter DEF Waits, GlobalTypes, InCallback
  <2> QED
    BY <2>1, <2>2, <2>3 DEF SoleParts, PointerInv
<1>4. PointerInv'
  BY <1>1, <1>3 DEF globals, SoleParts, PointerInv
<1> QED
  BY <1>2, <1>4 DEF SoleParts

LEMMA OverlapStays == Next /\ overlap => overlap'
BY Cases, LogStepLeaves
   DEF OwnerStep, OpenTest, OpenAgain, OpenNew, OpenPublish, OpenGuard, CloseTest, CloseRelease,
       CloserStep, GuardDown, CloseSet, CloseWipe, ExitTest, ExitDone, Release

LEMMA SoleNext ==
  ASSUME GlobalTypes, LocalInv, MutexInv, SoleInv, Next
  PROVE  SoleInv'
<1> SUFFICES ASSUME ~overlap' PROVE SoleParts'
  BY DEF SoleInv
<1>1. SoleParts
  BY OverlapStays DEF SoleInv
<1>2. ASSUME NEW w \in Writers, LogStep(w) PROVE SoleParts'
  BY <1>1, <1>2, LogSole
<1>3. ASSUME NEW o \in Owners, OwnerStep(o) PROVE SoleParts'
  BY <1>1, <1>3, OpenTestSole, OpenAgainSole, OpenNewSole, OpenPublishSole, OpenGuardSole,
     CloseTestSole, CloseReleaseSole DEF OwnerStep
<1>4. ASSUME NEW t \in Closers, CloserStep(t) PROVE SoleParts'
  BY <1>1, <1>4, GuardDownSole, CloseSetSole, CloseWipeSole DEF CloserStep
<1>5. ASSUME ExitTest \/ ExitDone PROVE SoleParts'
  BY <1>1, <1>5, ExitTestSole, ExitDoneSole
<1>6. ASSUME NEW a \in Apps, Release(a) PROVE SoleParts'
  BY <1>1, <1>6, ReleaseSole
<1> QED
  BY <1>2, <1>3, <1>4, <1>5, <1>6, Cases

-----------------------------------------------------------------------------
(* How a step can fail.                                                    *)

LEMMA FailsNext ==
  ASSUME GlobalTypes, LocalInv, MutexInv, SoleInv, Next
  PROVE  FailsOnlyWhenClosed'
<1> SUFFICES ASSUME crash' # None, ~overlap' PROVE FailsOnlyWhenClosed'
  BY DEF FailsOnlyWhenClosed
<1>1. SoleParts /\ crash = None
  BY OverlapStays, Cases DEF SoleInv, Running
<1>2. \A a \in Apps : app[a] # "freed"
  BY <1>1 DEF SoleParts, CloseInv
<1>3. ASSUME NEW w \in Writers, LogStep(w) PROVE FailsOnlyWhenClosed'
  <2>1. crash' = w /\ UNCHANGED <<frames, local, closedIn>>
    BY <1>1, <1>3 DEF LogStep, Log, Follow, Refuse, Finish, Dies
  <2>2. InCallback(w)' <=> InCallback(w)
    BY <2>1 DEF InCallback
  <2>3. CASE Follow(w)
    <3>1. ~InCallback(w) /\ ~Usable(sg_default_appender)
      BY <1>1, <2>1, <2>3, Roles, DefaultAssumption DEF Follow, Refuse, InCallback
    <3>2. sg_default_appender = 0
      BY <1>2, <3>1 DEF Usable, GlobalTypes
    <3>3. closedIn[w]
      BY <1>1, <3>1, <3>2 DEF SoleParts, PointerInv, Waits
    <3>4. crash' = w /\ w \in Writers /\ w \notin Closers /\ ~InCallback(w)' /\ closedIn'[w]
      BY <2>1, <2>2, <3>1, <3>3, Roles
    <3> QED
      BY <3>4 DEF FailsOnlyWhenClosed
  <2>4. CASE Finish(w)
    <3>1. InCallback(w) /\ frames[w] # <<>> /\ Breaks(w, Last(frames[w]))
      BY <1>1, <2>1, <2>4, DefaultAssumption DEF Finish, InCallback
    <3>2. Last(frames[w]) \in Apps
      BY <3>1, FrameTypes DEF LocalInv, InCallback
    <3>3. recursion_str[w]
      BY <1>2, <3>1, <3>2 DEF Breaks, Usable, Apps
    <3>4. crash' = w /\ w \in Writers /\ w \notin Closers /\ recursion_str'[w]
          /\ (frames'[w] # <<>> => Last(frames'[w]) # AtGuard)
      BY <2>1, <3>1, <3>3, Roles DEF local, InCallback
    <3> QED
      BY <3>4 DEF FailsOnlyWhenClosed, InCallback
  <2>5. CASE Log(w)
    BY <1>1, <2>5 DEF Log
  <2> QED
    BY <1>3, <2>3, <2>4, <2>5 DEF LogStep
<1>4. ASSUME NEW t \in Closers, crash' = t, UNCHANGED <<pc, sg_mutex, closedIn>>,
             \/ closedIn[t]
             \/ pc[t] = "tip" /\ (sg_mutex # None \/ pc[Exit] \in {"release", "over"})
      PROVE  FailsOnlyWhenClosed'
  BY <1>4, Roles DEF FailsOnlyWhenClosed
<1>5. ASSUME NEW o \in Owners, OpenAgain(o) PROVE FailsOnlyWhenClosed'
  <2>1. /\ pc[o] = "tip" /\ ~HasBuffer(sg_default_appender) /\ crash' = o
        /\ UNCHANGED <<pc, sg_mutex, closedIn>> /\ o \in Closers
    BY <1>1, <1>5, Roles DEF OpenAgain, Dies, globals
  <2>2. CASE sg_default_appender = 0
    BY <1>1, <1>4, <2>1, <2>2, Roles DEF SoleParts, PointerInv, Waits
  <2>3. CASE sg_default_appender # 0
    BY <1>1, <1>4, <2>1, <2>3 DEF SoleParts, PointerInv, CloseInv, HasBuffer, GlobalTypes
  <2> QED
    BY <2>2, <2>3
<1>6. ASSUME NEW o \in Owners, OpenGuard(o) \/ CloseRelease(o) PROVE FALSE
  <2>1. ~Usable(sg_default_appender)
    BY <1>1, <1>6 DEF OpenGuard, CloseRelease
  <2>2. sg_default_appender # 0
    BY <1>1, <1>6, Roles DEF OpenGuard, CloseRelease, SoleParts, OpenInv, CloseInv
  <2> QED
    BY <1>2, <2>1, <2>2 DEF Usable, GlobalTypes
<1>7. ASSUME NEW t \in Closers, GuardDown(t) PROVE FailsOnlyWhenClosed'
  <2>1. /\ pc[t] = "set" /\ ~Usable(sg_default_appender) /\ crash' = t
        /\ UNCHANGED <<pc, sg_mutex, closedIn>>
    BY <1>1, <1>7 DEF GuardDown, Dies
  <2>2. sg_default_appender = 0
    BY <1>2, <2>1 DEF Usable, GlobalTypes
  <2> QED
    BY <1>1, <1>4, <2>1, <2>2, Roles DEF SoleParts, PointerInv, Waits
<1>8. ASSUME NEW o \in Owners, OwnerStep(o) PROVE FailsOnlyWhenClosed'
  BY <1>1, <1>5, <1>6, <1>8 DEF OwnerStep, OpenTest, OpenNew, OpenPublish, CloseTest
<1>9. ASSUME NEW t \in Closers, CloserStep(t) PROVE FailsOnlyWhenClosed'
  BY <1>1, <1>7, <1>9 DEF CloserStep, CloseSet, CloseWipe
<1> QED
  BY <1>1, <1>3, <1>8, <1>9, Cases DEF ExitTest, ExitDone, Release

-----------------------------------------------------------------------------
(* The theorems.                                                           *)

DefaultInv == GlobalTypes /\ LocalInv /\ MutexInv /\ SoleInv /\ FailsOnlyWhenClosed

LEMMA DefaultInvInit == Init => DefaultInv
<1> SUFFICES ASSUME Init PROVE DefaultInv
  OBVIOUS
<1> USE Roles
<1>1. 0 \in 0 .. MaxCalls /\ MaxRec \in Nat
  BY DefaultAssumption
<1>2. GlobalTypes
  BY DEF Init, GlobalTypes, Places
<1>3. \A w \in Writers : frames[w] = <<>> /\ Len(frames[w]) = 0 /\ Depth(w) = 0
  BY DEF Init, Depth, InCallback
<1>4. LocalTypes
  BY <1>1 DEF Init, LocalTypes
<1>5. FramesInv
  BY <1>3 DEF Init, FramesInv
<1>6. \A w \in Writers : CountOf(w)
  BY <1>1, <1>3 DEF Init, CountOf, Agree
<1>7. MutexInv
  BY DEF Init, MutexInv, InClose
<1>8. OpenInv
  BY DEF Init, OpenInv, Opening
<1>9. CloseInv /\ BufferInv
  BY DEF Init, CloseInv, BufferInv, HasBuffer
<1>10. PointerInv
  BY <1>3 DEF Init, PointerInv, Waits, InCallback
<1>11. FailsOnlyWhenClosed
  BY DEF Init, FailsOnlyWhenClosed
<1> QED
  BY <1>2, <1>4, <1>5, <1>6, <1>7, <1>8, <1>9, <1>10, <1>11
     DEF DefaultInv, LocalInv, SoleInv, SoleParts

LEMMA LocalNext ==
  ASSUME GlobalTypes, LocalInv, Next
  PROVE  LocalInv'
<1>1. ASSUME NEW w \in Writers, LogStep(w) PROVE LocalInv'
  BY <1>1, LogLocal, FollowLocal, FinishLocal DEF LogStep, GlobalTypes
<1>2. CASE UNCHANGED <<frames, local>>
  BY <1>2, LocalUnchanged
<1> QED
  BY <1>1, <1>2, Cases
     DEF OwnerStep, OpenTest, OpenAgain, OpenNew, OpenPublish, OpenGuard, CloseTest,
         CloseRelease, CloserStep, GuardDown, CloseSet, CloseWipe, ExitTest, ExitDone, Release

LEMMA DefaultInvNext == DefaultInv /\ [Next]_vars => DefaultInv'
<1> SUFFICES ASSUME DefaultInv, [Next]_vars PROVE DefaultInv'
  OBVIOUS
<1>1. CASE Next
  BY <1>1, GlobalTypesNext, LocalNext, MutexNext, SoleNext, FailsNext DEF DefaultInv
<1>2. CASE UNCHANGED vars
  <2>1. UNCHANGED <<globals, pc, target, frames, local, closedIn, overlap, crash>>
    BY <1>2 DEF vars
  <2>2. LocalInv' /\ GlobalTypes' /\ MutexInv'
    BY <2>1, LocalUnchanged DEF DefaultInv, GlobalTypes, MutexInv, globals
  <2>3. SoleInv'
    BY <2>1 DEF DefaultInv, SoleInv, SoleParts, OpenInv, CloseInv, BufferInv, PointerInv,
                Waits, InCallback, Opening, HasBuffer, globals
  <2>4. FailsOnlyWhenClosed'
    BY <2>1 DEF DefaultInv, FailsOnlyWhenClosed, InCallback, globals, local
  <2> QED
    BY <2>2, <2>3, <2>4 DEF DefaultInv
<1> QED
  BY <1>1, <1>2

LEMMA DefaultInvHolds == Spec => []DefaultInv
<1> QED
  BY DefaultInvInit, DefaultInvNext, PTL DEF Spec

\* Type correctness, with the ranges of the thread's counters.
THEOREM DefaultTypes == Spec => []TypeOK
<1>1. DefaultInv => TypeOK
  BY DEF DefaultInv, GlobalTypes, LocalInv, FramesInv, LocalTypes, TypeOK, Places
<1> QED
  BY <1>1, DefaultInvHolds, PTL

\* The order of guard and pointer in appender_open and appender_close, and
\* the early return of DelayRelease, confine failures to those that
\* FailsOnlyWhenClosed lists, for any number of threads that open, close and
\* log.
THEOREM FailuresConfined == Spec => []FailsOnlyWhenClosed
<1>1. DefaultInv => FailsOnlyWhenClosed
  BY DEF DefaultInv
<1> QED
  BY <1>1, DefaultInvHolds, PTL

\* However many threads call appender_open and appender_close, one appender
\* at most holds the mapping and the files, but for overlapping opens and the
\* time the exit handler is in Close.
THEOREM OneAppender == Spec => []OneOpen
<1>1. ASSUME DefaultInv, ~overlap, pc[Exit] \notin {"close", "wipe"},
             NEW a \in Apps, NEW b \in Apps, HasBuffer(a), HasBuffer(b)
      PROVE  a = b
  BY <1>1 DEF DefaultInv, SoleInv, SoleParts, OpenInv, BufferInv, HasBuffer, Opening
<1>2. DefaultInv => OneOpen
  BY <1>1 DEF OneOpen
<1> QED
  BY <1>2, DefaultInvHolds, PTL

\* A thread that stays within the recursion limit gives back each count it
\* raised and owes no report after its outermost call, however calls nest
\* and whatever becomes of the appender meanwhile.
THEOREM CountsBalance == Spec => []Balanced
<1>1. ASSUME DefaultInv, NEW w \in Writers, deepest[w] <= MaxRec
      PROVE  recursion_count[w] = Depth(w) /\ (frames[w] = <<>> => ~recursion_str[w])
  <2>1. recursion_count[w] = Depth(w) /\ (Depth(w) = 0 => ~recursion_str[w])
    BY <1>1 DEF DefaultInv, LocalInv, CountOf, Agree
  <2>2. frames[w] = <<>> => Depth(w) = 0
    BY <1>1, FrameTypes DEF DefaultInv, LocalInv
  <2> QED
    BY <2>1, <2>2
<1>2. DefaultInv => Balanced
  BY <1>1 DEF Balanced
<1> QED
  BY <1>2, DefaultInvHolds, PTL

\* The record of an outermost call is not given up for a report, whatever
\* was logged inside the call.
THEOREM OutermostStores == Spec => OutermostIsStored
<1> DEFINE Outermost ==
      \A w \in Writers :
        /\ Len(frames[w]) = 1 /\ frames'[w] = <<>>
        /\ InCallback(w) /\ HasBuffer(frames[w][1])
        /\ deepest[w] <= MaxRec
        => stored'[w] = stored[w] + 1
<1>1. ASSUME DefaultInv, Next, NEW w \in Writers, Len(frames[w]) = 1, frames'[w] = <<>>,
             InCallback(w), HasBuffer(frames[w][1]), deepest[w] <= MaxRec
      PROVE  stored'[w] = stored[w] + 1
  <2>1. /\ recursion_count[w] = 1 /\ frames[w] # <<>> /\ Last(frames[w]) = frames[w][1]
        /\ stored[w] \in 0 .. MaxCalls
    BY <1>1, FrameTypes DEF DefaultInv, LocalInv, CountOf, Agree, Last, LocalTypes
  <2>2. ASSUME NEW v \in Writers, LogStep(v) PROVE v = w /\ Finish(w)
    <3>1. v = w
      <4>1. v # w => frames'[w] = frames[w]
        BY <1>1, <2>2 DEF LogStep, Log, Follow, Refuse, Finish, DefaultInv, LocalInv, FramesInv
      <4> QED
        BY <1>1, <2>1, <4>1
    <3>2. ~Log(w)
      BY <1>1, LogStack DEF Log, Restacked, DefaultInv, LocalInv
    <3>3. ~Follow(w)
      BY <1>1, <2>1 DEF Follow, InCallback
    <3> QED
      BY <2>2, <3>1, <3>2, <3>3 DEF LogStep
  <2>3. ASSUME Finish(w) PROVE stored'[w] = stored[w] + 1
    <3>1. ~Nested(w)
      BY <2>1 DEF Nested
    <3>2. frames' # frames
      BY <1>1, <2>1
    <3>3. Store(w, Last(frames[w]))
      BY <2>3, <3>1, <3>2 DEF Finish, GiveUp, KeepReport
    <3> QED
      BY <1>1, <2>1, <3>3 DEF Store, DefaultInv, LocalInv, LocalTypes
  <2>4. CASE UNCHANGED frames
    BY <1>1, <2>1, <2>4
  <2> QED
    BY <1>1, <2>2, <2>3, <2>4, Cases
       DEF OwnerStep, OpenTest, OpenAgain, OpenNew, OpenPublish, OpenGuard, CloseTest,
           CloseRelease, CloserStep, GuardDown, CloseSet, CloseWipe, ExitTest, ExitDone, Release
<1>2. DefaultInv /\ [Next]_vars => [Outermost]_vars
  BY <1>1
<1>3. OutermostIsStored <=> [][Outermost]_vars
  BY DEF OutermostIsStored
<1> QED
  BY <1>2, <1>3, DefaultInvHolds, PTL DEF Spec

=============================================================================
