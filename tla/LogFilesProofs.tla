--------------------------- MODULE LogFilesProofs ---------------------------
(***************************************************************************)
(* Theorems about LogFiles for every length of the day, every number of    *)
(* blocks, failures and crashes: its types, NothingVanishes and            *)
(* OnlyCrashDuplicates.                                                    *)
(***************************************************************************)
EXTENDS LogFiles, FiniteSetTheorems, SequenceTheorems, NaturalsInduction, WellFoundedInduction, TLAPS

(* The files: what appending, removing, stdio's buffer and __OpenLogFile   *)
(* do to them.                                                             *)

LEMMA MaxOfBounded ==
  ASSUME NEW S, S \subseteq Nat, S # {}, NEW n \in Nat, \A y \in S : y <= n
  PROVE  Max(S) \in S /\ \A y \in S : y <= Max(S)
<1> DEFINE T == {m \in Nat : \A y \in S : y <= m}
<1>1. PICK m \in T : \A k \in T : ~ (<<k, m>> \in OpToRel(<, Nat))
  <2>1. T \subseteq Nat /\ T # {}
    OBVIOUS
  <2> HIDE DEF T
  <2> QED
    BY <2>1, WFMin, NatLessThanWellFounded
<1>2. \A k \in T : ~ (k < m)
  BY <1>1 DEF OpToRel
<1>3. m \in S
  <2> SUFFICES ASSUME m \notin S PROVE FALSE
    OBVIOUS
  <2>1. PICK y \in S : TRUE
    OBVIOUS
  <2>2. m - 1 \in Nat /\ \A z \in S : z <= m - 1
    BY <2>1
  <2> QED
    BY <2>2, <1>2
<1>4. \E x \in S : \A y \in S : x >= y
  BY <1>3
<1>5. Max(S) \in S /\ \A y \in S : Max(S) >= y
  BY <1>4 DEF Max
<1> QED
  BY <1>5

LEMMA DivMono ==
  ASSUME NEW a \in Nat, NEW b \in Nat, a <= b, NEW d \in Nat \ {0}
  PROVE  a \div d \in Nat /\ a \div d <= b \div d
OBVIOUS

LEMMA DayOfMono ==
  ASSUME NEW a \in Nat, NEW b \in Nat, a <= b
  PROVE  DayOf(a) \in Nat /\ DayOf(a) <= DayOf(b)
BY DivMono, LogFilesAssumption DEF DayOf

\* x has the fields of io.
IoShape(x) == x = [files |-> x.files, handle |-> x.handle, last |-> x.last, late |-> x.late]

\* y is x with recs put at the end of file p.
Appended(x, y, p, recs) ==
  /\ IoShape(y)
  /\ y.handle = x.handle /\ y.last = x.last /\ y.late = x.late
  /\ DOMAIN y.files = DOMAIN x.files \cup {p}
  /\ y.files[p] = [recs |-> Content(x, p) \o recs, mtime |-> now]
  /\ \A q \in DOMAIN x.files \ {p} : y.files[q] = x.files[q]

\* y is x without file p.
Removed(x, y, p) ==
  /\ IoShape(y)
  /\ y.last = x.last /\ y.late = x.late
  /\ y.handle = IF x.handle # None /\ x.handle.path = p
                THEN [x.handle EXCEPT !.linked = FALSE] ELSE x.handle
  /\ DOMAIN y.files = DOMAIN x.files \ {p}
  /\ \A q \in DOMAIN x.files \ {p} : y.files[q] = x.files[q]

LEMMA AppendToIs ==
  ASSUME NEW x, IoShape(x), NEW p, NEW recs
  PROVE  Appended(x, AppendTo(x, p, recs), p, recs)
<1> DEFINE F == [q \in DOMAIN x.files \cup {p} |->
                   IF q = p THEN [recs |-> Content(x, p) \o recs, mtime |-> now] ELSE x.files[q]]
<1>1. AppendTo(x, p, recs) = [x EXCEPT !.files = F]
  BY DEF AppendTo
<1>2. /\ DOMAIN F = DOMAIN x.files \cup {p}
      /\ F[p] = [recs |-> Content(x, p) \o recs, mtime |-> now]
      /\ \A q \in DOMAIN x.files \ {p} : F[q] = x.files[q]
  BY Zenon
<1> HIDE DEF F
<1>3. AppendTo(x, p, recs) = [files |-> F, handle |-> x.handle, last |-> x.last, late |-> x.late]
  BY <1>1 DEF IoShape
<1> QED
  BY <1>2, <1>3 DEF IoShape, Appended

LEMMA RemoveFileIs ==
  ASSUME NEW x, IoShape(x), NEW p
  PROVE  Removed(x, RemoveFile(x, p), p)
<1> DEFINE H == IF x.handle # None /\ x.handle.path = p
                THEN [x.handle EXCEPT !.linked = FALSE] ELSE x.handle
           F == Restrict(x.files, DOMAIN x.files \ {p})
<1>1. F = [q \in DOMAIN x.files \ {p} |-> x.files[q]]
  BY DEF Restrict
<1>2. RemoveFile(x, p) = [x EXCEPT !.files = F, !.handle = H]
  BY DEF RemoveFile
<1> HIDE DEF H, F
<1>3. RemoveFile(x, p) = [files |-> F, handle |-> H, last |-> x.last, late |-> x.late]
  BY <1>2 DEF IoShape
<1> QED
  BY <1>1, <1>3 DEF IoShape, H, Removed

\* y is x after stdio has handed on its buffer h.buf, if there is one.
Drained(x, y) ==
  /\ IoShape(y) /\ y.last = x.last
  /\ \/ /\ x.handle = None \/ x.handle.buf = <<>>
        /\ y = x
     \/ /\ x.handle # None /\ x.handle.buf # <<>>
        /\ y.handle = [x.handle EXCEPT !.buf = <<>>]
        /\ \/ /\ x.handle.linked
              /\ y.files = AppendTo(x, x.handle.path, x.handle.buf).files
              /\ y.late = x.late
           \/ /\ ~x.handle.linked
              /\ y.files = x.files
              /\ y.late = x.late \cup Range(x.handle.buf)

LEMMA DrainIs ==
  ASSUME NEW x, IoShape(x)
  PROVE  Drained(x, Drain(x))
<1> DEFINE A == AppendTo(x, x.handle.path, x.handle.buf)
           N == x.late \cup Range(x.handle.buf)
           L == [x EXCEPT !.late = N]
           H == [x.handle EXCEPT !.buf = <<>>]
<1>1. CASE x.handle = None \/ x.handle.buf = <<>>
  BY <1>1 DEF Drain, Drained
<1>2. CASE x.handle # None /\ x.handle.buf # <<>> /\ x.handle.linked
  <2>1. Appended(x, A, x.handle.path, x.handle.buf)
    BY AppendToIs
  <2>2. Drain(x) = [A EXCEPT !.handle.buf = <<>>]
    BY <1>2 DEF Drain
  <2>3. IoShape(A) /\ A.handle = x.handle /\ A.last = x.last /\ A.late = x.late
    BY <2>1 DEF Appended
  <2> HIDE DEF A
  <2>4. Drain(x) = [A EXCEPT !.handle = H]
    BY <2>2, <2>3
  <2> HIDE DEF H
  <2>5. Drain(x) = [files |-> A.files, handle |-> H, last |-> x.last, late |-> x.late]
    BY <2>3, <2>4 DEF IoShape
  <2> QED
    BY <1>2, <2>5 DEF IoShape, A, H, Drained
<1>3. CASE x.handle # None /\ x.handle.buf # <<>> /\ ~x.handle.linked
  <2>2. Drain(x) = [L EXCEPT !.handle.buf = <<>>]
    BY <1>3 DEF Drain
  <2> HIDE DEF N
  <2>3. IoShape(L) /\ L.handle = x.handle /\ L.last = x.last /\ L.files = x.files /\ L.late = N
    BY DEF IoShape
  <2> HIDE DEF L
  <2>4. Drain(x) = [L EXCEPT !.handle = H]
    BY <2>3, <2>2
  <2> HIDE DEF H
  <2>5. Drain(x) = [files |-> x.files, handle |-> H, last |-> x.last, late |-> N]
    BY <2>3, <2>4 DEF IoShape
  <2> QED
    BY <1>3, <2>5 DEF IoShape, H, N, Drained
<1> QED
  BY <1>1, <1>2, <1>3

\* y is x after fclose.
Closed(x, y) ==
  /\ IoShape(y) /\ y.handle = None /\ y.last = x.last
  /\ y.late = Drain(x).late /\ y.files = Drain(x).files

LEMMA CloseLogFileIs ==
  ASSUME NEW x, IoShape(x)
  PROVE  Closed(x, CloseLogFile(x))
<1>1. IoShape(Drain(x)) /\ Drain(x).last = x.last
  BY DrainIs DEF Drained
<1> QED
  BY <1>1 DEF CloseLogFile, IoShape, Closed

\* What is known of the files, for blocks 1 .. n.
FileTypes(x, n) ==
  /\ IoShape(x)
  /\ DOMAIN x.files \subseteq Paths
  /\ \A p \in DOMAIN x.files : x.files[p] \in [recs : Seq(1..n), mtime : Times]
  /\ x.handle = None \/ x.handle \in [path : Paths, linked : BOOLEAN, opened : Times, buf : Seq(1..n)]
  /\ x.late \subseteq 1..n
  /\ x.last \in [time : Times, path : Paths \cup {None}]
  /\ x.last.path \in Paths \/ x.last.time = 0
  /\ \E m \in Nat : \A p \in DOMAIN x.files : p.idx <= m

LEMMA ContentType ==
  ASSUME NEW n, NEW x, FileTypes(x, n), NEW p
  PROVE  Content(x, p) \in Seq(1..n)
<1>1. CASE p \in DOMAIN x.files
  <2>1. x.files[p] \in [recs : Seq(1..n), mtime : Times]
    BY <1>1 DEF FileTypes
  <2> QED
    BY <1>1, <2>1 DEF Content, Exists
<1>2. CASE p \notin DOMAIN x.files
  BY <1>2 DEF Content, Exists
<1> QED
  BY <1>1, <1>2

LEMMA AppendToTypes ==
  ASSUME NEW n \in Nat, NEW x, FileTypes(x, n), NEW p \in Paths, NEW recs \in Seq(1..n), now \in Times
  PROVE  FileTypes(AppendTo(x, p, recs), n)
<1> DEFINE y == AppendTo(x, p, recs)
<1>0. IoShape(x)
  BY DEF FileTypes
<1>1. Appended(x, y, p, recs)
  BY <1>0, AppendToIs
<1> HIDE DEF y
<1>2. Content(x, p) \o recs \in Seq(1..n)
  BY ContentType
<1>3. y.files[p] \in [recs : Seq(1..n), mtime : Times]
  BY <1>1, <1>2 DEF Appended
<1>4. \E m \in Nat : \A q \in DOMAIN y.files : q.idx <= m
  <2>1. PICK m \in Nat : \A q \in DOMAIN x.files : q.idx <= m
    BY DEF FileTypes
  <2>2. p.idx \in Nat /\ \A q \in DOMAIN x.files : q.idx \in Nat
    BY DEF FileTypes, Paths
  <2>3. m + p.idx \in Nat /\ \A q \in DOMAIN y.files : q.idx <= m + p.idx
    BY <1>1, <2>1, <2>2 DEF Appended
  <2> QED
    BY <2>3
<1>5. \A q \in DOMAIN y.files : y.files[q] \in [recs : Seq(1..n), mtime : Times]
  BY <1>1, <1>3 DEF FileTypes, Appended
<1> QED
  BY <1>1, <1>4, <1>5 DEF FileTypes, Appended, y

\* h is an open handle, for blocks 1 .. n.
HandleType(h, n) ==
  h.path \in Paths /\ h.linked \in BOOLEAN /\ h.opened \in Times /\ h.buf \in Seq(1..n)

LEMMA HandleKeeps ==
  ASSUME NEW n, NEW h \in [path : Paths, linked : BOOLEAN, opened : Times, buf : Seq(1..n)]
  PROVE  /\ [h EXCEPT !.linked = FALSE] \in [path : Paths, linked : BOOLEAN, opened : Times, buf : Seq(1..n)]
         /\ [h EXCEPT !.buf = <<>>] \in [path : Paths, linked : BOOLEAN, opened : Times, buf : Seq(1..n)]
         /\ HandleType(h, n)
<1>1. <<>> \in Seq(1..n)
  OBVIOUS
<1> QED
  BY <1>1 DEF HandleType

LEMMA RemoveFileTypes ==
  ASSUME NEW n \in Nat, NEW x, FileTypes(x, n), NEW p
  PROVE  FileTypes(RemoveFile(x, p), n)
<1> DEFINE y == RemoveFile(x, p)
<1>0. IoShape(x)
  BY DEF FileTypes
<1>1. Removed(x, y, p)
  BY <1>0, RemoveFileIs
<1> HIDE DEF y
<1>2. y.handle = None \/ y.handle \in [path : Paths, linked : BOOLEAN, opened : Times, buf : Seq(1..n)]
  <2>1. x.handle = None \/ x.handle \in [path : Paths, linked : BOOLEAN, opened : Times, buf : Seq(1..n)]
    BY DEF FileTypes
  <2>2. y.handle = x.handle \/ (x.handle # None /\ y.handle = [x.handle EXCEPT !.linked = FALSE])
    BY <1>1 DEF Removed
  <2> QED
    BY <2>1, <2>2, HandleKeeps
<1>3. /\ IoShape(y) /\ y.last = x.last /\ y.late = x.late
      /\ DOMAIN y.files \subseteq DOMAIN x.files
      /\ \A q \in DOMAIN y.files : y.files[q] = x.files[q]
  BY <1>1 DEF Removed
<1>4. FileTypes(y, n)
  BY <1>2, <1>3 DEF FileTypes
<1> QED
  BY <1>4 DEF y

LEMMA RangeType ==
  ASSUME NEW S, NEW s \in Seq(S)
  PROVE  Range(s) \subseteq S
<1>1. \A i \in DOMAIN s : s[i] \in S
  OBVIOUS
<1> QED
  BY <1>1, Zenon DEF Range

LEMMA DrainTypes ==
  ASSUME NEW n \in Nat, NEW x, FileTypes(x, n), now \in Times
  PROVE  FileTypes(Drain(x), n)
<1> DEFINE y == Drain(x)
           h == x.handle
<1>0. IoShape(x)
  BY DEF FileTypes
<1>1. CASE h = None \/ h.buf = <<>>
  BY <1>1 DEF Drain
<1>2. CASE ~(h = None \/ h.buf = <<>>)
  <2>0. Drained(x, y)
    BY <1>0, DrainIs
  <2>1. /\ IoShape(y) /\ y.last = x.last
        /\ y.handle = [h EXCEPT !.buf = <<>>]
        /\ \/ y.files = AppendTo(x, h.path, h.buf).files /\ y.late = x.late
           \/ y.files = x.files /\ y.late = x.late \cup Range(h.buf)
    BY <1>2, <2>0 DEF Drained
  <2>2. h \in [path : Paths, linked : BOOLEAN, opened : Times, buf : Seq(1..n)]
    BY <1>2 DEF FileTypes
  <2> HIDE DEF y, h
  <2>3. h.path \in Paths /\ h.buf \in Seq(1..n) /\ Range(h.buf) \subseteq 1..n
    BY <2>2, RangeType, HandleKeeps DEF HandleType
  <2>4. FileTypes(AppendTo(x, h.path, h.buf), n)
    BY <2>3, AppendToTypes
  <2>5. y.handle \in [path : Paths, linked : BOOLEAN, opened : Times, buf : Seq(1..n)]
    BY <2>1, <2>2, HandleKeeps
  <2>6. y.late \subseteq 1..n
    BY <2>1, <2>3 DEF FileTypes
  <2> QED
    BY <2>1, <2>4, <2>5, <2>6 DEF FileTypes, y, h
<1> QED
  BY <1>1, <1>2

LEMMA CloseLogFileTypes ==
  ASSUME NEW n \in Nat, NEW x, FileTypes(x, n), now \in Times
  PROVE  FileTypes(CloseLogFile(x), n) /\ CloseLogFile(x).handle = None
<1>0. IoShape(x)
  BY DEF FileTypes
<1>1. FileTypes(Drain(x), n)
  BY DrainTypes
<1>2. Closed(x, CloseLogFile(x))
  BY <1>0, CloseLogFileIs
<1>3. x.last \in [time : Times, path : Paths \cup {None}] /\ (x.last.path \in Paths \/ x.last.time = 0)
  BY DEF FileTypes
<1> QED
  BY <1>1, <1>2, <1>3 DEF FileTypes, Closed

LEMMA NextFileIndexNat ==
  ASSUME NEW n, NEW x, FileTypes(x, n), NEW day
  PROVE  NextFileIndex(x, day) \in Nat
<1> DEFINE idxs == {p.idx : p \in {q \in DOMAIN x.files : q.day = day}}
<1>1. idxs \subseteq Nat
  BY DEF FileTypes, Paths
<1>2. PICK m \in Nat : \A q \in DOMAIN x.files : q.idx <= m
  BY DEF FileTypes
<1>3. \A i \in idxs : i <= m
  BY <1>2
<1>4. ASSUME idxs # {} PROVE Max(idxs) \in Nat
  <2> HIDE DEF idxs
  <2> QED
    BY <1>1, <1>3, <1>4, MaxOfBounded
<1>5. \/ NextFileIndex(x, day) = 0
      \/ idxs # {} /\ NextFileIndex(x, day) \in {Max(idxs), Max(idxs) + 1}
  BY DEF NextFileIndex
<1> HIDE DEF idxs
<1> QED
  BY <1>4, <1>5

LEMMA LogFileNameType ==
  ASSUME NEW n, NEW x, FileTypes(x, n), NEW day \in 0..DayOf(MaxTime), NEW dir \in {"cache", "log"}
  PROVE  LogFileName(x, day, dir) \in Paths
BY NextFileIndexNat DEF LogFileName, Path, Paths

LEMMA NowDay ==
  ASSUME now \in Times
  PROVE  DayOf(now) \in 0..DayOf(MaxTime)
<1>1. now \in Nat /\ MaxTime \in Nat /\ now <= MaxTime
  BY LogFilesAssumption DEF Times
<1>2. DayOf(now) \in Nat /\ DayOf(MaxTime) \in Nat /\ DayOf(now) <= DayOf(MaxTime)
  BY <1>1, DayOfMono
<1> QED
  BY <1>2

LEMMA TouchIs ==
  ASSUME NEW x, IoShape(x), NEW p
  PROVE  /\ IoShape(Touch(x, p)) /\ Touch(x, p).handle = x.handle
         /\ Touch(x, p).last = x.last /\ Touch(x, p).late = x.late
<1>1. Appended(x, AppendTo(x, p, <<>>), p, <<>>)
  BY AppendToIs
<1> QED
  BY <1>1 DEF Touch, Appended

LEMMA TouchTypes ==
  ASSUME NEW n \in Nat, NEW x, FileTypes(x, n), NEW p \in Paths, now \in Times
  PROVE  FileTypes(Touch(x, p), n)
<1>1. <<>> \in Seq(1..n)
  OBVIOUS
<1> QED
  BY <1>1, AppendToTypes DEF Touch

\* The handle that __OpenLogFile leaves when it opens p.
\* __OpenLogFile: the handle it opens, whether the handle it has is of today, the
\* file it would open and what it remembers of that.
Opened(p) == [path |-> p, linked |-> TRUE, opened |-> now, buf |-> <<>>]
SameDay(x) == x.handle # None /\ DayOf(x.handle.opened) = DayOf(now)

\* Where __OpenLogFile goes, and what it leaves in last.
OpenPath(dir) == IF now < io.last.time THEN io.last.path
                 ELSE LogFileName(CloseLogFile(io), DayOf(now), dir)
OpenLast(dir) == IF now < io.last.time THEN io.last
                 ELSE [time |-> now, path |-> OpenPath(dir)]

\* y is io after __OpenLogFile.
OpenedLog(y, dir, ok) ==
  \/ SameDay(io) /\ y = io
  \/ /\ ~SameDay(io)
     /\ IoShape(y)
     /\ y.last = OpenLast(dir)
     /\ y.late = CloseLogFile(io).late
     /\ \/ ok /\ y.files = Touch(CloseLogFile(io), OpenPath(dir)).files /\ y.handle = Opened(OpenPath(dir))
        \/ ~ok /\ y.files = CloseLogFile(io).files /\ y.handle = None

LEMMA OpenLogFileIs ==
  ASSUME IoShape(io), NEW dir, NEW ok \in BOOLEAN
  PROVE  OpenedLog(OpenLogFile(dir, ok), dir, ok)
<1> DEFINE C == CloseLogFile(io)
           P == OpenPath(dir)
           T == Touch(C, P)
           H == Opened(P)
           O == IF ok THEN [T EXCEPT !.handle = H] ELSE C
           L == [time |-> now, path |-> P]
           y == OpenLogFile(dir, ok)
<1>1. Closed(io, C)
  BY CloseLogFileIs
<1>2. IoShape(T) /\ T.last = C.last /\ T.late = C.late
  BY <1>1, TouchIs DEF Closed
<1>3. CASE SameDay(io)
  BY <1>3 DEF OpenLogFile, SameDay, OpenedLog
<1>4. CASE ~SameDay(io)
  <2>1. y = IF now < io.last.time THEN O ELSE [O EXCEPT !.last = L]
    BY <1>4 DEF OpenLogFile, SameDay, Opened, OpenPath
  <2> HIDE DEF C, P, T, H, L, y
  <2>2. /\ IoShape(O) /\ O.last = io.last /\ O.late = C.late
        /\ O.files = IF ok THEN T.files ELSE C.files
        /\ O.handle = IF ok THEN H ELSE None
    BY <1>1, <1>2 DEF IoShape, Closed
  <2> HIDE DEF O
  <2>3. /\ IoShape(y) /\ y.files = O.files /\ y.handle = O.handle /\ y.late = O.late
        /\ y.last = IF now < io.last.time THEN io.last ELSE L
    BY <2>1, <2>2 DEF IoShape
  <2>4. y.last = OpenLast(dir)
    BY <2>3 DEF OpenLast, L, P
  <2> QED
    BY <1>4, <2>2, <2>3, <2>4 DEF OpenedLog, C, P, T, H, y
<1> QED
  BY <1>3, <1>4

LEMMA OpenPathType ==
  ASSUME NEW n \in Nat, FileTypes(io, n), now \in Times, NEW dir \in {"cache", "log"}
  PROVE  OpenPath(dir) \in Paths
<1>1. CASE now < io.last.time
  <2>1. io.last.time # 0
    BY <1>1, LogFilesAssumption DEF Times, FileTypes
  <2> QED
    BY <1>1, <2>1 DEF FileTypes, OpenPath
<1>2. CASE ~(now < io.last.time)
  BY <1>2, CloseLogFileTypes, LogFileNameType, NowDay DEF OpenPath
<1> QED
  BY <1>1, <1>2

LEMMA OpenLogFileTypes ==
  ASSUME NEW n \in Nat, FileTypes(io, n), now \in Times, NEW dir \in {"cache", "log"}, NEW ok \in BOOLEAN
  PROVE  FileTypes(OpenLogFile(dir, ok), n)
<1> DEFINE y == OpenLogFile(dir, ok)
           C == CloseLogFile(io)
           P == OpenPath(dir)
<1>0. IoShape(io)
  BY DEF FileTypes
<1>1. OpenedLog(y, dir, ok)
  BY <1>0, OpenLogFileIs
<1>2. FileTypes(C, n) /\ FileTypes(Touch(C, P), n) /\ P \in Paths
  BY CloseLogFileTypes, OpenPathType, TouchTypes
<1>3. OpenLast(dir) \in [time : Times, path : Paths \cup {None}]
      /\ (OpenLast(dir).path \in Paths \/ OpenLast(dir).time = 0)
  <2>1. CASE now < io.last.time
    BY <2>1 DEF FileTypes, OpenLast
  <2>2. CASE ~(now < io.last.time)
    <3> DEFINE L == OpenLast(dir)
    <3>1. L = [time |-> now, path |-> P]
      BY <2>2 DEF OpenLast
    <3>2. L.path \in Paths
      BY <3>1, <1>2
    <3> QED
      BY <3>1, <3>2, <1>2
  <2> QED
    BY <2>1, <2>2
<1>4. Opened(P) \in [path : Paths, linked : BOOLEAN, opened : Times, buf : Seq(1..n)]
  BY <1>2 DEF Opened
<1> HIDE DEF y, C, P
<1> QED
  BY <1>1, <1>2, <1>3, <1>4 DEF FileTypes, y, OpenedLog, C, P

-----------------------------------------------------------------------------
(* Type correctness.                                                       *)

\* What the threads in progress carry. Only cache files are moved.
CachePaths == [dir : {"cache"}, day : 0..DayOf(MaxTime), idx : Nat]

JobTypes ==
  \/ job = Idle
  \/ job \in [at : {"cache", "append", "remove", "log", "fallback"}, rec : 1..Len(written),
              move : BOOLEAN, day : 0..DayOf(MaxTime), cache : CachePaths, cacheLogs : BOOLEAN]

MoverTypes ==
  \/ mover = Idle
  \/ mover \in [at : {"scan"}, todo : SUBSET CachePaths, start : Times]
  \/ mover \in [at : {"remove"}, todo : SUBSET CachePaths, start : Times, path : CachePaths]

PrunerTypes ==
  \/ pruner = Idle
  \/ pruner \in [at : {"scan"}, dir : {"cache", "log"}, todo : SUBSET Paths, start : Times]
  \/ pruner \in [at : {"remove"}, dir : {"cache", "log"}, todo : SUBSET Paths, start : Times,
                 path : Paths]

\* The two mutexes.
Apart == (job = Idle \/ mover = Idle) /\ (mover = Idle \/ pruner = Idle)

\* The inductive invariant: TypeOK for the numbers of blocks there are so far, and the
\* types of what the threads carry at each of their steps.
TypesInv ==
  /\ now \in Times /\ up \in BOOLEAN /\ mode \in Modes /\ cache_days_ \in CacheDays
  /\ written \in Seq(Times) /\ Len(written) <= MaxWrites
  /\ FileTypes(io, Len(written))
  /\ JobTypes /\ MoverTypes /\ PrunerTypes /\ Apart
  /\ armed \subseteq {"move", "cache", "log"}
  /\ pruned \subseteq 1..Len(written)
  /\ failed \subseteq 1..Len(written)
  /\ crashed \subseteq 1..Len(written)
  /\ torn \in BOOLEAN
  /\ back \in 0..MaxBack /\ faults \in 0..MaxFaults /\ starts \in 0..MaxStarts

\* stdio takes a block.
Buffered(x, rec) == [x EXCEPT !.handle.buf = Append(@, rec)]
TakesBlock(x, y, rec) ==
  /\ IoShape(y) /\ y.files = x.files /\ y.last = x.last /\ y.late = x.late
  /\ y.handle = [x.handle EXCEPT !.buf = Append(x.handle.buf, rec)]

LEMMA BufferedIs ==
  ASSUME NEW x, IoShape(x), NEW rec
  PROVE  TakesBlock(x, Buffered(x, rec), rec)
<1> DEFINE H == [x.handle EXCEPT !.buf = Append(x.handle.buf, rec)]
<1>1. Buffered(x, rec) = [x EXCEPT !.handle = H]
  BY DEF Buffered
<1> HIDE DEF H
<1>2. Buffered(x, rec) = [files |-> x.files, handle |-> H, last |-> x.last, late |-> x.late]
  BY <1>1 DEF IoShape
<1> QED
  BY <1>2 DEF TakesBlock, IoShape, H

LEMMA BufferedTypes ==
  ASSUME NEW n \in Nat, NEW x, FileTypes(x, n), x.handle # None, NEW rec \in 1..n
  PROVE  FileTypes(Buffered(x, rec), n)
<1> DEFINE y == Buffered(x, rec)
           h == x.handle
<1>0. IoShape(x)
  BY DEF FileTypes
<1>1. TakesBlock(x, y, rec)
  BY <1>0, BufferedIs
<1>2. h \in [path : Paths, linked : BOOLEAN, opened : Times, buf : Seq(1..n)]
  BY DEF FileTypes
<1> HIDE DEF y, h
<1>3. Append(h.buf, rec) \in Seq(1..n)
  BY <1>2, HandleKeeps DEF HandleType
<1>4. [h EXCEPT !.buf = Append(h.buf, rec)] \in [path : Paths, linked : BOOLEAN, opened : Times, buf : Seq(1..n)]
  BY <1>2, <1>3
<1> QED
  BY <1>1, <1>4 DEF TakesBlock, FileTypes, y, h

\* The state __WriteFile works on, and what it leaves to be closed.
Spilled(x, spills) == IF spills THEN Drain(x) ELSE x
Took(x, rec, ok, spills) == IF ok THEN Buffered(Spilled(x, spills), rec) ELSE Spilled(x, spills)

LEMMA WriteFileIs ==
  ASSUME NEW x, NEW rec, NEW ok, NEW spills
  PROVE  WriteFile(x, rec, ok, spills)
           = IF mode = "async" THEN CloseLogFile(Took(x, rec, ok, spills))
             ELSE Took(x, rec, ok, spills)
BY DEF WriteFile, Took, Spilled, Buffered

LEMMA SpilledKeepsHandle ==
  ASSUME NEW n \in Nat, NEW x, FileTypes(x, n), x.handle # None, now \in Times, NEW spills
  PROVE  \/ Spilled(x, spills).handle = x.handle
         \/ Spilled(x, spills).handle = [x.handle EXCEPT !.buf = <<>>]
<1>1. IoShape(x)
  BY DEF FileTypes
<1>2. Drained(x, Drain(x))
  BY <1>1, DrainIs
<1> QED
  BY <1>2 DEF Spilled, Drained

LEMMA HandleIsOpen ==
  ASSUME NEW n \in Nat, NEW h \in [path : Paths, linked : BOOLEAN, opened : Times, buf : Seq(1..n)]
  PROVE  h # None
<1> DEFINE Q == [dir : {"cache", "log"}, day : Nat, idx : Nat]
<1>1. Paths \subseteq Q
  <2>1. DayOf(MaxTime) \in Nat
    BY DayOfMono, LogFilesAssumption
  <2> QED
    BY <2>1 DEF Paths
<1>2. Times \subseteq Nat
  BY LogFilesAssumption DEF Times
<1>3. Seq(1..n) \subseteq Seq(Nat)
  OBVIOUS
<1> HIDE DEF Q
<1>4. h \in [path : Q, linked : BOOLEAN, opened : Nat, buf : Seq(Nat)]
  BY <1>1, <1>2, <1>3
<1> QED
  BY <1>4, LogFilesAssumption DEF Q

LEMMA WriteFileTypes ==
  ASSUME NEW n \in Nat, NEW x, FileTypes(x, n), x.handle # None, NEW rec \in 1..n,
         now \in Times, NEW ok, NEW spills
  PROVE  FileTypes(WriteFile(x, rec, ok, spills), n)
<1> DEFINE s == Spilled(x, spills)
<1>1. x.handle \in [path : Paths, linked : BOOLEAN, opened : Times, buf : Seq(1..n)]
  BY DEF FileTypes
<1>2. FileTypes(s, n)
  BY DrainTypes DEF Spilled
<1>3. s.handle \in [path : Paths, linked : BOOLEAN, opened : Times, buf : Seq(1..n)]
  <2>1. s.handle = x.handle \/ s.handle = [x.handle EXCEPT !.buf = <<>>]
    BY SpilledKeepsHandle, Zenon
  <2>2. [x.handle EXCEPT !.buf = <<>>] \in [path : Paths, linked : BOOLEAN, opened : Times, buf : Seq(1..n)]
    BY <1>1, HandleKeeps
  <2> QED
    BY <1>1, <2>1, <2>2
<1>4. s.handle # None
  BY <1>3, HandleIsOpen
<1> HIDE DEF s
<1>5. FileTypes(Took(x, rec, ok, spills), n)
  BY <1>2, <1>4, BufferedTypes DEF Took, s
<1> QED
  BY <1>5, WriteFileIs, CloseLogFileTypes

LEMMA FileTypesGrow ==
  ASSUME NEW x, NEW m \in Nat, NEW n \in Nat, m <= n, FileTypes(x, m)
  PROVE  FileTypes(x, n)
<1>1. 1..m \subseteq 1..n
  OBVIOUS
<1>2. Seq(1..m) \subseteq Seq(1..n)
  BY <1>1
<1>3. \A f \in [recs : Seq(1..m), mtime : Times] : f \in [recs : Seq(1..n), mtime : Times]
  BY <1>2
<1>4. \A h \in [path : Paths, linked : BOOLEAN, opened : Times, buf : Seq(1..m)] :
        h \in [path : Paths, linked : BOOLEAN, opened : Times, buf : Seq(1..n)]
  BY <1>2
<1> QED
  BY <1>1, <1>3, <1>4 DEF FileTypes

LEMMA FailedCount ==
  ASSUME NEW a
  PROVE  Failed(<<a>>) \in Nat
<1>1. DOMAIN <<a>> = {1}
  OBVIOUS
<1>2. IsFiniteSet({1})
  BY FS_Singleton
<1>3. IsFiniteSet({i \in DOMAIN <<a>> : ~<<a>>[i]})
  BY <1>1, <1>2, FS_Subset
<1> QED
  BY <1>3, FS_CardinalityType DEF Failed

LEMMA FaultsType ==
  ASSUME TypesInv, NEW a, CountFaults(<<a>>)
  PROVE  faults' \in 0..MaxFaults /\ back' = back /\ starts' = starts
<1>1. Failed(<<a>>) \in Nat /\ MaxFaults \in Nat
  BY FailedCount, LogFilesAssumption
<1> QED
  BY <1>1 DEF CountFaults, TypesInv

\* A step that touches neither the clock, the blocks given nor the ghosts.
LEMMA TypesFrame ==
  ASSUME TypesInv, UNCHANGED <<now, config, written, crashed, torn>>,
         FileTypes(io, Len(written))',
         JobTypes', MoverTypes', PrunerTypes', Apart',
         armed' \subseteq armed,
         pruned' \subseteq 1..Len(written), failed' \subseteq 1..Len(written),
         faults' \in 0..MaxFaults, back' = back, starts' = starts
  PROVE  TypesInv'
BY DEF TypesInv, config

LEMMA WrittenLength ==
  TypesInv => Len(written) \in Nat /\ IoShape(io)
BY DEF TypesInv, FileTypes

\* What is written down of a job does not change as it goes on.
JobGoesOn == job' = Idle \/ \E a \in {"log", "append", "remove", "fallback"} : job' = [job EXCEPT !.at = a]

LEMMA JobGoesOnTypes ==
  ASSUME TypesInv, job # Idle, JobGoesOn, written' = written
  PROVE  JobTypes' /\ mover = Idle
<1>1. job \in [at : {"cache", "append", "remove", "log", "fallback"}, rec : 1..Len(written),
               move : BOOLEAN, day : 0..DayOf(MaxTime), cache : CachePaths, cacheLogs : BOOLEAN]
  BY DEF TypesInv, JobTypes
<1> QED
  BY <1>1 DEF JobGoesOn, JobTypes, TypesInv, Apart

LEMMA JobAt ==
  ASSUME TypesInv, job.at # "idle"
  PROVE  /\ job # Idle /\ mover = Idle
         /\ job \in [at : {"cache", "append", "remove", "log", "fallback"}, rec : 1..Len(written),
                     move : BOOLEAN, day : 0..DayOf(MaxTime), cache : CachePaths, cacheLogs : BOOLEAN]
BY DEF TypesInv, JobTypes, Apart, Idle

\* A step of the __Log2File in progress.
LEMMA JobStepTypes ==
  ASSUME TypesInv, job.at # "idle", JobGoesOn, JobRests,
         FileTypes(io', Len(written)), failed' \subseteq failed \cup {job.rec},
         faults' \in 0..MaxFaults, back' = back, starts' = starts
  PROVE  TypesInv'
<1>1. mover = Idle /\ job # Idle /\ job.rec \in 1..Len(written)
  BY JobAt
<1>2. JobTypes'
  BY <1>1, JobGoesOnTypes DEF JobRests
<1>3. MoverTypes' /\ PrunerTypes' /\ Apart'
  BY <1>1 DEF JobRests, MoverTypes, PrunerTypes, TypesInv, Apart
<1>4. failed' \subseteq 1..Len(written)
  BY <1>1 DEF TypesInv
<1>5. pruned' \subseteq 1..Len(written)
  BY DEF TypesInv, JobRests
<1> QED
  BY <1>2, <1>3, <1>4, <1>5, TypesFrame DEF JobRests

LEMMA Log2FileTypes ==
  ASSUME TypesInv, Log2File
  PROVE  TypesInv'
<1> DEFINE n == Len(written)
           cache == LogFileName(io, DayOf(now), "cache")
<1>1. n \in Nat /\ IoShape(io) /\ n < MaxWrites /\ MaxWrites \in Nat
  BY WrittenLength, LogFilesAssumption DEF Log2File
<1>2. written' \in Seq(Times) /\ Len(written') = n + 1
  BY DEF TypesInv, Log2File
<1>3. cache \in CachePaths
  <2>1. DayOf(now) \in 0..DayOf(MaxTime) /\ NextFileIndex(io, DayOf(now)) \in Nat
    BY NowDay, NextFileIndexNat DEF TypesInv
  <2> QED
    BY <2>1 DEF LogFileName, Path, CachePaths
<1>4. DayOf(now) \in 0..DayOf(MaxTime)
  BY NowDay DEF TypesInv
<1>5. n + 1 \in 1..Len(written')
  BY <1>1, <1>2
<1>6. JobTypes'
  <2>1. PICK roomy \in Roomy, move \in {FALSE, mode = "async"} :
          job' = [at |-> IF CacheLogs(roomy) \/ Exists(io, cache) THEN "cache" ELSE "log",
                  rec |-> n + 1, move |-> move, day |-> DayOf(now),
                  cache |-> cache, cacheLogs |-> CacheLogs(roomy)]
    BY DEF Log2File
  <2>2. move \in BOOLEAN
    OBVIOUS
  <2>3. CacheLogs(roomy) \in BOOLEAN
    BY DEF CacheLogs
  <2> DEFINE at == IF CacheLogs(roomy) \/ Exists(io, cache) THEN "cache" ELSE "log"
  <2>4. at \in {"cache", "log"}
    OBVIOUS
  <2> HIDE DEF n, cache, at
  <2>5. job' = [at |-> at, rec |-> n + 1, move |-> move, day |-> DayOf(now),
                cache |-> cache, cacheLogs |-> CacheLogs(roomy)]
    BY <2>1 DEF at
  <2> QED
    BY <2>2, <2>3, <2>4, <2>5, <1>3, <1>4, <1>5 DEF JobTypes
<1>7. FileTypes(io', Len(written'))
  <2>1. FileTypes(io, n) /\ io' = io /\ n <= n + 1 /\ n + 1 \in Nat
    BY <1>1 DEF TypesInv, Log2File
  <2> HIDE DEF n
  <2> QED
    BY <2>1, <1>1, <1>2, FileTypesGrow
<1>8. 1..n \subseteq 1..Len(written')
  BY <1>1, <1>2
<1>9. MoverTypes' /\ PrunerTypes' /\ Apart'
  BY DEF Log2File, TypesInv, MoverTypes, PrunerTypes, Apart
<1> HIDE DEF n, cache
<1>10. pruned' \subseteq 1..Len(written') /\ failed' \subseteq 1..Len(written') /\ crashed' \subseteq 1..Len(written')
  BY <1>8 DEF TypesInv, Log2File, n
<1>11. Len(written') <= MaxWrites
  BY <1>1, <1>2
<1> QED
  BY <1>2, <1>6, <1>7, <1>9, <1>10, <1>11 DEF TypesInv, Log2File, config, counts

LEMMA MayFailBoolean ==
  ASSUME NEW k, NEW ok \in MayFail(k) PROVE ok \in BOOLEAN
BY DEF MayFail

LEMMA WriteCacheTypes ==
  ASSUME TypesInv, WriteCache
  PROVE  TypesInv'
<1> DEFINE n == Len(written)
<1>1. PICK openOk \in MayFail("open"), writeOk \in MayFail("write"), spills \in {FALSE, mode = "sync"} :
        LET x == OpenLogFile("cache", openOk) IN
        \/ /\ x.handle = None
           /\ io' = x /\ job' = [job EXCEPT !.at = "log"]
           /\ CountFaults(<<openOk>>) /\ failed' = failed
        \/ /\ x.handle # None
           /\ io' = WriteFile(x, job.rec, writeOk, spills)
           /\ job' = IF job.cacheLogs \/ ~job.move THEN Idle ELSE [job EXCEPT !.at = "append"]
           /\ failed' = IF writeOk THEN failed ELSE failed \cup {job.rec}
           /\ CountFaults(<<writeOk>>)
  BY DEF WriteCache
<1> DEFINE x == OpenLogFile("cache", openOk)
<1>2. job.at # "idle" /\ JobRests /\ n \in Nat /\ FileTypes(io, n) /\ now \in Times
  BY WrittenLength DEF WriteCache, TypesInv
<1>3. job.rec \in 1..n
  BY <1>2, JobAt
<1>4. FileTypes(x, n)
  BY <1>2, MayFailBoolean, OpenLogFileTypes
<1>5. CASE x.handle = None
  <2>1. io' = x /\ job' = [job EXCEPT !.at = "log"] /\ CountFaults(<<openOk>>) /\ failed' = failed
    BY <1>1, <1>5
  <2>2. faults' \in 0..MaxFaults /\ back' = back /\ starts' = starts
    BY <2>1, FaultsType
  <2> HIDE DEF x, n
  <2>3. JobGoesOn
    BY <2>1 DEF JobGoesOn
  <2> QED
    BY <1>2, <1>4, <2>1, <2>2, <2>3, JobStepTypes DEF n
<1>6. CASE x.handle # None
  <2>1. /\ io' = WriteFile(x, job.rec, writeOk, spills)
        /\ job' = IF job.cacheLogs \/ ~job.move THEN Idle ELSE [job EXCEPT !.at = "append"]
        /\ failed' = IF writeOk THEN failed ELSE failed \cup {job.rec}
        /\ CountFaults(<<writeOk>>)
    BY <1>1, <1>6
  <2>2. faults' \in 0..MaxFaults /\ back' = back /\ starts' = starts
    BY <2>1, FaultsType
  <2> HIDE DEF x
  <2>3. FileTypes(io', n)
    BY <1>2, <1>3, <1>4, <1>6, <2>1, WriteFileTypes
  <2>4. JobGoesOn
    BY <2>1 DEF JobGoesOn
  <2>5. failed' \subseteq failed \cup {job.rec}
    BY <2>1
  <2> QED
    BY <1>2, <2>2, <2>3, <2>4, <2>5, JobStepTypes
<1> QED
  BY <1>5, <1>6

\* stdio hands on what it holds of a file that has been copied already.
WithLate(x, S) == [x EXCEPT !.late = @ \cup S]

LEMMA WithLateIs ==
  ASSUME NEW x, IoShape(x), NEW S
  PROVE  LET y == WithLate(x, S) IN
         /\ IoShape(y) /\ y.files = x.files /\ y.last = x.last /\ y.handle = x.handle
         /\ y.late = x.late \cup S
BY DEF WithLate, IoShape

LEMMA WithLateTypes ==
  ASSUME NEW n, NEW x, FileTypes(x, n), NEW S, S \subseteq 1..n
  PROVE  FileTypes(WithLate(x, S), n)
<1> DEFINE y == WithLate(x, S)
<1>1. /\ IoShape(y) /\ y.files = x.files /\ y.last = x.last /\ y.handle = x.handle
      /\ y.late = x.late \cup S
  BY WithLateIs DEF FileTypes
<1> HIDE DEF y
<1> QED
  BY <1>1 DEF FileTypes, y

\* The path of the log file __AppendFile writes to, the files after it, and
\* what stdio then holds of the cache file.
MoveTarget == LogFileName(io, job.day, "log")
Copied == IF Content(io, job.cache) = <<>> THEN io
          ELSE AppendTo(io, MoveTarget, Content(io, job.cache))
HeldOfCache == IF io.handle # None /\ io.handle.path = job.cache THEN Unwritten ELSE {}

\* A move that gets as far as its second half.
MovesOn ==
  /\ Exists(io, job.cache)
  /\ io' = IF mode = "sync" THEN CloseLogFile(WithLate(Copied, HeldOfCache)) ELSE Copied
  /\ job' = [job EXCEPT !.at = "remove"]

LEMMA AppendCacheIs ==
  ASSUME AppendCache
  PROVE  /\ job.at = "append" /\ failed' = failed /\ JobRests
         /\ \E ok : CountFaults(<<ok>>)
         /\ MovesOn \/ (io' = io /\ job' = Idle)
BY DEF AppendCache, MovesOn, Copied, HeldOfCache, MoveTarget, WithLate

LEMMA UnwrittenType ==
  ASSUME NEW n, FileTypes(io, n)
  PROVE  Unwritten \subseteq 1..n
<1>1. CASE io.handle # None
  <2>1. io.handle.buf \in Seq(1..n)
    BY <1>1 DEF FileTypes
  <2> QED
    BY <1>1, <2>1, RangeType DEF Unwritten
<1> QED
  BY <1>1 DEF Unwritten

LEMMA CachePathIsPath ==
  ASSUME NEW p \in CachePaths
  PROVE  p \in Paths /\ p.dir = "cache"
BY DEF CachePaths, Paths

LEMMA CopiedTypes ==
  ASSUME TypesInv, job.at # "idle"
  PROVE  FileTypes(Copied, Len(written))
<1> DEFINE n == Len(written)
<1>1. n \in Nat /\ FileTypes(io, n) /\ now \in Times
  BY WrittenLength DEF TypesInv
<1>2. job.cache \in CachePaths /\ job.day \in 0..DayOf(MaxTime)
  BY JobAt
<1> HIDE DEF n
<1>3. MoveTarget \in Paths
  BY <1>1, <1>2, LogFileNameType DEF MoveTarget
<1>4. Content(io, job.cache) \in Seq(1..n)
  BY <1>1, ContentType
<1> QED
  BY <1>1, <1>3, <1>4, AppendToTypes DEF Copied, n

LEMMA AppendCacheTypes ==
  ASSUME TypesInv, AppendCache
  PROVE  TypesInv'
<1> DEFINE n == Len(written)
<1>1. /\ job.at = "append" /\ failed' = failed /\ JobRests
      /\ \E ok : CountFaults(<<ok>>)
      /\ MovesOn \/ (io' = io /\ job' = Idle)
  BY AppendCacheIs
<1>2. n \in Nat /\ FileTypes(io, n) /\ now \in Times
  BY WrittenLength DEF TypesInv
<1>3. faults' \in 0..MaxFaults /\ back' = back /\ starts' = starts
  BY <1>1, FaultsType
<1>4. JobGoesOn
  BY <1>1 DEF JobGoesOn, MovesOn
<1>5. FileTypes(Copied, n)
  BY <1>1, CopiedTypes
<1>6. HeldOfCache \subseteq 1..n
  BY <1>2, UnwrittenType DEF HeldOfCache
<1> HIDE DEF n
<1>7. FileTypes(CloseLogFile(WithLate(Copied, HeldOfCache)), n)
  BY <1>2, <1>5, <1>6, WithLateTypes, CloseLogFileTypes
<1>8. FileTypes(io', n)
  BY <1>1, <1>2, <1>5, <1>7 DEF MovesOn
<1> QED
  BY <1>1, <1>3, <1>4, <1>8, JobStepTypes DEF n

LEMMA RemoveCacheTypes ==
  ASSUME TypesInv, RemoveCache
  PROVE  TypesInv'
<1>1. /\ job.at # "idle" /\ io' = RemoveFile(io, job.cache) /\ failed' = failed /\ JobRests
      /\ faults' = faults /\ back' = back /\ starts' = starts /\ job' = Idle
  BY DEF RemoveCache, counts
<1>2. FileTypes(io', Len(written))
  BY <1>1, WrittenLength, RemoveFileTypes DEF TypesInv
<1>3. JobGoesOn /\ faults' \in 0..MaxFaults
  BY <1>1 DEF JobGoesOn, TypesInv
<1> QED
  BY <1>1, <1>2, <1>3, JobStepTypes

LEMMA WriteLogTypes ==
  ASSUME TypesInv, WriteLog
  PROVE  TypesInv'
<1> DEFINE n == Len(written)
<1>1. PICK openOk \in MayFail("open"), writeOk \in MayFail("write"), spills \in {FALSE, mode = "sync"} :
        LET x == OpenLogFile("log", openOk) IN
        /\ io' = IF x.handle = None THEN x
                 ELSE IF writeOk THEN WriteFile(x, job.rec, TRUE, spills) ELSE CloseLogFile(x)
        /\ job' = IF x.handle # None /\ writeOk THEN Idle ELSE [job EXCEPT !.at = "fallback"]
        /\ CountFaults(IF x.handle = None THEN <<openOk>> ELSE <<writeOk>>)
  BY DEF WriteLog
<1> DEFINE x == OpenLogFile("log", openOk)
<1>2. job.at # "idle" /\ JobRests /\ failed' = failed /\ n \in Nat /\ FileTypes(io, n) /\ now \in Times
  BY WrittenLength DEF WriteLog, TypesInv
<1>3. job.rec \in 1..n
  BY <1>2, JobAt
<1>4. FileTypes(x, n)
  BY <1>2, MayFailBoolean, OpenLogFileTypes
<1>5. faults' \in 0..MaxFaults /\ back' = back /\ starts' = starts
  <2>1. CountFaults(<<openOk>>) \/ CountFaults(<<writeOk>>)
    BY <1>1
  <2> QED
    BY <2>1, FaultsType
<1> HIDE DEF x
<1>6. FileTypes(io', n)
  BY <1>1, <1>2, <1>3, <1>4, WriteFileTypes, CloseLogFileTypes DEF x
<1>7. JobGoesOn
  BY <1>1 DEF JobGoesOn
<1> QED
  BY <1>2, <1>5, <1>6, <1>7, JobStepTypes

LEMMA WriteFallbackTypes ==
  ASSUME TypesInv, WriteFallback
  PROVE  TypesInv'
<1> DEFINE n == Len(written)
<1>1. PICK openOk \in MayFail("open"), writeOk \in MayFail("write"), spills \in {FALSE, mode = "sync"} :
        LET x  == OpenLogFile("cache", openOk)
            ok == x.handle # None /\ writeOk
        IN /\ io' = IF x.handle = None THEN x ELSE WriteFile(x, job.rec, writeOk, spills)
           /\ failed' = IF ok THEN failed ELSE failed \cup {job.rec}
           /\ CountFaults(IF x.handle = None THEN <<openOk>> ELSE <<writeOk>>)
  BY DEF WriteFallback
<1> DEFINE x == OpenLogFile("cache", openOk)
<1>2. job.at # "idle" /\ JobRests /\ job' = Idle /\ n \in Nat /\ FileTypes(io, n) /\ now \in Times
  BY WrittenLength DEF WriteFallback, TypesInv
<1>3. job.rec \in 1..n
  BY <1>2, JobAt
<1>4. FileTypes(x, n)
  BY <1>2, MayFailBoolean, OpenLogFileTypes
<1>5. faults' \in 0..MaxFaults /\ back' = back /\ starts' = starts
  <2>1. CountFaults(<<openOk>>) \/ CountFaults(<<writeOk>>)
    BY <1>1
  <2> QED
    BY <2>1, FaultsType
<1> HIDE DEF x
<1>6. FileTypes(io', n)
  BY <1>1, <1>2, <1>3, <1>4, WriteFileTypes DEF x
<1>7. failed' \subseteq failed \cup {job.rec}
  BY <1>1
<1> QED
  BY <1>2, <1>5, <1>6, <1>7, JobStepTypes DEF JobGoesOn

\* A step of the two delayed threads.
LEMMA DelayedStepTypes ==
  ASSUME TypesInv, UNCHANGED <<now, config, job, written, failed, crashed, torn>>,
         FileTypes(io', Len(written)), MoverTypes', PrunerTypes', Apart',
         armed' \subseteq armed, pruned' \subseteq 1..Len(written),
         faults' \in 0..MaxFaults, back' = back, starts' = starts
  PROVE  TypesInv'
<1>1. JobTypes'
  BY DEF TypesInv, JobTypes
<1>2. failed' \subseteq 1..Len(written)
  BY DEF TypesInv
<1> QED
  BY <1>1, <1>2, TypesFrame

LEMMA FilesInType ==
  ASSUME TypesInv, NEW dir
  PROVE  FilesIn(dir) \subseteq Paths /\ FilesIn("cache") \subseteq CachePaths
<1>1. DOMAIN io.files \subseteq Paths
  BY DEF TypesInv, FileTypes
<1> QED
  BY <1>1 DEF FilesIn, Paths, CachePaths

LEMMA MoverStartTypes ==
  ASSUME TypesInv, MoverStart
  PROVE  TypesInv'
<1>1. mover' = [at |-> "scan", todo |-> FilesIn("cache"), start |-> now] /\ now \in Times
  BY DEF MoverStart, TypesInv
<1>2. FilesIn("cache") \subseteq CachePaths
  BY FilesInType
<1>3. MoverTypes'
  BY <1>1, <1>2 DEF MoverTypes
<1>4. /\ UNCHANGED <<now, config, job, written, failed, crashed, torn, pruner, pruned, io, faults, back, starts>>
      /\ job = Idle /\ pruner = Idle /\ armed' \subseteq armed
  BY DEF MoverStart, MoverRests, counts
<1>5. PrunerTypes' /\ Apart'
  BY <1>4 DEF PrunerTypes, Apart
<1>6. FileTypes(io', Len(written)) /\ pruned' \subseteq 1..Len(written) /\ faults' \in 0..MaxFaults
  BY <1>4 DEF TypesInv
<1> QED
  BY <1>3, <1>4, <1>5, <1>6, DelayedStepTypes

LEMMA MoverAt ==
  ASSUME TypesInv, mover.at # "idle"
  PROVE  /\ mover # Idle /\ job = Idle /\ pruner = Idle
         /\ mover.at = "scan" => mover \in [at : {"scan"}, todo : SUBSET CachePaths, start : Times]
         /\ mover.at = "remove" =>
              mover \in [at : {"remove"}, todo : SUBSET CachePaths, start : Times, path : CachePaths]
<1>1. mover # Idle
  BY DEF Idle
<1> QED
  BY <1>1 DEF TypesInv, MoverTypes, Apart

\* A step of __MoveOldFiles on its way.
LEMMA MoverStepTypes ==
  ASSUME TypesInv, mover.at # "idle", MoverTypes', MoverRests, armed' = armed,
         FileTypes(io', Len(written)),
         faults' \in 0..MaxFaults, back' = back, starts' = starts
  PROVE  TypesInv'
<1>1. job = Idle /\ pruner = Idle
  BY MoverAt
<1>2. PrunerTypes' /\ Apart' /\ pruned' \subseteq 1..Len(written)
  BY <1>1 DEF MoverRests, PrunerTypes, Apart, TypesInv
<1> QED
  BY <1>2, DelayedStepTypes DEF MoverRests

LEMMA MoverKeepTypes ==
  ASSUME TypesInv, NEW p, MoverKeep(p)
  PROVE  TypesInv'
<1>1. /\ mover.at # "idle" /\ MoverRests /\ mover' = [mover EXCEPT !.todo = @ \ {p}]
      /\ mover.at = "scan" /\ UNCHANGED <<io, armed, faults, back, starts>>
  BY DEF MoverKeep, counts
<1>2. mover \in [at : {"scan"}, todo : SUBSET CachePaths, start : Times]
  BY <1>1, MoverAt
<1>3. MoverTypes'
  BY <1>1, <1>2 DEF MoverTypes
<1>4. FileTypes(io', Len(written)) /\ faults' \in 0..MaxFaults
  BY <1>1 DEF TypesInv
<1> QED
  BY <1>1, <1>3, <1>4, MoverStepTypes

\* The log file __MoveOldFiles moves a cache file to.
LogPath(p) == Path("log", p.day, p.idx)

LEMMA LogPathType ==
  ASSUME NEW p \in CachePaths
  PROVE  LogPath(p) \in Paths /\ LogPath(p).dir = "log" /\ LogPath(p) # p
BY DEF LogPath, Path, CachePaths, Paths

LEMMA MoverAppendTypes ==
  ASSUME TypesInv, NEW p, MoverAppend(p)
  PROVE  TypesInv'
<1> DEFINE n == Len(written)
<1>1. PICK ok \in MayFail("append") :
        /\ io' = IF ok /\ Content(io, p) # <<>>
                 THEN AppendTo(io, LogPath(p), Content(io, p)) ELSE io
        /\ mover' = IF ok THEN [at |-> "remove", todo |-> mover.todo \ {p},
                                start |-> mover.start, path |-> p]
                    ELSE Idle
        /\ CountFaults(<<ok>>)
  BY DEF MoverAppend, LogPath
<1>2. mover.at # "idle" /\ mover.at = "scan" /\ p \in mover.todo /\ MoverRests /\ armed' = armed
  BY DEF MoverAppend
<1>3. mover \in [at : {"scan"}, todo : SUBSET CachePaths, start : Times]
  BY <1>2, MoverAt
<1>4. p \in CachePaths /\ mover.todo \ {p} \in SUBSET CachePaths /\ mover.start \in Times
  BY <1>2, <1>3
<1>5. MoverTypes'
  <2> DEFINE T == mover.todo \ {p}
             s == mover.start
  <2>1. mover' = Idle \/ mover' = [at |-> "remove", todo |-> T, start |-> s, path |-> p]
    BY <1>1
  <2> HIDE DEF T, s
  <2> QED
    BY <2>1, <1>4 DEF MoverTypes, T, s
<1>6. n \in Nat /\ FileTypes(io, n) /\ now \in Times
  BY WrittenLength DEF TypesInv
<1> HIDE DEF n
<1>7. FileTypes(io', n)
  BY <1>1, <1>4, <1>6, LogPathType, ContentType, AppendToTypes
<1> QED
  BY <1>1, <1>2, <1>5, <1>7, FaultsType, MoverStepTypes DEF n

LEMMA MoverRemoveTypes ==
  ASSUME TypesInv, MoverRemove
  PROVE  TypesInv'
<1>1. /\ mover.at # "idle" /\ MoverRests /\ mover.at = "remove"
      /\ io' = RemoveFile(io, mover.path)
      /\ mover' = [at |-> "scan", todo |-> mover.todo, start |-> mover.start]
      /\ UNCHANGED <<armed, faults, back, starts>>
  BY DEF MoverRemove, counts
<1>2. mover.todo \in SUBSET CachePaths /\ mover.start \in Times
  BY <1>1, MoverAt
<1>3. MoverTypes'
  BY <1>1, <1>2 DEF MoverTypes
<1>4. FileTypes(io', Len(written)) /\ faults' \in 0..MaxFaults
  BY <1>1, WrittenLength, RemoveFileTypes DEF TypesInv
<1> QED
  BY <1>1, <1>3, <1>4, MoverStepTypes

LEMMA MoverEndTypes ==
  ASSUME TypesInv, MoverEnd
  PROVE  TypesInv'
<1>1. /\ mover.at # "idle" /\ MoverRests /\ mover' = Idle
      /\ UNCHANGED <<io, armed, faults, back, starts>>
  BY DEF MoverEnd, counts
<1>2. FileTypes(io', Len(written)) /\ faults' \in 0..MaxFaults /\ MoverTypes'
  BY <1>1 DEF TypesInv, MoverTypes
<1> QED
  BY <1>1, <1>2, MoverStepTypes

LEMMA PrunerAt ==
  ASSUME TypesInv, pruner.at # "idle"
  PROVE  /\ pruner # Idle /\ mover = Idle
         /\ pruner.at = "scan" =>
              pruner \in [at : {"scan"}, dir : {"cache", "log"}, todo : SUBSET Paths, start : Times]
         /\ pruner.at = "remove" =>
              pruner \in [at : {"remove"}, dir : {"cache", "log"}, todo : SUBSET Paths, start : Times,
                          path : Paths]
<1>1. pruner # Idle
  BY DEF Idle
<1> QED
  BY <1>1 DEF TypesInv, PrunerTypes, Apart

\* A step of a __DelTimeoutFile on its way.
LEMMA PrunerStepTypes ==
  ASSUME TypesInv, mover = Idle, PrunerTypes', PrunerRests, armed' \subseteq armed,
         FileTypes(io', Len(written)), pruned' \subseteq 1..Len(written)
  PROVE  TypesInv'
<1>1. MoverTypes' /\ Apart' /\ faults' \in 0..MaxFaults /\ back' = back /\ starts' = starts
  BY DEF PrunerRests, MoverTypes, Apart, TypesInv, counts
<1> QED
  BY <1>1, DelayedStepTypes DEF PrunerRests

LEMMA PrunerStartTypes ==
  ASSUME TypesInv, NEW dir \in {"cache", "log"}, PrunerStart(dir)
  PROVE  TypesInv'
<1>1. /\ pruner' = [at |-> "scan", dir |-> dir, todo |-> FilesIn(dir), start |-> now]
      /\ now \in Times /\ mover = Idle /\ PrunerRests /\ io' = io /\ pruned' = pruned
      /\ armed' \subseteq armed
  BY DEF PrunerStart, TypesInv
<1>2. FilesIn(dir) \in SUBSET Paths
  BY FilesInType
<1>3. PrunerTypes'
  BY <1>1, <1>2 DEF PrunerTypes
<1>4. FileTypes(io', Len(written)) /\ pruned' \subseteq 1..Len(written)
  BY <1>1 DEF TypesInv
<1> QED
  BY <1>1, <1>3, <1>4, PrunerStepTypes

LEMMA PrunerCheckTypes ==
  ASSUME TypesInv, NEW p, PrunerCheck(p)
  PROVE  TypesInv'
<1> DEFINE T == pruner.todo \ {p}
           s == pruner.start
           d == pruner.dir
<1>1. /\ pruner.at = "scan" /\ p \in pruner.todo /\ PrunerRests
      /\ io' = io /\ pruned' = pruned /\ armed' = armed
      /\ \/ pruner' = [at |-> "remove", dir |-> d, todo |-> T, start |-> s, path |-> p]
         \/ pruner' = [pruner EXCEPT !.todo = T]
  BY DEF PrunerCheck
<1>2. /\ pruner \in [at : {"scan"}, dir : {"cache", "log"}, todo : SUBSET Paths, start : Times]
      /\ mover = Idle
  BY <1>1, PrunerAt
<1>3. T \in SUBSET Paths /\ s \in Times /\ d \in {"cache", "log"} /\ p \in Paths
  BY <1>1, <1>2
<1> HIDE DEF T, s, d
<1>4. [pruner EXCEPT !.todo = T] \in [at : {"scan"}, dir : {"cache", "log"}, todo : SUBSET Paths, start : Times]
  BY <1>2, <1>3
<1>5. PrunerTypes'
  BY <1>1, <1>3, <1>4 DEF PrunerTypes
<1>6. FileTypes(io', Len(written)) /\ pruned' \subseteq 1..Len(written)
  BY <1>1 DEF TypesInv
<1> QED
  BY <1>1, <1>2, <1>5, <1>6, PrunerStepTypes

LEMMA PrunerRemoveTypes ==
  ASSUME TypesInv, PrunerRemove
  PROVE  TypesInv'
<1>1. /\ pruner.at # "idle" /\ pruner.at = "remove" /\ PrunerRests
      /\ pruned' = pruned \cup Range(Content(io, pruner.path))
      /\ io' = RemoveFile(io, pruner.path) /\ armed' = armed
      /\ pruner' = [at |-> "scan", dir |-> pruner.dir, todo |-> pruner.todo, start |-> pruner.start]
  BY DEF PrunerRemove
<1>2. /\ pruner.dir \in {"cache", "log"} /\ pruner.todo \in SUBSET Paths /\ pruner.start \in Times
      /\ mover = Idle
  BY <1>1, PrunerAt
<1>3. PrunerTypes'
  BY <1>1, <1>2 DEF PrunerTypes
<1>4. FileTypes(io', Len(written))
  BY <1>1, WrittenLength, RemoveFileTypes DEF TypesInv
<1>5. Range(Content(io, pruner.path)) \subseteq 1..Len(written)
  <2>1. Content(io, pruner.path) \in Seq(1..Len(written))
    BY ContentType DEF TypesInv
  <2> QED
    BY <2>1, RangeType
<1>6. pruned' \subseteq 1..Len(written)
  BY <1>1, <1>5 DEF TypesInv
<1> QED
  BY <1>1, <1>2, <1>3, <1>4, <1>6, PrunerStepTypes

LEMMA PrunerEndTypes ==
  ASSUME TypesInv, PrunerEnd
  PROVE  TypesInv'
<1>1. /\ pruner.at # "idle" /\ PrunerRests /\ pruner' = Idle
      /\ UNCHANGED <<io, armed, pruned>>
  BY DEF PrunerEnd
<1>2. FileTypes(io', Len(written)) /\ pruned' \subseteq 1..Len(written) /\ PrunerTypes'
  BY <1>1 DEF TypesInv, PrunerTypes
<1> QED
  BY <1>1, <1>2, PrunerAt, PrunerStepTypes

LEMMA OpenTypes ==
  ASSUME TypesInv, Open
  PROVE  TypesInv'
<1> DEFINE L == NeverOpened
<1>1. /\ io' = [io EXCEPT !.last = L] /\ IoShape(io) /\ mover = Idle /\ pruner = Idle
      /\ UNCHANGED <<now, job, mover, pruner, written, pruned, failed, crashed, torn, back, faults>>
      /\ up' = TRUE /\ mode' \in Modes /\ cache_days_' \in CacheDays
      /\ armed' = {"move", "cache", "log"} /\ starts' = starts + 1 /\ starts < MaxStarts
  BY WrittenLength DEF Open, ghosts
<1>2. L \in [time : Times, path : Paths \cup {None}] /\ L.time = 0
  BY LogFilesAssumption DEF NeverOpened, Times
<1> HIDE DEF L
<1>3. IoShape(io') /\ io'.files = io.files /\ io'.handle = io.handle /\ io'.late = io.late /\ io'.last = L
  BY <1>1 DEF IoShape
<1>4. FileTypes(io', Len(written))
  <2>1. FileTypes(io, Len(written))
    BY DEF TypesInv
  <2> QED
    BY <1>2, <1>3, <2>1 DEF FileTypes
<1>5. JobTypes' /\ MoverTypes' /\ PrunerTypes' /\ Apart'
  BY <1>1 DEF TypesInv, JobTypes, MoverTypes, PrunerTypes, Apart
<1>6. starts' \in 0..MaxStarts
  <2>1. starts \in 0..MaxStarts
    BY DEF TypesInv
  <2>2. starts' = starts + 1 /\ starts < MaxStarts
    BY <1>1
  <2>3. MaxStarts \in Nat
    BY LogFilesAssumption
  <2> QED
    BY <2>1, <2>2, <2>3
<1>7. /\ now' \in Times /\ written' \in Seq(Times) /\ Len(written') <= MaxWrites
      /\ FileTypes(io', Len(written')) /\ torn' \in BOOLEAN
  BY <1>1, <1>4 DEF TypesInv
<1>8. /\ pruned' \subseteq 1..Len(written') /\ failed' \subseteq 1..Len(written')
      /\ crashed' \subseteq 1..Len(written')
      /\ back' \in 0..MaxBack /\ faults' \in 0..MaxFaults
  BY <1>1 DEF TypesInv
<1> QED
  BY <1>1, <1>5, <1>6, <1>7, <1>8 DEF TypesInv

LEMMA SetModeTypes ==
  ASSUME TypesInv, NEW m \in Modes, SetMode(m)
  PROVE  TypesInv'
BY DEF TypesInv, SetMode, JobTypes, MoverTypes, PrunerTypes, Apart, ghosts, counts

LEMMA CloseTypes ==
  ASSUME TypesInv, Close
  PROVE  TypesInv'
<1>1. FileTypes(io', Len(written))
  BY WrittenLength, CloseLogFileTypes DEF TypesInv, Close
<1>2. JobTypes' /\ MoverTypes' /\ PrunerTypes' /\ Apart'
  BY DEF TypesInv, Close, JobTypes, MoverTypes, PrunerTypes, Apart, ghosts
<1> QED
  BY <1>1, <1>2 DEF TypesInv, Close, ghosts, counts

LEMMA CarriedType ==
  ASSUME TypesInv
  PROVE  Carried \subseteq 1..Len(written)
<1>1. CASE job.at = "idle"
  BY <1>1 DEF Carried
<1>2. CASE job.at # "idle"
  BY <1>2, JobAt DEF Carried
<1> QED
  BY <1>1, <1>2

LEMMA CrashTypes ==
  ASSUME TypesInv, Crash
  PROVE  TypesInv'
<1>1. io' = [io EXCEPT !.handle = None] /\ IoShape(io)
  BY WrittenLength DEF Crash
<1>2. io' = [files |-> io.files, handle |-> None, last |-> io.last, late |-> io.late]
  BY <1>1 DEF IoShape
<1>3. IoShape(io') /\ io'.files = io.files /\ io'.handle = None /\ io'.late = io.late /\ io'.last = io.last
  BY <1>2 DEF IoShape
<1>4. FileTypes(io, Len(written))
  BY DEF TypesInv
<1>5. FileTypes(io', Len(written))
  BY <1>3, <1>4 DEF FileTypes
<1>6. Carried \cup Unwritten \subseteq 1..Len(written)
  BY CarriedType, UnwrittenType DEF TypesInv
<1>7. JobTypes' /\ MoverTypes' /\ PrunerTypes' /\ Apart'
  BY DEF Crash, JobTypes, MoverTypes, PrunerTypes, Apart
<1>8. torn' \in BOOLEAN
  BY DEF Crash, TypesInv
<1> QED
  BY <1>5, <1>6, <1>7, <1>8 DEF TypesInv, Crash, counts

LEMMA ClockTypes ==
  ASSUME TypesInv, Tick \/ ClockBack
  PROVE  TypesInv'
<1>1. now' \in Times /\ back' \in 0..MaxBack
  <2>1. now \in 0..MaxTime /\ back \in 0..MaxBack
    BY DEF TypesInv, Times
  <2>2. CASE Tick
    <3>1. now < MaxTime /\ now' = now + 1 /\ back' = back
      BY <2>2 DEF Tick, counts
    <3> QED
      BY <2>1, <3>1, LogFilesAssumption DEF Times
  <2>3. CASE ClockBack
    <3>1. back < MaxBack /\ now' \in 0..(now - 1) /\ back' = back + 1
      BY <2>3 DEF ClockBack
    <3> QED
      BY <2>1, <3>1, LogFilesAssumption DEF Times
  <2> QED
    BY <2>2, <2>3
<1>2. JobTypes' /\ MoverTypes' /\ PrunerTypes' /\ Apart'
  BY DEF TypesInv, Tick, ClockBack, JobTypes, MoverTypes, PrunerTypes, Apart, ghosts
<1> QED
  BY <1>1, <1>2 DEF TypesInv, Tick, ClockBack, config, ghosts, counts

LEMMA InitTypes == Init => TypesInv
<1> SUFFICES ASSUME Init PROVE TypesInv
  OBVIOUS
<1>1. 0 \in Times /\ 0 \in 0..MaxBack /\ 0 \in 0..MaxFaults /\ 0 \in 0..MaxStarts /\ 0 <= MaxWrites
  BY LogFilesAssumption DEF Times
<1>2. DOMAIN <<>> = {} /\ Len(<<>>) = 0 /\ <<>> \in Seq(Times)
  OBVIOUS
<1>3. NeverOpened \in [time : Times, path : Paths \cup {None}] /\ NeverOpened.time = 0
  BY <1>1 DEF NeverOpened
<1>4. FileTypes(io, 0)
  BY <1>2, <1>3 DEF Init, FileTypes, IoShape
<1>5. Len(written) = 0 /\ written \in Seq(Times)
  BY <1>2 DEF Init
<1> QED
  BY <1>1, <1>4, <1>5 DEF Init, TypesInv, JobTypes, MoverTypes, PrunerTypes, Apart

LEMMA TypesStep == TypesInv /\ [Next]_vars => TypesInv'
<1> SUFFICES ASSUME TypesInv, [Next]_vars PROVE TypesInv'
  OBVIOUS
<1>1. CASE UNCHANGED vars
  BY <1>1 DEF vars, config, ghosts, counts, TypesInv, JobTypes, MoverTypes, PrunerTypes, Apart
<1>2. CASE Log2File BY <1>2, Log2FileTypes
<1>3. CASE WriteCache BY <1>3, WriteCacheTypes
<1>4. CASE AppendCache BY <1>4, AppendCacheTypes
<1>5. CASE RemoveCache BY <1>5, RemoveCacheTypes
<1>6. CASE WriteLog BY <1>6, WriteLogTypes
<1>7. CASE WriteFallback BY <1>7, WriteFallbackTypes
<1>8. CASE MoverStart BY <1>8, MoverStartTypes
<1>9. CASE MoverRemove BY <1>9, MoverRemoveTypes
<1>10. CASE MoverEnd BY <1>10, MoverEndTypes
<1>11. CASE PrunerRemove BY <1>11, PrunerRemoveTypes
<1>12. CASE PrunerEnd BY <1>12, PrunerEndTypes
<1>13. CASE \E dir \in {"cache", "log"} : PrunerStart(dir) BY <1>13, PrunerStartTypes
<1>14. CASE \E p \in DOMAIN io.files : MoverKeep(p) \/ MoverAppend(p)
  BY <1>14, MoverKeepTypes, MoverAppendTypes
<1>15. CASE pruner.at = "scan" /\ \E p \in pruner.todo : PrunerCheck(p) BY <1>15, PrunerCheckTypes
<1>16. CASE \E m \in Modes : SetMode(m) BY <1>16, SetModeTypes
<1>17. CASE Open BY <1>17, OpenTypes
<1>18. CASE Close BY <1>18, CloseTypes
<1>19. CASE Crash BY <1>19, CrashTypes
<1>20. CASE Tick \/ ClockBack BY <1>20, ClockTypes
<1> QED
  BY <1>1, <1>2, <1>3, <1>4, <1>5, <1>6, <1>7, <1>8, <1>9, <1>10, <1>11, <1>12, <1>13, <1>14,
     <1>15, <1>16, <1>17, <1>18, <1>19, <1>20 DEF Next

LEMMA TypesGiveTypeOK == TypesInv => TypeOK
<1> SUFFICES ASSUME TypesInv PROVE TypeOK
  OBVIOUS
<1> DEFINE n == Len(written)
<1>1. n \in Nat /\ n <= MaxWrites /\ MaxWrites \in Nat
  BY WrittenLength, LogFilesAssumption DEF TypesInv
<1>2. 1..n \subseteq Records
  BY <1>1 DEF Records
<1>3. Seq(1..n) \subseteq Blocks
  BY <1>2 DEF Blocks
<1>4. CachePaths \subseteq Paths
  BY CachePathIsPath
<1> HIDE DEF n
<1>5. \A p \in DOMAIN io.files : io.files[p] \in [recs : Blocks, mtime : Times]
  <2>1. \A f \in [recs : Seq(1..n), mtime : Times] : f \in [recs : Blocks, mtime : Times]
    BY <1>3
  <2> QED
    BY <2>1 DEF TypesInv, FileTypes, n
<1>6. io.handle \in [path : Paths, linked : BOOLEAN, opened : Times, buf : Blocks] \cup {None}
  <2>1. \A h \in [path : Paths, linked : BOOLEAN, opened : Times, buf : Seq(1..n)] :
          h \in [path : Paths, linked : BOOLEAN, opened : Times, buf : Blocks]
    BY <1>3
  <2> QED
    BY <2>1 DEF TypesInv, FileTypes, n
<1>7. \/ job = Idle
      \/ job \in [at : {"cache", "append", "remove", "log", "fallback"}, rec : Records,
                 move : BOOLEAN, day : 0..DayOf(MaxTime), cache : Paths, cacheLogs : BOOLEAN]
  BY <1>2, <1>4 DEF TypesInv, JobTypes, n
<1>8. mover = Idle \/ (mover.todo \subseteq Paths /\ mover.start \in Times)
  BY <1>4 DEF TypesInv, MoverTypes
<1>9. pruner = Idle \/ (pruner.todo \subseteq Paths /\ pruner.start \in Times)
  BY DEF TypesInv, PrunerTypes
<1> QED
  BY <1>5, <1>6, <1>7, <1>8, <1>9 DEF TypeOK, TypesInv, FileTypes, Apart

LEMMA AlwaysTypesInv == Spec => []TypesInv
<1>1. Init => TypesInv
  BY InitTypes
<1>2. TypesInv /\ [Next]_vars => TypesInv'
  BY TypesStep
<1> QED
  BY <1>1, <1>2, PTL DEF Spec

\* Types, and who excludes whom: the mutexes keep __Log2File and __MoveOldFiles
\* apart, and the two delayed jobs.
THEOREM LogFilesTypeOK == Spec => []TypeOK
<1>1. TypesInv => TypeOK
  BY TypesGiveTypeOK
<1> QED
  BY <1>1, AlwaysTypesInv, PTL

-----------------------------------------------------------------------------
(* NothingVanishes. A block that leaves a place has another: a move copies *)
(* before it removes (MovesKeep), and what stdio holds counts as kept.     *)

\* Block r is in a file; or stdio or a file without a name has it.
InFiles(x, r) == \E p \in DOMAIN x.files : r \in Range(x.files[p].recs)
Kept(x, r) ==
  \/ InFiles(x, r)
  \/ x.handle # None /\ r \in Range(x.handle.buf)
  \/ r \in x.late

\* r is stored somewhere else than in file p.
Elsewhere(x, r, p) == r \in x.late \/ \E q \in DOMAIN x.files \ {p} : r \in Range(x.files[q].recs)

\* Every block is in the hands of its thread, kept, or gone with a reason.
Gone == pruned \cup failed \cup crashed
KeptInv == \A r \in 1..Len(written) : r \in Carried \/ Kept(io, r) \/ r \in Gone

\* What is about to be removed after a move has been copied, or pruned.
CopyMade(p) == \A r \in Range(Content(io, p)) : Elsewhere(io, r, p) \/ r \in pruned
MovesKeep ==
  /\ job.at = "remove" => CopyMade(job.cache)
  /\ mover.at = "remove" => CopyMade(mover.path)

LEMMA RangeConcat ==
  ASSUME NEW S, NEW s \in Seq(S), NEW t \in Seq(S)
  PROVE  Range(s \o t) = Range(s) \cup Range(t)
<1>1. DOMAIN (s \o t) = 1..(Len(s) + Len(t)) /\ DOMAIN s = 1..Len(s) /\ DOMAIN t = 1..Len(t)
  OBVIOUS
<1>2. PICK m \in Nat, n \in Nat : m = Len(s) /\ n = Len(t)
  OBVIOUS
<1>3. \A i \in 1..(m + n) : (s \o t)[i] = IF i <= m THEN s[i] ELSE t[i - m]
  BY <1>2
<1>4. \A i \in 1..m : i \in 1..(m + n) /\ i <= m
  OBVIOUS
<1>5. \A i \in 1..n : m + i \in 1..(m + n) /\ ~(m + i <= m) /\ (m + i) - m = i
  OBVIOUS
<1>6. \A i \in 1..(m + n) : (i \in 1..m /\ i <= m) \/ (~(i <= m) /\ i - m \in 1..n)
  OBVIOUS
<1>7. Range(s \o t) \subseteq Range(s) \cup Range(t)
  BY <1>1, <1>2, <1>3, <1>6 DEF Range
<1>8. Range(s) \subseteq Range(s \o t)
  BY <1>1, <1>2, <1>3, <1>4 DEF Range
<1>9. Range(t) \subseteq Range(s \o t)
  <2> SUFFICES ASSUME NEW i \in 1..n PROVE t[i] \in Range(s \o t)
    BY <1>1, <1>2 DEF Range
  <2>1. m + i \in 1..(m + n) /\ (s \o t)[m + i] = t[i]
    BY <1>3, <1>5
  <2> QED
    BY <2>1, <1>1, <1>2 DEF Range
<1> QED
  BY <1>7, <1>8, <1>9

LEMMA RangeAppend ==
  ASSUME NEW S, NEW s \in Seq(S), NEW e \in S
  PROVE  Range(Append(s, e)) = Range(s) \cup {e}
<1>1. Append(s, e) = s \o <<e>> /\ <<e>> \in Seq(S)
  BY AppendIsConcat
<1>2. Range(<<e>>) = {e}
  BY DEF Range
<1>3. Range(s \o <<e>>) = Range(s) \cup Range(<<e>>)
  <2> DEFINE t == <<e>>
  <2>1. t \in Seq(S)
    BY <1>1
  <2> HIDE DEF t
  <2>2. Range(s \o t) = Range(s) \cup Range(t)
    BY <2>1, RangeConcat
  <2> QED
    BY <2>2, Zenon DEF t
<1>4. Range(Append(s, e)) = Range(s \o <<e>>)
  BY <1>1, Zenon
<1> QED
  BY <1>2, <1>3, <1>4, Zenon

\* y has the blocks of x, and those of recs in file p.
Grown(x, y, p, recs) ==
  /\ p \in DOMAIN y.files
  /\ Range(y.files[p].recs) = Range(Content(x, p)) \cup Range(recs)
  /\ \A q \in DOMAIN x.files : q \in DOMAIN y.files /\ Range(x.files[q].recs) \subseteq Range(y.files[q].recs)

LEMMA AppendedGrown ==
  ASSUME NEW n, NEW x, FileTypes(x, n), NEW y, NEW p, NEW recs \in Seq(1..n), Appended(x, y, p, recs)
  PROVE  Grown(x, y, p, recs)
<1>1. Content(x, p) \in Seq(1..n)
  BY ContentType
<1>2. y.files[p].recs = Content(x, p) \o recs
  BY DEF Appended
<1>3. Range(y.files[p].recs) = Range(Content(x, p)) \cup Range(recs)
  BY <1>1, <1>2, RangeConcat
<1>4. p \in DOMAIN x.files => Content(x, p) = x.files[p].recs
  BY DEF Content, Exists
<1> QED
  BY <1>3, <1>4 DEF Appended, Grown

LEMMA AppendToKeeps ==
  ASSUME NEW n, NEW x, FileTypes(x, n), NEW p, NEW recs \in Seq(1..n), NEW r
  PROVE  /\ InFiles(x, r) => InFiles(AppendTo(x, p, recs), r)
         /\ r \in Range(recs) => InFiles(AppendTo(x, p, recs), r)
         /\ Kept(x, r) => Kept(AppendTo(x, p, recs), r)
<1> DEFINE y == AppendTo(x, p, recs)
<1>1. Appended(x, y, p, recs)
  BY AppendToIs DEF FileTypes
<1> HIDE DEF y
<1>2. Grown(x, y, p, recs)
  BY <1>1, AppendedGrown
<1>3. y.handle = x.handle /\ y.late = x.late
  BY <1>1 DEF Appended
<1>4. InFiles(x, r) => InFiles(y, r)
  BY <1>2 DEF InFiles, Grown
<1>5. r \in Range(recs) => InFiles(y, r)
  BY <1>2 DEF InFiles, Grown
<1>6. Kept(x, r) => Kept(y, r)
  BY <1>3, <1>4 DEF Kept
<1> QED
  BY <1>4, <1>5, <1>6 DEF y

\* Nothing x has is missing in y.
Keeps(x, y) == \A r : Kept(x, r) => Kept(y, r)

LEMMA DrainKeeps ==
  ASSUME NEW n \in Nat, NEW x, FileTypes(x, n)
  PROVE  \A r : Kept(x, r) => InFiles(Drain(x), r) \/ r \in Drain(x).late
<1> SUFFICES ASSUME NEW r, Kept(x, r) PROVE InFiles(Drain(x), r) \/ r \in Drain(x).late
  OBVIOUS
<1> DEFINE y == Drain(x)
           h == x.handle
           A == AppendTo(x, h.path, h.buf)
<1>1. Drained(x, y)
  BY DrainIs DEF FileTypes
<1>2. CASE h = None
  <2>1. y = x
    BY <1>1, <1>2 DEF Drained
  <2> QED
    BY <1>2, <2>1 DEF Kept
<1>3. CASE h # None /\ h.buf = <<>>
  <2>1. y = x /\ Range(h.buf) = {}
    BY <1>1, <1>3 DEF Drained, Range
  <2> QED
    BY <2>1 DEF Kept
<1>4. CASE h # None /\ h.buf # <<>> /\ h.linked
  <2>1. y.files = A.files /\ y.late = x.late
    BY <1>1, <1>4 DEF Drained
  <2>2. h.buf \in Seq(1..n)
    BY <1>4 DEF FileTypes
  <2> HIDE DEF h
  <2>3. /\ InFiles(x, r) => InFiles(A, r)
        /\ r \in Range(h.buf) => InFiles(A, r)
    BY <2>2, AppendToKeeps
  <2> HIDE DEF A, y
  <2> QED
    BY <1>4, <2>1, <2>3 DEF Kept, InFiles, h, y
<1>5. CASE h # None /\ h.buf # <<>> /\ ~h.linked
  <2>1. y.files = x.files /\ y.late = x.late \cup Range(h.buf)
    BY <1>1, <1>5 DEF Drained
  <2> QED
    BY <1>5, <2>1 DEF Kept, InFiles
<1> QED
  BY <1>2, <1>3, <1>4, <1>5

LEMMA CloseLogFileKeeps ==
  ASSUME NEW n \in Nat, NEW x, FileTypes(x, n)
  PROVE  Keeps(x, CloseLogFile(x)) /\ Keeps(x, Drain(x))
<1>1. Closed(x, CloseLogFile(x))
  BY CloseLogFileIs DEF FileTypes
<1>2. \A r : Kept(x, r) => InFiles(Drain(x), r) \/ r \in Drain(x).late
  BY DrainKeeps
<1> QED
  BY <1>1, <1>2 DEF Keeps, Kept, InFiles, Closed

LEMMA OpenLogFileKeeps ==
  ASSUME NEW n \in Nat, FileTypes(io, n), now \in Times, NEW dir \in {"cache", "log"}, NEW ok \in BOOLEAN
  PROVE  Keeps(io, OpenLogFile(dir, ok))
<1> DEFINE y == OpenLogFile(dir, ok)
           C == CloseLogFile(io)
           P == OpenPath(dir)
           T == Touch(C, P)
<1>1. OpenedLog(y, dir, ok)
  BY OpenLogFileIs DEF FileTypes
<1>2. CASE SameDay(io) /\ y = io
  BY <1>2 DEF Keeps
<1>3. CASE ~(SameDay(io) /\ y = io)
  <2>1. /\ y.late = C.late
        /\ y.files = T.files \/ y.files = C.files
    BY <1>1, <1>3 DEF OpenedLog
  <2>2. FileTypes(C, n) /\ C.handle = None /\ Keeps(io, C)
    BY CloseLogFileTypes, CloseLogFileKeeps
  <2>3. <<>> \in Seq(1..n)
    OBVIOUS
  <2> HIDE DEF C, P, y
  <2>4. \A r : InFiles(C, r) => InFiles(T, r)
    BY <2>2, <2>3, AppendToKeeps DEF Touch
  <2> HIDE DEF T
  <2>5. \A r : Kept(C, r) => Kept(y, r)
    BY <2>1, <2>2, <2>4 DEF Kept, InFiles
  <2> QED
    BY <2>2, <2>5 DEF Keeps, y
<1> QED
  BY <1>2, <1>3

LEMMA WriteFileKeeps ==
  ASSUME NEW n \in Nat, NEW x, FileTypes(x, n), x.handle # None, NEW rec \in 1..n,
         now \in Times, NEW ok, NEW spills
  PROVE  /\ Keeps(x, WriteFile(x, rec, ok, spills))
         /\ ok => Kept(WriteFile(x, rec, ok, spills), rec)
<1> DEFINE s == Spilled(x, spills)
           t == Took(x, rec, ok, spills)
<1>1. FileTypes(s, n)
  BY DrainTypes DEF Spilled
<1>2. Keeps(x, s)
  BY CloseLogFileKeeps DEF Spilled, Keeps
<1>3. s.handle \in [path : Paths, linked : BOOLEAN, opened : Times, buf : Seq(1..n)]
  <2>1. x.handle \in [path : Paths, linked : BOOLEAN, opened : Times, buf : Seq(1..n)]
    BY DEF FileTypes
  <2>2. s.handle = x.handle \/ s.handle = [x.handle EXCEPT !.buf = <<>>]
    BY SpilledKeepsHandle, Zenon
  <2>3. [x.handle EXCEPT !.buf = <<>>] \in [path : Paths, linked : BOOLEAN, opened : Times, buf : Seq(1..n)]
    BY <2>1, HandleKeeps
  <2> QED
    BY <2>1, <2>2, <2>3
<1>4. s.handle # None /\ s.handle.buf \in Seq(1..n)
  BY <1>3, HandleIsOpen
<1> DEFINE B == Buffered(s, rec)
<1>5. TakesBlock(s, B, rec)
  BY <1>1, BufferedIs DEF FileTypes
<1> HIDE DEF s
<1>6. FileTypes(B, n) /\ B.handle # None
  <2>1. FileTypes(B, n)
    BY <1>1, <1>4, BufferedTypes
  <2> HIDE DEF B
  <2>2. B.handle = [s.handle EXCEPT !.buf = Append(s.handle.buf, rec)]
    BY <1>5 DEF TakesBlock
  <2>3. Append(s.handle.buf, rec) \in Seq(1..n)
    BY <1>4
  <2>4. B.handle \in [path : Paths, linked : BOOLEAN, opened : Times, buf : Seq(1..n)]
    BY <2>2, <2>3, <1>3
  <2> QED
    BY <2>1, <2>4, HandleIsOpen
<1>7. Range(Append(s.handle.buf, rec)) = Range(s.handle.buf) \cup {rec}
  BY <1>4, RangeAppend
<1>8. Keeps(s, B) /\ Kept(B, rec)
  <2> HIDE DEF B
  <2>1. B.handle = [s.handle EXCEPT !.buf = Append(s.handle.buf, rec)] /\ B.files = s.files /\ B.late = s.late
    BY <1>5 DEF TakesBlock
  <2>2. B.handle.buf = Append(s.handle.buf, rec)
    BY <2>1, <1>3
  <2>3. Range(B.handle.buf) = Range(s.handle.buf) \cup {rec}
    BY <2>2, <1>7
  <2> QED
    BY <2>1, <2>3, <1>6, <1>4 DEF Keeps, Kept, InFiles
<1> HIDE DEF B
<1>9. FileTypes(t, n) /\ Keeps(x, t) /\ (ok => Kept(t, rec))
  BY <1>1, <1>2, <1>6, <1>8 DEF Took, s, B, Keeps
<1> HIDE DEF t
<1>10. Keeps(t, CloseLogFile(t))
  BY <1>9, CloseLogFileKeeps
<1> QED
  BY <1>9, <1>10, WriteFileIs DEF Keeps, t

\* The inductive invariant.
NothingInv == TypesInv /\ KeptInv /\ MovesKeep

\* A step that gives no new block.
LEMMA KeptFrame ==
  ASSUME KeptInv, written' = written, Gone \subseteq Gone',
         \A r \in 1..Len(written) : r \in Carried \/ Kept(io, r) => r \in Carried' \/ Kept(io', r) \/ r \in Gone'
  PROVE  KeptInv'
BY DEF KeptInv

\* A step that moves and prunes nothing.
LEMMA MovesFrame ==
  ASSUME MovesKeep, job' = job, mover' = mover,
         io'.files = io.files, io'.late = io.late, pruned' = pruned
  PROVE  MovesKeep'
<1> QED
  BY DEF MovesKeep, CopyMade, Elsewhere, Content, Exists

\* A step that is no second half of a move and leads to none.
LEMMA NoMove ==
  ASSUME job'.at # "remove", mover'.at # "remove"
  PROVE  MovesKeep'
BY DEF MovesKeep

LEMMA CarriedByJob ==
  /\ \A r \in Carried : r = job.rec /\ job.at \in {"cache", "log", "fallback"}
  /\ job.at \in {"append", "remove"} => Carried = {}
BY DEF Carried

LEMMA JobRestsGone ==
  ASSUME JobRests, failed \subseteq failed' PROVE Gone \subseteq Gone'
BY DEF JobRests, Gone

LEMMA MoverQuiet ==
  ASSUME TypesInv, job.at # "idle" PROVE mover.at = "idle"
BY JobAt DEF Idle

LEMMA Log2FileNothing ==
  ASSUME NothingInv, Log2File
  PROVE  KeptInv' /\ MovesKeep'
<1>1. written \in Seq(Times) /\ now \in Times /\ written' = Append(written, now) /\ io' = io
  BY DEF NothingInv, TypesInv, Log2File
<1>2. Len(written') = Len(written) + 1 /\ Len(written) \in Nat
  BY <1>1
<1>3. job = Idle /\ job'.rec = Len(written) + 1 /\ job'.at \in {"cache", "log"}
  BY DEF Log2File
<1>4. Carried = {} /\ Carried' = {Len(written) + 1}
  BY <1>3 DEF Carried, Idle
<1>5. \A r \in 1..Len(written') : r \in 1..Len(written) \/ r = Len(written) + 1
  BY <1>2
<1>6. KeptInv'
  BY <1>1, <1>4, <1>5 DEF KeptInv, NothingInv, Log2File, Gone
<1>7. mover' = mover /\ mover = Idle
  BY DEF Log2File
<1> QED
  BY <1>3, <1>6, <1>7, NoMove DEF Idle

LEMMA WriteCacheNothing ==
  ASSUME NothingInv, WriteCache
  PROVE  KeptInv' /\ MovesKeep'
<1> DEFINE n == Len(written)
<1>1. PICK openOk \in MayFail("open"), writeOk \in MayFail("write"), spills \in {FALSE, mode = "sync"} :
        LET x == OpenLogFile("cache", openOk) IN
        \/ /\ x.handle = None
           /\ io' = x /\ job' = [job EXCEPT !.at = "log"] /\ failed' = failed
        \/ /\ x.handle # None
           /\ io' = WriteFile(x, job.rec, writeOk, spills)
           /\ job' = IF job.cacheLogs \/ ~job.move THEN Idle ELSE [job EXCEPT !.at = "append"]
           /\ failed' = IF writeOk THEN failed ELSE failed \cup {job.rec}
  BY DEF WriteCache
<1> DEFINE x == OpenLogFile("cache", openOk)
<1>2. TypesInv /\ job.at = "cache" /\ JobRests /\ n \in Nat /\ FileTypes(io, n) /\ now \in Times
  BY WrittenLength DEF WriteCache, TypesInv, NothingInv
<1>3. /\ job.rec \in 1..n
      /\ job \in [at : {"cache", "append", "remove", "log", "fallback"}, rec : 1..n,
               move : BOOLEAN, day : 0..DayOf(MaxTime), cache : CachePaths, cacheLogs : BOOLEAN]
  BY <1>2, JobAt
<1>4. FileTypes(x, n) /\ Keeps(io, x)
  BY <1>2, MayFailBoolean, OpenLogFileTypes, OpenLogFileKeeps
<1>5. failed \subseteq failed' /\ Gone \subseteq Gone'
  BY <1>1, <1>2, JobRestsGone
<1>6. job'.at # "remove" /\ mover'.at # "remove"
  BY <1>1, <1>2, <1>3, MoverQuiet DEF Idle, JobRests
<1>7. ASSUME NEW r \in 1..n, r \in Carried \/ Kept(io, r)
      PROVE  r \in Carried' \/ Kept(io', r) \/ r \in Gone'
  <2>1. Kept(io, r) => Kept(x, r)
    BY <1>4 DEF Keeps
  <2>2. r \in Carried => r = job.rec
    BY CarriedByJob
  <2>3. CASE x.handle = None
    <3>1. io' = x /\ job' = [job EXCEPT !.at = "log"]
      BY <1>1, <2>3
    <3>2. Carried' = {job.rec}
      BY <3>1, <1>3 DEF Carried
    <3> QED
      BY <1>7, <2>1, <2>2, <3>1, <3>2
  <2>4. CASE x.handle # None
    <3>1. /\ io' = WriteFile(x, job.rec, writeOk, spills)
          /\ failed' = IF writeOk THEN failed ELSE failed \cup {job.rec}
      BY <1>1, <2>4
    <3> HIDE DEF x
    <3>2. /\ Keeps(x, WriteFile(x, job.rec, writeOk, spills))
          /\ writeOk => Kept(WriteFile(x, job.rec, writeOk, spills), job.rec)
      BY <1>2, <1>3, <1>4, <2>4, WriteFileKeeps
    <3>3. Kept(x, r) => Kept(io', r)
      BY <3>1, <3>2 DEF Keeps
    <3>4. Kept(io', job.rec) \/ job.rec \in Gone'
      BY <3>1, <3>2 DEF Gone
    <3> QED
      BY <1>7, <2>1, <2>2, <3>3, <3>4
  <2> QED
    BY <2>3, <2>4
<1>8. KeptInv'
  BY <1>2, <1>5, <1>7, KeptFrame DEF NothingInv, JobRests
<1> QED
  BY <1>6, <1>8, NoMove

LEMMA WriteLogNothing ==
  ASSUME NothingInv, WriteLog
  PROVE  KeptInv' /\ MovesKeep'
<1> DEFINE n == Len(written)
<1>1. PICK openOk \in MayFail("open"), writeOk \in MayFail("write"), spills \in {FALSE, mode = "sync"} :
        LET x == OpenLogFile("log", openOk) IN
        /\ io' = IF x.handle = None THEN x
                 ELSE IF writeOk THEN WriteFile(x, job.rec, TRUE, spills) ELSE CloseLogFile(x)
        /\ job' = IF x.handle # None /\ writeOk THEN Idle ELSE [job EXCEPT !.at = "fallback"]
  BY DEF WriteLog
<1> DEFINE x == OpenLogFile("log", openOk)
<1>2. TypesInv /\ job.at = "log" /\ JobRests /\ failed' = failed
      /\ n \in Nat /\ FileTypes(io, n) /\ now \in Times
  BY WrittenLength DEF WriteLog, TypesInv, NothingInv
<1>3. /\ job.rec \in 1..n
      /\ job \in [at : {"cache", "append", "remove", "log", "fallback"}, rec : 1..n,
               move : BOOLEAN, day : 0..DayOf(MaxTime), cache : CachePaths, cacheLogs : BOOLEAN]
  BY <1>2, JobAt
<1>4. FileTypes(x, n) /\ Keeps(io, x)
  BY <1>2, MayFailBoolean, OpenLogFileTypes, OpenLogFileKeeps
<1>5. Gone \subseteq Gone'
  BY <1>2, JobRestsGone
<1>6. job'.at # "remove" /\ mover'.at # "remove"
  BY <1>1, <1>2, <1>3, MoverQuiet DEF Idle, JobRests
<1>7. ASSUME NEW r \in 1..n, r \in Carried \/ Kept(io, r)
      PROVE  r \in Carried' \/ Kept(io', r) \/ r \in Gone'
  <2>1. Kept(io, r) => Kept(x, r)
    BY <1>4 DEF Keeps
  <2>2. r \in Carried => r = job.rec
    BY CarriedByJob
  <2>3. CASE x.handle # None /\ writeOk
    <3>1. io' = WriteFile(x, job.rec, TRUE, spills)
      BY <1>1, <2>3
    <3> HIDE DEF x
    <3>2. /\ Keeps(x, WriteFile(x, job.rec, TRUE, spills))
          /\ Kept(WriteFile(x, job.rec, TRUE, spills), job.rec)
      BY <1>2, <1>3, <1>4, <2>3, WriteFileKeeps
    <3> QED
      BY <1>7, <2>1, <2>2, <3>1, <3>2 DEF Keeps
  <2>4. CASE ~(x.handle # None /\ writeOk)
    <3>1. job' = [job EXCEPT !.at = "fallback"] /\ (io' = x \/ io' = CloseLogFile(x))
      BY <1>1, <2>4
    <3>2. Carried' = {job.rec}
      BY <3>1, <1>3 DEF Carried
    <3> HIDE DEF x
    <3>3. Kept(x, r) => Kept(io', r)
      BY <1>2, <1>4, <3>1, CloseLogFileKeeps DEF Keeps
    <3> QED
      BY <1>7, <2>1, <2>2, <3>2, <3>3
  <2> QED
    BY <2>3, <2>4
<1>8. KeptInv'
  BY <1>2, <1>5, <1>7, KeptFrame DEF NothingInv, JobRests
<1> QED
  BY <1>6, <1>8, NoMove

LEMMA WriteFallbackNothing ==
  ASSUME NothingInv, WriteFallback
  PROVE  KeptInv' /\ MovesKeep'
<1> DEFINE n == Len(written)
<1>1. PICK openOk \in MayFail("open"), writeOk \in MayFail("write"), spills \in {FALSE, mode = "sync"} :
        LET x  == OpenLogFile("cache", openOk)
            ok == x.handle # None /\ writeOk
        IN /\ io' = IF x.handle = None THEN x ELSE WriteFile(x, job.rec, writeOk, spills)
           /\ failed' = IF ok THEN failed ELSE failed \cup {job.rec}
  BY DEF WriteFallback
<1> DEFINE x == OpenLogFile("cache", openOk)
<1>2. TypesInv /\ job.at # "idle" /\ JobRests /\ job' = Idle
      /\ n \in Nat /\ FileTypes(io, n) /\ now \in Times
  BY WrittenLength DEF WriteFallback, TypesInv, NothingInv
<1>3. job.rec \in 1..n
  BY <1>2, JobAt
<1>4. FileTypes(x, n) /\ Keeps(io, x)
  BY <1>2, MayFailBoolean, OpenLogFileTypes, OpenLogFileKeeps
<1>5. Gone \subseteq Gone'
  BY <1>1, <1>2, JobRestsGone
<1>6. job'.at # "remove" /\ mover'.at # "remove"
  BY <1>2, MoverQuiet DEF Idle, JobRests
<1>7. ASSUME NEW r \in 1..n, r \in Carried \/ Kept(io, r)
      PROVE  r \in Carried' \/ Kept(io', r) \/ r \in Gone'
  <2>1. Kept(io, r) => Kept(x, r)
    BY <1>4 DEF Keeps
  <2>2. r \in Carried => r = job.rec
    BY CarriedByJob
  <2>3. CASE x.handle = None
    <3>1. io' = x /\ job.rec \in Gone'
      BY <1>1, <2>3 DEF Gone
    <3> QED
      BY <1>7, <2>1, <2>2, <3>1
  <2>4. CASE x.handle # None
    <3>1. /\ io' = WriteFile(x, job.rec, writeOk, spills)
          /\ writeOk \/ job.rec \in Gone'
      BY <1>1, <2>4 DEF Gone
    <3> HIDE DEF x
    <3>2. /\ Keeps(x, WriteFile(x, job.rec, writeOk, spills))
          /\ writeOk => Kept(WriteFile(x, job.rec, writeOk, spills), job.rec)
      BY <1>2, <1>3, <1>4, <2>4, WriteFileKeeps
    <3>3. Kept(x, r) => Kept(io', r)
      BY <3>1, <3>2 DEF Keeps
    <3>4. Kept(io', job.rec) \/ job.rec \in Gone'
      BY <3>1, <3>2
    <3> QED
      BY <1>7, <2>1, <2>2, <3>3, <3>4
  <2> QED
    BY <2>3, <2>4
<1>8. KeptInv'
  BY <1>2, <1>5, <1>7, KeptFrame DEF NothingInv, JobRests
<1> QED
  BY <1>6, <1>8, NoMove

\* All of file p is also elsewhere.
CopyIn(x, p) == \A r \in Range(Content(x, p)) : Elsewhere(x, r, p)

LEMMA CopiedHasCopy ==
  ASSUME NothingInv, job.at = "append"
  PROVE  CopyIn(Copied, job.cache) /\ Copied.handle = io.handle /\ Keeps(io, Copied)
<1> DEFINE c == job.cache
           s == Content(io, c)
           A == AppendTo(io, MoveTarget, s)
           n == Len(written)
<1>1. FileTypes(io, n) /\ c \in CachePaths
  BY JobAt DEF NothingInv, TypesInv
<1>2. s \in Seq(1..n)
  BY <1>1, ContentType
<1>3. MoveTarget.dir = "log" /\ c.dir = "cache"
  BY <1>1, CachePathIsPath DEF MoveTarget, LogFileName, Path
<1>4. Appended(io, A, MoveTarget, s)
  BY <1>1, AppendToIs DEF FileTypes
<1>5. CASE s = <<>>
  <2>1. Copied = io
    BY <1>5 DEF Copied
  <2>2. Range(<<>>) = {}
    BY DEF Range
  <2> QED
    BY <1>5, <2>1, <2>2 DEF CopyIn, Keeps
<1>6. CASE s # <<>>
  <2>1. Copied = A
    BY <1>6 DEF Copied
  <2>2. Grown(io, A, MoveTarget, s)
    BY <1>1, <1>2, <1>4, AppendedGrown
  <2>3. Keeps(io, A)
    BY <1>1, <1>2, AppendToKeeps DEF Keeps
  <2>4. MoveTarget # c
    BY <1>3
  <2>5. Content(A, c) = s
    BY <1>4, <2>4 DEF Appended, Content, Exists
  <2> HIDE DEF A, s, c
  <2>6. CopyIn(A, c)
    BY <2>2, <2>4, <2>5 DEF Grown, CopyIn, Elsewhere
  <2>7. A.handle = io.handle
    BY <1>4 DEF Appended
  <2> QED
    BY <2>1, <2>3, <2>6, <2>7 DEF c
<1> QED
  BY <1>5, <1>6

\* What a close adds to a copied file is noted to be lost with it.
LEMMA CloseKeepsCopy ==
  ASSUME NEW n \in Nat, NEW x, FileTypes(x, n), NEW c, CopyIn(x, c),
         x.handle # None /\ x.handle.path = c => Range(x.handle.buf) \subseteq x.late
  PROVE  CopyIn(CloseLogFile(x), c)
<1> DEFINE y == CloseLogFile(x)
           h == x.handle
           A == AppendTo(x, h.path, h.buf)
<1>1. Closed(x, y) /\ Drained(x, Drain(x))
  BY CloseLogFileIs, DrainIs DEF FileTypes
<1>2. CASE y.files = x.files /\ x.late \subseteq y.late
  BY <1>2 DEF CopyIn, Elsewhere, Content, Exists
<1>3. CASE h # None /\ y.files = A.files /\ y.late = x.late
  <2>1. h.buf \in Seq(1..n)
    BY <1>3 DEF FileTypes
  <2>2. Appended(x, A, h.path, h.buf)
    BY AppendToIs DEF FileTypes
  <2> HIDE DEF h, A
  <2>3. Grown(x, A, h.path, h.buf)
    BY <2>1, <2>2, AppendedGrown
  <2>4. ASSUME NEW r \in Range(Content(y, c)) PROVE Elsewhere(y, r, c)
    <3>1. CASE r \in Range(Content(x, c))
      BY <1>3, <2>3, <3>1 DEF CopyIn, Elsewhere, Grown
    <3>2. CASE r \notin Range(Content(x, c))
      <4>1. h.path = c
        BY <1>3, <2>2, <2>4, <3>2 DEF Appended, Content, Exists
      <4>2. r \in Range(h.buf)
        BY <1>3, <2>3, <2>4, <3>2, <4>1 DEF Grown, Content, Exists
      <4> QED
        BY <1>3, <4>1, <4>2 DEF Elsewhere, h
    <3> QED
      BY <3>1, <3>2
  <2> QED
    BY <2>4 DEF CopyIn
<1>4. \/ y.files = x.files /\ x.late \subseteq y.late
      \/ h # None /\ y.files = A.files /\ y.late = x.late
  BY <1>1 DEF Closed, Drained
<1> QED
  BY <1>2, <1>3, <1>4

LEMMA AppendCacheNothing ==
  ASSUME NothingInv, AppendCache
  PROVE  KeptInv' /\ MovesKeep'
<1> DEFINE n == Len(written)
           x == WithLate(Copied, HeldOfCache)
<1>1. /\ job.at = "append" /\ failed' = failed /\ JobRests
      /\ MovesOn \/ (io' = io /\ job' = Idle)
  BY AppendCacheIs
<1>2. TypesInv /\ n \in Nat /\ FileTypes(io, n) /\ now \in Times
  BY WrittenLength DEF TypesInv, NothingInv
<1>3. CopyIn(Copied, job.cache) /\ Copied.handle = io.handle /\ Keeps(io, Copied)
  BY <1>1, CopiedHasCopy
<1>4. FileTypes(Copied, n)
  BY <1>1, <1>2, CopiedTypes
<1>5. /\ IoShape(x) /\ x.files = Copied.files /\ x.handle = io.handle
      /\ x.late = Copied.late \cup HeldOfCache
  BY <1>3, <1>4, WithLateIs DEF FileTypes
<1>6. FileTypes(x, n)
  <2>1. HeldOfCache \subseteq 1..n
    BY <1>2, UnwrittenType DEF HeldOfCache
  <2> QED
    BY <1>4, <2>1, WithLateTypes
<1> HIDE DEF x
<1>7. Keeps(io, x)
  BY <1>3, <1>5 DEF Keeps, Kept, InFiles
<1>8. CopyIn(x, job.cache)
  BY <1>3, <1>5 DEF CopyIn, Elsewhere, Content, Exists
<1>9. x.handle # None /\ x.handle.path = job.cache => Range(x.handle.buf) \subseteq x.late
  BY <1>5 DEF HeldOfCache, Unwritten
<1>10. CopyIn(CloseLogFile(x), job.cache) /\ Keeps(x, CloseLogFile(x))
  BY <1>2, <1>6, <1>8, <1>9, CloseKeepsCopy, CloseLogFileKeeps
<1>11. Gone \subseteq Gone' /\ Carried = {}
  BY <1>1, JobRestsGone, CarriedByJob
<1>12. CASE MovesOn
  <2>1. io' = Copied \/ io' = CloseLogFile(x)
    BY <1>12 DEF MovesOn, x
  <2>2. Keeps(io, io') /\ CopyIn(io', job.cache)
    BY <2>1, <1>3, <1>7, <1>10 DEF Keeps
  <2>3. KeptInv'
    BY <1>1, <1>2, <1>11, <2>2, KeptFrame DEF NothingInv, JobRests, Keeps
  <2>4. job' = [job EXCEPT !.at = "remove"] /\ job'.cache = job.cache
    <3>1. job' = [job EXCEPT !.at = "remove"]
      BY <1>12 DEF MovesOn
    <3>2. job \in [at : {"cache", "append", "remove", "log", "fallback"}, rec : 1..n,
               move : BOOLEAN, day : 0..DayOf(MaxTime), cache : CachePaths, cacheLogs : BOOLEAN]
      BY <1>1, <1>2, JobAt
    <3> QED
      BY <3>1, <3>2
  <2>5. mover'.at # "remove"
    BY <1>1, <1>2, MoverQuiet DEF JobRests
  <2> QED
    BY <2>2, <2>3, <2>4, <2>5 DEF MovesKeep, CopyMade, CopyIn
<1>13. CASE io' = io /\ job' = Idle
  <2>1. KeptInv'
    BY <1>1, <1>2, <1>11, <1>13, KeptFrame DEF NothingInv, JobRests
  <2>2. job'.at # "remove" /\ mover'.at # "remove"
    BY <1>1, <1>2, <1>13, MoverQuiet DEF JobRests, Idle
  <2> QED
    BY <2>1, <2>2, NoMove
<1> QED
  BY <1>1, <1>12, <1>13

\* Removing a file loses what is in it alone.
LEMMA RemoveFileKeeps ==
  ASSUME NEW n \in Nat, NEW x, FileTypes(x, n), NEW p
  PROVE  \A r : Kept(x, r) => \/ Kept(RemoveFile(x, p), r)
                              \/ r \in Range(Content(x, p)) /\ ~Elsewhere(x, r, p)
<1> DEFINE y == RemoveFile(x, p)
<1>1. Removed(x, y, p)
  BY RemoveFileIs DEF FileTypes
<1>2. FileTypes(y, n)
  BY RemoveFileTypes
<1> HIDE DEF y
<1>3. ASSUME NEW r, Elsewhere(x, r, p) PROVE Kept(y, r)
  BY <1>1, <1>3 DEF Removed, Elsewhere, Kept, InFiles
<1>4. ASSUME NEW r, InFiles(x, r), ~Elsewhere(x, r, p) PROVE r \in Range(Content(x, p))
  BY <1>4 DEF InFiles, Elsewhere, Content, Exists
<1>5. ASSUME NEW r, x.handle # None, r \in Range(x.handle.buf) PROVE Kept(y, r)
  <2>1. x.handle \in [path : Paths, linked : BOOLEAN, opened : Times, buf : Seq(1..n)]
    BY <1>5 DEF FileTypes
  <2>2. y.handle = x.handle \/ y.handle = [x.handle EXCEPT !.linked = FALSE]
    BY <1>1 DEF Removed
  <2>3. [x.handle EXCEPT !.linked = FALSE] \in [path : Paths, linked : BOOLEAN, opened : Times, buf : Seq(1..n)]
    BY <2>1, HandleKeeps
  <2>4. y.handle # None
    BY <2>1, <2>2, <2>3, HandleIsOpen
  <2>5. y.handle.buf = x.handle.buf
    BY <2>1, <2>2
  <2> QED
    BY <1>5, <2>4, <2>5 DEF Kept
<1>6. ASSUME NEW r, r \in x.late PROVE Kept(y, r)
  BY <1>1, <1>6 DEF Removed, Kept
<1> QED
  BY <1>3, <1>4, <1>5, <1>6 DEF Kept, y

LEMMA RemoveCacheNothing ==
  ASSUME NothingInv, RemoveCache
  PROVE  KeptInv' /\ MovesKeep'
<1>1. /\ TypesInv /\ job.at = "remove" /\ io' = RemoveFile(io, job.cache) /\ failed' = failed /\ JobRests
      /\ job' = Idle
  BY DEF RemoveCache, NothingInv
<1>2. FileTypes(io, Len(written)) /\ Len(written) \in Nat
  BY <1>1, WrittenLength DEF TypesInv
<1>3. CopyMade(job.cache) /\ Carried = {}
  BY <1>1, CarriedByJob DEF NothingInv, MovesKeep
<1>4. \A r : Kept(io, r) => Kept(io', r) \/ r \in pruned
  BY <1>1, <1>2, <1>3, RemoveFileKeeps DEF CopyMade
<1>5. Gone \subseteq Gone' /\ pruned \subseteq Gone'
  BY <1>1, JobRestsGone DEF Gone, JobRests
<1>6. KeptInv'
  BY <1>1, <1>3, <1>4, <1>5, KeptFrame DEF NothingInv, JobRests
<1>7. job'.at # "remove" /\ mover'.at # "remove"
  BY <1>1, MoverQuiet DEF JobRests, Idle
<1> QED
  BY <1>6, <1>7, NoMove

LEMMA MoverCarried ==
  ASSUME TypesInv, mover.at # "idle", MoverRests
  PROVE  /\ Carried = {} /\ Carried' = {} /\ Gone' = Gone /\ written' = written /\ job'.at # "remove"
         /\ FileTypes(io, Len(written)) /\ Len(written) \in Nat
<1>1. job = Idle /\ job' = Idle
  BY MoverAt DEF MoverRests
<1> QED
  BY <1>1, WrittenLength DEF Carried, Idle, Gone, MoverRests, TypesInv

LEMMA MoverAppendNothing ==
  ASSUME NothingInv, NEW p, MoverAppend(p)
  PROVE  KeptInv' /\ MovesKeep'
<1> DEFINE n == Len(written)
           s == Content(io, p)
           A == AppendTo(io, LogPath(p), s)
<1>1. PICK ok \in MayFail("append") :
        /\ io' = IF ok /\ s # <<>> THEN A ELSE io
        /\ mover' = IF ok THEN [at |-> "remove", todo |-> mover.todo \ {p},
                                start |-> mover.start, path |-> p]
                    ELSE Idle
  BY DEF MoverAppend, LogPath
<1>2. TypesInv /\ mover.at # "idle" /\ mover.at = "scan" /\ p \in mover.todo /\ MoverRests
  BY DEF MoverAppend, NothingInv
<1>3. p \in CachePaths
  BY <1>2, MoverAt
<1>4. /\ Carried = {} /\ Carried' = {} /\ Gone' = Gone /\ written' = written /\ job'.at # "remove"
      /\ FileTypes(io, n) /\ n \in Nat
  BY <1>2, MoverCarried
<1>5. s \in Seq(1..n) /\ LogPath(p) # p
  BY <1>3, <1>4, ContentType, LogPathType
<1>6. Appended(io, A, LogPath(p), s)
  BY <1>4, AppendToIs DEF FileTypes
<1> HIDE DEF n, s, A
<1>7. Grown(io, A, LogPath(p), s)
  BY <1>4, <1>5, <1>6, AppendedGrown
<1>8. Keeps(io, A)
  BY <1>4, <1>5, AppendToKeeps DEF Keeps, A
<1>9. Keeps(io, io')
  BY <1>1, <1>8 DEF Keeps
<1>10. KeptInv'
  BY <1>4, <1>9, KeptFrame DEF NothingInv, Keeps
<1>11. CASE ok
  <2>1. Content(io', p) = s
    <3>1. CASE s # <<>>
      BY <1>1, <1>5, <1>6, <1>11, <3>1 DEF Appended, Content, Exists, s
    <3>2. CASE s = <<>>
      BY <1>1, <3>2 DEF s
    <3> QED
      BY <3>1, <3>2
  <2>2. CopyIn(io', p)
    <3>1. CASE s # <<>>
      BY <1>1, <1>5, <1>7, <1>11, <2>1, <3>1 DEF CopyIn, Elsewhere, Grown
    <3>2. CASE s = <<>>
      BY <2>1, <3>2 DEF CopyIn, Range
    <3> QED
      BY <3>1, <3>2
  <2>3. mover'.path = p
    BY <1>1, <1>11
  <2> QED
    BY <1>4, <1>10, <2>2, <2>3 DEF MovesKeep, CopyMade, CopyIn
<1>12. CASE ~ok
  BY <1>1, <1>4, <1>10, <1>12, NoMove DEF Idle
<1> QED
  BY <1>11, <1>12

LEMMA MoverRemoveNothing ==
  ASSUME NothingInv, MoverRemove
  PROVE  KeptInv' /\ MovesKeep'
<1>1. /\ TypesInv /\ mover.at # "idle" /\ MoverRests /\ mover.at = "remove"
      /\ io' = RemoveFile(io, mover.path) /\ mover'.at # "remove"
  BY DEF MoverRemove, NothingInv
<1>2. /\ Carried = {} /\ Carried' = {} /\ Gone' = Gone /\ written' = written /\ job'.at # "remove"
      /\ FileTypes(io, Len(written)) /\ Len(written) \in Nat
  BY <1>1, MoverCarried
<1>3. CopyMade(mover.path)
  BY <1>1 DEF NothingInv, MovesKeep
<1>4. \A r : Kept(io, r) => Kept(io', r) \/ r \in pruned
  BY <1>1, <1>2, <1>3, RemoveFileKeeps DEF CopyMade
<1>5. KeptInv'
  BY <1>2, <1>4, KeptFrame DEF NothingInv, Gone
<1> QED
  BY <1>1, <1>2, <1>5, NoMove

\* A step that leaves files, blocks and moves alone.
LEMMA IdleStepNothing ==
  ASSUME NothingInv, UNCHANGED <<io, job, written, pruned, failed, crashed>>,
         mover' = mover \/ mover'.at # "remove"
  PROVE  KeptInv' /\ MovesKeep'
<1>1. KeptInv'
  BY DEF NothingInv, KeptInv, Carried, Gone
<1>2. MovesKeep'
  BY DEF NothingInv, MovesKeep, CopyMade
<1> QED
  BY <1>1, <1>2

LEMMA MoverRestNothing ==
  ASSUME NothingInv, MoverStart \/ MoverEnd \/ (\E p : MoverKeep(p))
  PROVE  KeptInv' /\ MovesKeep'
<1>1. UNCHANGED <<io, job, written, pruned, failed, crashed>>
  BY DEF MoverStart, MoverEnd, MoverKeep, MoverRests
<1>2. mover'.at # "remove"
  <2>1. CASE MoverStart \/ MoverEnd
    BY <2>1 DEF MoverStart, MoverEnd, Idle
  <2>2. CASE \E p : MoverKeep(p)
    <3>1. PICK p : MoverKeep(p)
      BY <2>2
    <3>2. mover.at = "scan" /\ mover' = [mover EXCEPT !.todo = @ \ {p}]
      BY <3>1 DEF MoverKeep
    <3>3. mover \in [at : {"scan"}, todo : SUBSET CachePaths, start : Times]
      BY <3>2, MoverAt DEF NothingInv
    <3> QED
      BY <3>2, <3>3
  <2> QED
    BY <2>1, <2>2
<1> QED
  BY <1>1, <1>2, IdleStepNothing

LEMMA PrunerRestNothing ==
  ASSUME NothingInv, (\E dir : PrunerStart(dir)) \/ PrunerEnd \/ (\E p : PrunerCheck(p))
  PROVE  KeptInv' /\ MovesKeep'
<1>1. UNCHANGED <<io, job, mover, written, pruned, failed, crashed>>
  BY DEF PrunerStart, PrunerEnd, PrunerCheck, PrunerRests
<1> QED
  BY <1>1, IdleStepNothing

LEMMA PrunerRemoveNothing ==
  ASSUME NothingInv, PrunerRemove
  PROVE  KeptInv' /\ MovesKeep'
<1> DEFINE q == pruner.path
<1>1. /\ TypesInv /\ pruner.at # "idle" /\ PrunerRests
      /\ pruned' = pruned \cup Range(Content(io, q)) /\ io' = RemoveFile(io, q)
  BY DEF PrunerRemove, NothingInv
<1>2. FileTypes(io, Len(written)) /\ Len(written) \in Nat /\ mover = Idle
  BY <1>1, WrittenLength, PrunerAt DEF TypesInv
<1>3. Removed(io, io', q)
  BY <1>1, <1>2, RemoveFileIs DEF FileTypes
<1> HIDE DEF q
<1>4. \A r : Kept(io, r) => Kept(io', r) \/ r \in Range(Content(io, q))
  BY <1>1, <1>2, RemoveFileKeeps
<1>5. UNCHANGED <<job, mover, written, failed, crashed>>
  BY <1>1 DEF PrunerRests
<1>6. Carried' = Carried /\ Gone \subseteq Gone' /\ pruned' \subseteq Gone'
  BY <1>1, <1>5 DEF Carried, Gone
<1>7. KeptInv'
  BY <1>1, <1>4, <1>5, <1>6, KeptFrame DEF NothingInv
<1>8. ASSUME job.at = "remove" PROVE CopyMade(job.cache)'
  <2> DEFINE c == job.cache
  <2>1. CopyMade(c)
    BY <1>8 DEF NothingInv, MovesKeep
  <2>2. Range(<<>>) = {}
    BY DEF Range
  <2> HIDE DEF c
  <2>3. Content(io', c) = Content(io, c) \/ Content(io', c) = <<>>
    BY <1>3 DEF Removed, Content, Exists
  <2>4. ASSUME NEW r \in Range(Content(io, c)) PROVE Elsewhere(io', r, c) \/ r \in pruned'
    <3>1. CASE r \in pruned \/ r \in io.late
      BY <3>1, <1>1, <1>3 DEF Elsewhere, Removed
    <3>2. CASE \E f \in DOMAIN io.files \ {c} : r \in Range(io.files[f].recs)
      <4>1. PICK f \in DOMAIN io.files \ {c} : r \in Range(io.files[f].recs)
        BY <3>2
      <4>2. CASE f = q
        BY <4>1, <4>2, <1>1 DEF Content, Exists
      <4>3. CASE f # q
        BY <4>1, <4>3, <1>3 DEF Elsewhere, Removed
      <4> QED
        BY <4>2, <4>3
    <3> QED
      BY <2>1, <2>4, <3>1, <3>2 DEF CopyMade, Elsewhere
  <2>5. \A r \in Range(Content(io', c)) : Elsewhere(io', r, c) \/ r \in pruned'
    BY <2>2, <2>3, <2>4
  <2> QED
    BY <2>5, <1>5 DEF CopyMade, c
<1>9. MovesKeep'
  BY <1>2, <1>5, <1>8 DEF MovesKeep, Idle
<1> QED
  BY <1>7, <1>9

LEMMA OpenNothing ==
  ASSUME NothingInv, Open
  PROVE  KeptInv' /\ MovesKeep'
<1> DEFINE L == NeverOpened
<1>1. io' = [io EXCEPT !.last = L] /\ IoShape(io)
      /\ UNCHANGED <<job, mover, written, pruned, failed, crashed>>
  BY WrittenLength DEF Open, NothingInv, ghosts
<1> HIDE DEF L
<1>2. io'.files = io.files /\ io'.handle = io.handle /\ io'.late = io.late
  BY <1>1 DEF IoShape
<1>3. \A r : Kept(io, r) => Kept(io', r)
  BY <1>2 DEF Kept, InFiles
<1>4. Carried' = Carried /\ Gone' = Gone
  BY <1>1 DEF Carried, Gone
<1>5. KeptInv'
  BY <1>1, <1>3, <1>4, KeptFrame DEF NothingInv
<1>6. MovesKeep'
  BY <1>1, <1>2, MovesFrame DEF NothingInv
<1> QED
  BY <1>5, <1>6

LEMMA CloseNothing ==
  ASSUME NothingInv, Close
  PROVE  KeptInv' /\ MovesKeep'
<1>1. io' = CloseLogFile(io) /\ job = Idle /\ mover = Idle
      /\ UNCHANGED <<job, mover, written, pruned, failed, crashed>>
  BY DEF Close, ghosts
<1>2. FileTypes(io, Len(written)) /\ Len(written) \in Nat
  BY WrittenLength DEF NothingInv, TypesInv
<1>3. \A r : Kept(io, r) => Kept(io', r)
  BY <1>1, <1>2, CloseLogFileKeeps DEF Keeps
<1>4. Carried' = Carried /\ Gone' = Gone
  BY <1>1 DEF Carried, Gone
<1>5. KeptInv'
  BY <1>1, <1>3, <1>4, KeptFrame DEF NothingInv
<1> QED
  BY <1>1, <1>5, NoMove DEF Idle

LEMMA CrashNothing ==
  ASSUME NothingInv, Crash
  PROVE  KeptInv' /\ MovesKeep'
<1>1. /\ io' = [io EXCEPT !.handle = None] /\ IoShape(io) /\ job' = Idle /\ mover' = Idle
      /\ crashed' = crashed \cup Carried \cup Unwritten
      /\ UNCHANGED <<written, pruned, failed>>
  BY WrittenLength DEF Crash, NothingInv
<1>2. io'.files = io.files /\ io'.handle = None /\ io'.late = io.late
  BY <1>1 DEF IoShape
<1>3. \A r : Kept(io, r) => Kept(io', r) \/ r \in Unwritten
  BY <1>2 DEF Kept, InFiles, Unwritten
<1>4. Gone \subseteq Gone' /\ Carried \subseteq Gone' /\ Unwritten \subseteq Gone'
  BY <1>1 DEF Gone
<1>5. KeptInv'
  BY <1>1, <1>3, <1>4, KeptFrame DEF NothingInv
<1> QED
  BY <1>1, <1>5, NoMove DEF Idle

LEMMA RestNothing ==
  ASSUME NothingInv, (\E m : SetMode(m)) \/ Tick \/ ClockBack \/ UNCHANGED vars
  PROVE  KeptInv' /\ MovesKeep'
<1>1. UNCHANGED <<io, job, mover, written, pruned, failed, crashed>>
  BY DEF SetMode, Tick, ClockBack, vars, ghosts
<1> QED
  BY <1>1, IdleStepNothing

LEMMA NothingStep == NothingInv /\ [Next]_vars => NothingInv'
<1> SUFFICES ASSUME NothingInv, [Next]_vars PROVE NothingInv'
  OBVIOUS
<1>0. TypesInv'
  BY TypesStep DEF NothingInv
<1>1. CASE Log2File BY <1>1, <1>0, Log2FileNothing DEF NothingInv
<1>2. CASE WriteCache BY <1>2, <1>0, WriteCacheNothing DEF NothingInv
<1>3. CASE AppendCache BY <1>3, <1>0, AppendCacheNothing DEF NothingInv
<1>4. CASE RemoveCache BY <1>4, <1>0, RemoveCacheNothing DEF NothingInv
<1>5. CASE WriteLog BY <1>5, <1>0, WriteLogNothing DEF NothingInv
<1>6. CASE WriteFallback BY <1>6, <1>0, WriteFallbackNothing DEF NothingInv
<1>7. CASE MoverStart \/ MoverEnd \/ (\E p : MoverKeep(p))
  BY <1>7, <1>0, MoverRestNothing DEF NothingInv
<1>8. CASE \E p : MoverAppend(p) BY <1>8, <1>0, MoverAppendNothing DEF NothingInv
<1>9. CASE MoverRemove BY <1>9, <1>0, MoverRemoveNothing DEF NothingInv
<1>10. CASE (\E dir : PrunerStart(dir)) \/ PrunerEnd \/ (\E p : PrunerCheck(p))
  BY <1>10, <1>0, PrunerRestNothing DEF NothingInv
<1>11. CASE PrunerRemove BY <1>11, <1>0, PrunerRemoveNothing DEF NothingInv
<1>12. CASE Open BY <1>12, <1>0, OpenNothing DEF NothingInv
<1>13. CASE Close BY <1>13, <1>0, CloseNothing DEF NothingInv
<1>14. CASE Crash BY <1>14, <1>0, CrashNothing DEF NothingInv
<1>15. CASE (\E m : SetMode(m)) \/ Tick \/ ClockBack \/ UNCHANGED vars
  BY <1>15, <1>0, RestNothing DEF NothingInv
<1> QED
  BY <1>1, <1>2, <1>3, <1>4, <1>5, <1>6, <1>7, <1>8, <1>9, <1>10, <1>11, <1>12, <1>13, <1>14, <1>15 DEF Next

\* No fall-back of __Log2File from one directory to the other and no move loses a
\* block, whichever operations fail and wherever the process dies.
THEOREM LogFilesNothingVanishes == Spec => []NothingVanishes
<1>1. Init => NothingInv
  <2> SUFFICES ASSUME Init PROVE NothingInv
    OBVIOUS
  <2>1. TypesInv
    BY InitTypes
  <2>2. Len(<<>>) = 0 /\ 1..0 = {}
    OBVIOUS
  <2>3. KeptInv /\ MovesKeep
    BY <2>2 DEF Init, KeptInv, MovesKeep, Idle
  <2> QED
    BY <2>1, <2>3 DEF NothingInv
<1>2. NothingInv /\ [Next]_vars => NothingInv'
  BY NothingStep
<1>3. NothingInv => NothingVanishes
  <2> SUFFICES ASSUME NothingInv, NEW r \in 1..Len(written)
               PROVE  r \in Carried \cup OnDisk \cup Unwritten \cup io.late \cup pruned \cup failed \cup crashed
    BY DEF NothingVanishes
  <2>1. r \in Carried \/ Kept(io, r) \/ r \in Gone
    BY DEF NothingInv, KeptInv
  <2>2. InFiles(io, r) => r \in OnDisk
    BY DEF InFiles, OnDisk
  <2> QED
    BY <2>1, <2>2 DEF Kept, Gone, Unwritten
<1> QED
  BY <1>1, <1>2, <1>3, PTL DEF Spec

-----------------------------------------------------------------------------
(* OnlyCrashDuplicates. Between the two halves of a move the file that was *)
(* copied is left out of account (Source).                                 *)

\* No block is in two places of the files, those in src aside.
SingleIn(x, src) ==
  /\ \A p \in DOMAIN x.files : IsInjective(x.files[p].recs)
  /\ \A p, q \in DOMAIN x.files :
       p # q /\ p \notin src /\ q \notin src => Range(x.files[p].recs) \cap Range(x.files[q].recs) = {}

\* Nor is what stdio holds.
SingleHeld(x) ==
  x.handle # None =>
    /\ IsInjective(x.handle.buf)
    /\ \A p \in DOMAIN x.files : Range(x.handle.buf) \cap Range(x.files[p].recs) = {}

Once(x, src) == SingleIn(x, src) /\ SingleHeld(x)

\* Block r is nowhere yet.
Fresh(x, r) == ~InFiles(x, r) /\ (x.handle # None => r \notin Range(x.handle.buf))

\* The file whose copy has been made.
Source == IF job.at = "remove" THEN {job.cache}
          ELSE IF mover.at = "remove" THEN {mover.path} ELSE {}

\* The block in a thread's hands is nowhere yet, and all others are once.
OnceInv == ~torn => Once(io, Source) /\ \A r \in Carried : Fresh(io, r)

LEMMA InjectiveConcat ==
  ASSUME NEW S, NEW s \in Seq(S), NEW t \in Seq(S), IsInjective(s), IsInjective(t),
         Range(s) \cap Range(t) = {}
  PROVE  IsInjective(s \o t)
<1>1. DOMAIN (s \o t) = 1..(Len(s) + Len(t)) /\ DOMAIN s = 1..Len(s) /\ DOMAIN t = 1..Len(t)
  OBVIOUS
<1>2. PICK m \in Nat, n \in Nat : m = Len(s) /\ n = Len(t)
  OBVIOUS
<1> DEFINE c == s \o t
<1>3. \A i \in 1..m : c[i] = s[i]
  BY <1>2
<1>4. \A k \in 1..n : c[m + k] = t[k]
  BY <1>2
<1>5. \A i, j \in 1..m : s[i] = s[j] => i = j
  BY <1>1, <1>2 DEF IsInjective
<1>6. \A i, j \in 1..n : t[i] = t[j] => i = j
  BY <1>1, <1>2 DEF IsInjective
<1>7. \A i \in 1..m, j \in 1..n : s[i] # t[j]
  BY <1>1, <1>2 DEF Range
<1>8. \A i \in 1..(m + n) : i \in 1..m \/ \E k \in 1..n : i = m + k
  <2> SUFFICES ASSUME NEW i \in 1..(m + n), i \notin 1..m PROVE i - m \in 1..n /\ i = m + (i - m)
    OBVIOUS
  <2> QED
    OBVIOUS
<1> HIDE DEF c
<1>9. ASSUME NEW i \in 1..(m + n), NEW j \in 1..(m + n), c[i] = c[j] PROVE i = j
  <2>1. CASE i \in 1..m /\ j \in 1..m
    BY <2>1, <1>3, <1>5, <1>9
  <2>2. CASE i \in 1..m /\ j \notin 1..m
    <3>1. PICK b \in 1..n : j = m + b
      BY <2>2, <1>8
    <3>2. c[i] = s[i] /\ c[j] = t[b] /\ s[i] # t[b]
      BY <2>2, <3>1, <1>3, <1>4, <1>7
    <3> QED
      BY <3>2, <1>9
  <2>3. CASE i \notin 1..m /\ j \in 1..m
    <3>1. PICK b \in 1..n : i = m + b
      BY <2>3, <1>8
    <3>2. c[j] = s[j] /\ c[i] = t[b] /\ s[j] # t[b]
      BY <2>3, <3>1, <1>3, <1>4, <1>7
    <3> QED
      BY <3>2, <1>9
  <2>4. CASE i \notin 1..m /\ j \notin 1..m
    <3>1. PICK a \in 1..n : i = m + a
      BY <2>4, <1>8
    <3>2. PICK b \in 1..n : j = m + b
      BY <2>4, <1>8
    <3>3. t[a] = t[b]
      BY <3>1, <3>2, <1>4, <1>9
    <3> QED
      BY <3>1, <3>2, <3>3, <1>6
  <2> QED
    BY <2>1, <2>2, <2>3, <2>4
<1>10. DOMAIN c = 1..(m + n)
  BY <1>1, <1>2 DEF c
<1> QED
  BY <1>9, <1>10 DEF IsInjective, c

LEMMA InjectiveAppend ==
  ASSUME NEW S, NEW s \in Seq(S), NEW e \in S, IsInjective(s), e \notin Range(s)
  PROVE  IsInjective(Append(s, e))
<1>1. Append(s, e) = s \o <<e>> /\ <<e>> \in Seq(S)
  BY AppendIsConcat
<1>2. Range(<<e>>) = {e} /\ IsInjective(<<e>>)
  BY DEF Range, IsInjective
<1>3. IsInjective(s \o <<e>>)
  BY <1>1, <1>2, InjectiveConcat
<1> QED
  BY <1>1, <1>3

LEMMA AppendToSingle ==
  ASSUME NEW n, NEW x, FileTypes(x, n), NEW p, NEW recs \in Seq(1..n), NEW src, SingleIn(x, src),
         IsInjective(recs), Range(recs) \cap Range(Content(x, p)) = {},
         \A q \in DOMAIN x.files : q # p /\ q \notin src /\ p \notin src =>
           Range(recs) \cap Range(x.files[q].recs) = {}
  PROVE  SingleIn(AppendTo(x, p, recs), src)
<1> DEFINE y == AppendTo(x, p, recs)
<1>1. Appended(x, y, p, recs)
  BY AppendToIs DEF FileTypes
<1> HIDE DEF y
<1>2. Grown(x, y, p, recs)
  BY <1>1, AppendedGrown
<1>3. Content(x, p) \in Seq(1..n)
  BY ContentType
<1>4. IsInjective(Content(x, p))
  <2>1. IsInjective(<<>>)
    BY DEF IsInjective
  <2> QED
    BY <2>1 DEF Content, Exists, SingleIn
<1>5. IsInjective(Content(x, p) \o recs)
  BY <1>3, <1>4, InjectiveConcat
<1>6. y.files[p].recs = Content(x, p) \o recs
  BY <1>1 DEF Appended
<1>7. \A q \in DOMAIN y.files : IsInjective(y.files[q].recs)
  BY <1>1, <1>5, <1>6 DEF Appended, SingleIn
<1>8. ASSUME NEW q \in DOMAIN x.files, q # p, q \notin src, p \notin src
      PROVE  Range(y.files[p].recs) \cap Range(x.files[q].recs) = {}
  <2>1. Range(Content(x, p)) \cap Range(x.files[q].recs) = {}
    <3>1. Range(<<>>) = {}
      BY DEF Range
    <3> QED
      BY <1>8, <3>1 DEF Content, Exists, SingleIn
  <2> QED
    BY <1>2, <1>8, <2>1 DEF Grown
<1>9. ASSUME NEW a \in DOMAIN y.files, NEW b \in DOMAIN y.files, a # b, a \notin src, b \notin src
      PROVE  Range(y.files[a].recs) \cap Range(y.files[b].recs) = {}
  <2>1. CASE a = p
    BY <1>1, <1>8, <1>9, <2>1 DEF Appended
  <2>2. CASE b = p
    BY <1>1, <1>8, <1>9, <2>2 DEF Appended
  <2>3. CASE a # p /\ b # p
    BY <1>1, <1>9, <2>3 DEF Appended, SingleIn
  <2> QED
    BY <2>1, <2>2, <2>3
<1> QED
  BY <1>7, <1>9 DEF SingleIn, y

LEMMA EmptySeqFacts == Range(<<>>) = {} /\ IsInjective(<<>>)
BY DEF Range, IsInjective

\* A step from x to y that repeats no block, and brings no new one.
OnceKept(x, y, src) ==
  /\ Once(x, src) => Once(y, src)
  /\ \A r : Fresh(x, r) => Fresh(y, r)

LEMMA OnceKeptJoins ==
  ASSUME NEW x, NEW y, NEW z, NEW src, OnceKept(x, y, src), OnceKept(y, z, src)
  PROVE  OnceKept(x, z, src)
BY DEF OnceKept

LEMMA DrainOnce ==
  ASSUME NEW n \in Nat, NEW x, FileTypes(x, n), NEW src
  PROVE  OnceKept(x, Drain(x), src)
<1> DEFINE y == Drain(x)
           h == x.handle
           A == AppendTo(x, h.path, h.buf)
<1>1. Drained(x, y)
  BY DrainIs DEF FileTypes
<1>2. CASE h = None \/ h.buf = <<>>
  BY <1>1, <1>2 DEF Drained, OnceKept
<1>3. CASE ~(h = None \/ h.buf = <<>>)
  <2>1. h \in [path : Paths, linked : BOOLEAN, opened : Times, buf : Seq(1..n)] /\ h # None
    BY <1>3 DEF FileTypes
  <2>2. h.buf \in Seq(1..n)
    BY <2>1
  <2>3. y.handle = [h EXCEPT !.buf = <<>>]
    BY <1>1, <1>3 DEF Drained
  <2>4. y.handle.buf = <<>>
    BY <2>1, <2>3
  <2>5. SingleHeld(y)
    BY <2>4, EmptySeqFacts DEF SingleHeld
  <2>6. y.files = x.files \/ y.files = A.files
    BY <1>1, <1>3 DEF Drained
  <2>7. Appended(x, A, h.path, h.buf)
    BY AppendToIs DEF FileTypes
  <2> HIDE DEF A, h, y
  <2>8. Grown(x, A, h.path, h.buf)
    BY <2>2, <2>7, AppendedGrown
  <2>9. ASSUME Once(x, src) PROVE SingleIn(A, src)
    <3>1. IsInjective(h.buf) /\ \A p \in DOMAIN x.files : Range(h.buf) \cap Range(x.files[p].recs) = {}
      BY <2>1, <2>9 DEF Once, SingleHeld, h
    <3>2. Range(h.buf) \cap Range(Content(x, h.path)) = {}
      BY <3>1, EmptySeqFacts DEF Content, Exists
    <3> QED
      BY <2>2, <2>9, <3>1, <3>2, AppendToSingle DEF Once, A
  <2>10. ASSUME NEW r, Fresh(x, r) PROVE ~InFiles(A, r)
    <3>1. r \notin Range(h.buf) /\ ~InFiles(x, r)
      BY <2>1, <2>10 DEF Fresh, h
    <3>2. r \notin Range(Content(x, h.path))
      BY <3>1, EmptySeqFacts DEF Content, Exists, InFiles
    <3> QED
      BY <2>7, <2>8, <3>1, <3>2 DEF InFiles, Appended, Grown
  <2>11. ASSUME Once(x, src) PROVE Once(y, src)
    BY <2>5, <2>6, <2>9, <2>11 DEF Once, SingleIn
  <2>12. ASSUME NEW r, Fresh(x, r) PROVE Fresh(y, r)
    BY <2>4, <2>6, <2>10, <2>12, EmptySeqFacts DEF Fresh, InFiles
  <2> QED
    BY <2>11, <2>12 DEF OnceKept, y
<1> QED
  BY <1>2, <1>3

LEMMA CloseLogFileOnce ==
  ASSUME NEW n \in Nat, NEW x, FileTypes(x, n), NEW src
  PROVE  OnceKept(x, CloseLogFile(x), src)
<1>1. Closed(x, CloseLogFile(x))
  BY CloseLogFileIs DEF FileTypes
<1>2. OnceKept(x, Drain(x), src)
  BY DrainOnce
<1>3. SingleIn(Drain(x), src) => SingleIn(CloseLogFile(x), src)
  BY <1>1 DEF Closed, SingleIn
<1>4. SingleHeld(CloseLogFile(x))
  BY <1>1 DEF Closed, SingleHeld
<1>5. \A r : Fresh(Drain(x), r) => Fresh(CloseLogFile(x), r)
  BY <1>1 DEF Closed, Fresh, InFiles
<1> QED
  BY <1>2, <1>3, <1>4, <1>5 DEF OnceKept, Once

LEMMA OpenLogFileOnce ==
  ASSUME NEW n \in Nat, FileTypes(io, n), now \in Times, NEW dir \in {"cache", "log"}, NEW ok \in BOOLEAN,
         NEW src
  PROVE  OnceKept(io, OpenLogFile(dir, ok), src)
<1> DEFINE y == OpenLogFile(dir, ok)
           C == CloseLogFile(io)
           P == OpenPath(dir)
           A == AppendTo(C, P, <<>>)
<1>1. OpenedLog(y, dir, ok)
  BY OpenLogFileIs DEF FileTypes
<1>2. CASE SameDay(io) /\ y = io
  BY <1>2 DEF OnceKept
<1>3. CASE ~(SameDay(io) /\ y = io)
  <2>1. /\ y.files = Touch(C, P).files \/ y.files = C.files
        /\ y.handle = Opened(P) \/ y.handle = None
    BY <1>1, <1>3 DEF OpenedLog
  <2>2. FileTypes(C, n) /\ C.handle = None /\ OnceKept(io, C, src)
    BY CloseLogFileTypes, CloseLogFileOnce
  <2>3. <<>> \in Seq(1..n)
    OBVIOUS
  <2> HIDE DEF C, P, y
  <2>4. Appended(C, A, P, <<>>)
    BY <2>2, AppendToIs DEF FileTypes
  <2> HIDE DEF A
  <2>5. Grown(C, A, P, <<>>)
    BY <2>2, <2>3, <2>4, AppendedGrown
  <2>6. SingleIn(C, src) => SingleIn(A, src)
    BY <2>2, <2>3, EmptySeqFacts, AppendToSingle DEF A
  <2>7. ASSUME NEW r, ~InFiles(C, r) PROVE ~InFiles(A, r)
    <3>1. r \notin Range(Content(C, P))
      BY <2>7, EmptySeqFacts DEF Content, Exists, InFiles
    <3> QED
      BY <2>4, <2>5, <2>7, <3>1, EmptySeqFacts DEF InFiles, Appended, Grown
  <2>8. y.files = A.files \/ y.files = C.files
    BY <2>1 DEF Touch, A
  <2>9. y.handle # None => y.handle.buf = <<>>
    BY <2>1 DEF Opened
  <2>10. SingleHeld(y)
    BY <2>9, EmptySeqFacts DEF SingleHeld
  <2>11. Once(C, src) => Once(y, src)
    BY <2>6, <2>8, <2>10 DEF Once, SingleIn
  <2>12. \A r : Fresh(C, r) => Fresh(y, r)
    BY <2>7, <2>8, <2>9, EmptySeqFacts DEF Fresh, InFiles
  <2>13. OnceKept(C, y, src)
    BY <2>11, <2>12 DEF OnceKept
  <2> QED
    BY <2>2, <2>13, OnceKeptJoins DEF y
<1> QED
  BY <1>2, <1>3

LEMMA BufferedOnce ==
  ASSUME NEW n \in Nat, NEW x, FileTypes(x, n), x.handle # None, NEW rec \in 1..n, NEW src,
         Once(x, src), Fresh(x, rec)
  PROVE  Once(Buffered(x, rec), src)
<1> DEFINE y == Buffered(x, rec)
           h == x.handle
<1>1. TakesBlock(x, y, rec)
  BY BufferedIs DEF FileTypes
<1>2. h \in [path : Paths, linked : BOOLEAN, opened : Times, buf : Seq(1..n)]
  BY DEF FileTypes
<1>3. h.buf \in Seq(1..n)
  BY <1>2
<1>4. IsInjective(h.buf) /\ rec \notin Range(h.buf)
  BY DEF Once, SingleHeld, Fresh
<1>5. IsInjective(Append(h.buf, rec)) /\ Range(Append(h.buf, rec)) = Range(h.buf) \cup {rec}
  BY <1>3, <1>4, InjectiveAppend, RangeAppend
<1> HIDE DEF y
<1>6. y.handle.buf = Append(h.buf, rec)
  BY <1>1, <1>2 DEF TakesBlock
<1>7. y.files = x.files
  BY <1>1 DEF TakesBlock
<1>8. \A p \in DOMAIN x.files : Range(h.buf) \cap Range(x.files[p].recs) = {} /\ rec \notin Range(x.files[p].recs)
  BY DEF Once, SingleHeld, Fresh, InFiles
<1> HIDE DEF h
<1>9. SingleHeld(y)
  BY <1>5, <1>6, <1>7, <1>8 DEF SingleHeld
<1> QED
  BY <1>7, <1>9 DEF Once, SingleIn, y

LEMMA WriteFileOnce ==
  ASSUME NEW n \in Nat, NEW x, FileTypes(x, n), x.handle # None, NEW rec \in 1..n,
         now \in Times, NEW ok, NEW spills, NEW src, Once(x, src), Fresh(x, rec)
  PROVE  Once(WriteFile(x, rec, ok, spills), src)
<1> DEFINE s == Spilled(x, spills)
           t == Took(x, rec, ok, spills)
<1>1. FileTypes(s, n)
  BY DrainTypes DEF Spilled
<1>2. OnceKept(x, s, src)
  BY DrainOnce DEF Spilled, OnceKept
<1>3. s.handle # None
  <2>1. x.handle \in [path : Paths, linked : BOOLEAN, opened : Times, buf : Seq(1..n)]
    BY DEF FileTypes
  <2>2. s.handle = x.handle \/ s.handle = [x.handle EXCEPT !.buf = <<>>]
    BY SpilledKeepsHandle, Zenon
  <2>3. [x.handle EXCEPT !.buf = <<>>] \in [path : Paths, linked : BOOLEAN, opened : Times, buf : Seq(1..n)]
    BY <2>1, HandleKeeps
  <2> QED
    BY <2>1, <2>2, <2>3, HandleIsOpen
<1> HIDE DEF s
<1>4. Once(s, src) /\ Fresh(s, rec)
  BY <1>2 DEF OnceKept
<1>5. Once(Buffered(s, rec), src) /\ FileTypes(Buffered(s, rec), n)
  BY <1>1, <1>3, <1>4, BufferedOnce, BufferedTypes
<1>6. Once(t, src) /\ FileTypes(t, n)
  BY <1>1, <1>4, <1>5 DEF Took, s
<1> HIDE DEF t
<1>7. OnceKept(t, CloseLogFile(t), src)
  BY <1>6, CloseLogFileOnce
<1> QED
  BY <1>6, <1>7, WriteFileIs DEF OnceKept, t

LEMMA RemoveFileOnce ==
  ASSUME NEW n \in Nat, NEW x, FileTypes(x, n), NEW p, NEW src, Once(x, src)
  PROVE  /\ Once(RemoveFile(x, p), src)
         /\ src = {p} => Once(RemoveFile(x, p), {})
         /\ \A r : Fresh(x, r) => Fresh(RemoveFile(x, p), r)
<1> DEFINE y == RemoveFile(x, p)
<1>1. Removed(x, y, p)
  BY RemoveFileIs DEF FileTypes
<1> HIDE DEF y
<1>2. SingleIn(y, src) /\ (src = {p} => SingleIn(y, {}))
  BY <1>1 DEF Removed, Once, SingleIn
<1>3. y.handle # None => x.handle # None /\ y.handle.buf = x.handle.buf
  <2> SUFFICES ASSUME y.handle # None PROVE x.handle # None /\ y.handle.buf = x.handle.buf
    OBVIOUS
  <2>1. x.handle # None
    BY <1>1 DEF Removed
  <2>2. x.handle \in [path : Paths, linked : BOOLEAN, opened : Times, buf : Seq(1..n)]
    BY <2>1 DEF FileTypes
  <2>3. y.handle = x.handle \/ y.handle = [x.handle EXCEPT !.linked = FALSE]
    BY <1>1 DEF Removed
  <2> QED
    BY <2>1, <2>2, <2>3
<1>4. SingleHeld(y)
  BY <1>1, <1>3 DEF Removed, Once, SingleHeld
<1>5. \A r : Fresh(x, r) => Fresh(y, r)
  BY <1>1, <1>3 DEF Removed, Fresh, InFiles
<1> QED
  BY <1>2, <1>4, <1>5 DEF Once, y

\* The inductive invariant.
SingleInv == TypesInv /\ OnceInv

LEMMA NoSource ==
  ASSUME job.at # "remove", mover.at # "remove" PROVE Source = {}
BY DEF Source

LEMMA NoSourceAfter ==
  ASSUME job'.at # "remove", mover'.at # "remove" PROVE Source' = {}
BY DEF Source

LEMMA Log2FileSingle ==
  ASSUME SingleInv, Log2File
  PROVE  OnceInv'
<1> DEFINE n == Len(written)
<1>1. /\ io' = io /\ torn' = torn /\ job = Idle /\ mover = Idle /\ mover' = mover
      /\ job'.rec = n + 1 /\ job'.at \in {"cache", "log"}
  BY DEF Log2File
<1>2. n \in Nat /\ FileTypes(io, n)
  BY WrittenLength DEF SingleInv, TypesInv
<1>3. Source = {} /\ Source' = {}
  BY <1>1, NoSource, NoSourceAfter DEF Idle
<1>4. Carried' = {n + 1}
  BY <1>1 DEF Carried
<1>5. n + 1 \notin 1..n
  BY <1>2
<1> HIDE DEF n
<1>6. \A p \in DOMAIN io.files : Range(io.files[p].recs) \subseteq 1..n
  <2> SUFFICES ASSUME NEW p \in DOMAIN io.files PROVE Range(io.files[p].recs) \subseteq 1..n
    OBVIOUS
  <2>1. io.files[p] \in [recs : Seq(1..n), mtime : Times]
    BY <1>2 DEF FileTypes
  <2>2. io.files[p].recs \in Seq(1..n)
    BY <2>1
  <2> QED
    BY <2>2, RangeType
<1>7. io.handle # None => Range(io.handle.buf) \subseteq 1..n
  BY <1>2, UnwrittenType DEF Unwritten
<1>8. Fresh(io, n + 1)
  BY <1>5, <1>6, <1>7 DEF Fresh, InFiles
<1> QED
  BY <1>1, <1>3, <1>4, <1>8 DEF SingleInv, OnceInv

\* The state in which a __Log2File writes.
LEMMA JobSource ==
  ASSUME TypesInv, job.at \in {"cache", "log", "fallback", "append"}, JobRests, job'.at # "remove"
  PROVE  Source = {} /\ Source' = {} /\ torn' = torn
<1>1. mover.at = "idle" /\ mover' = mover
  BY MoverQuiet DEF JobRests
<1> QED
  BY <1>1, NoSource, NoSourceAfter DEF JobRests

LEMMA WriteCacheSingle ==
  ASSUME SingleInv, WriteCache
  PROVE  OnceInv'
<1> DEFINE n == Len(written)
<1>1. PICK openOk \in MayFail("open"), writeOk \in MayFail("write"), spills \in {FALSE, mode = "sync"} :
        LET x == OpenLogFile("cache", openOk) IN
        \/ /\ x.handle = None
           /\ io' = x /\ job' = [job EXCEPT !.at = "log"]
        \/ /\ x.handle # None
           /\ io' = WriteFile(x, job.rec, writeOk, spills)
           /\ job' = IF job.cacheLogs \/ ~job.move THEN Idle ELSE [job EXCEPT !.at = "append"]
  BY DEF WriteCache
<1> DEFINE x == OpenLogFile("cache", openOk)
<1>2. TypesInv /\ job.at = "cache" /\ JobRests /\ n \in Nat /\ FileTypes(io, n) /\ now \in Times
  BY WrittenLength DEF WriteCache, TypesInv, SingleInv
<1>3. /\ job.rec \in 1..n
      /\ job \in [at : {"cache", "append", "remove", "log", "fallback"}, rec : 1..n,
               move : BOOLEAN, day : 0..DayOf(MaxTime), cache : CachePaths, cacheLogs : BOOLEAN]
  BY <1>2, JobAt
<1>4. FileTypes(x, n) /\ OnceKept(io, x, {})
  BY <1>2, MayFailBoolean, OpenLogFileTypes, OpenLogFileOnce
<1>5. job'.at \in {"log", "idle", "append"}
  BY <1>1, <1>3 DEF Idle
<1>6. Source = {} /\ Source' = {} /\ torn' = torn
  BY <1>2, <1>5, JobSource
<1>7. SUFFICES ASSUME ~torn PROVE Once(io', {}) /\ \A r \in Carried' : Fresh(io', r)
  BY <1>6 DEF OnceInv
<1>8. Once(io, {}) /\ Fresh(io, job.rec)
  BY <1>2, <1>6, <1>7 DEF SingleInv, OnceInv, Carried
<1> HIDE DEF x
<1>9. Once(x, {}) /\ Fresh(x, job.rec)
  BY <1>4, <1>8 DEF OnceKept
<1>10. CASE x.handle = None
  <2>1. io' = x /\ job'.rec = job.rec
    BY <1>1, <1>3, <1>10 DEF x
  <2> QED
    BY <1>9, <2>1 DEF Carried
<1>11. CASE x.handle # None
  <2>1. io' = WriteFile(x, job.rec, writeOk, spills) /\ job'.at \in {"idle", "append"}
    BY <1>1, <1>3, <1>11 DEF x, Idle
  <2>2. Once(io', {})
    BY <1>2, <1>3, <1>4, <1>9, <1>11, <2>1, WriteFileOnce
  <2>3. Carried' = {}
    BY <2>1 DEF Carried
  <2> QED
    BY <2>2, <2>3
<1> QED
  BY <1>10, <1>11

LEMMA WriteLogSingle ==
  ASSUME SingleInv, WriteLog
  PROVE  OnceInv'
<1> DEFINE n == Len(written)
<1>1. PICK openOk \in MayFail("open"), writeOk \in MayFail("write"), spills \in {FALSE, mode = "sync"} :
        LET x == OpenLogFile("log", openOk) IN
        /\ io' = IF x.handle = None THEN x
                 ELSE IF writeOk THEN WriteFile(x, job.rec, TRUE, spills) ELSE CloseLogFile(x)
        /\ job' = IF x.handle # None /\ writeOk THEN Idle ELSE [job EXCEPT !.at = "fallback"]
  BY DEF WriteLog
<1> DEFINE x == OpenLogFile("log", openOk)
<1>2. TypesInv /\ job.at = "log" /\ JobRests /\ n \in Nat /\ FileTypes(io, n) /\ now \in Times
  BY WrittenLength DEF WriteLog, TypesInv, SingleInv
<1>3. /\ job.rec \in 1..n
      /\ job \in [at : {"cache", "append", "remove", "log", "fallback"}, rec : 1..n,
               move : BOOLEAN, day : 0..DayOf(MaxTime), cache : CachePaths, cacheLogs : BOOLEAN]
  BY <1>2, JobAt
<1>4. FileTypes(x, n) /\ OnceKept(io, x, {})
  BY <1>2, MayFailBoolean, OpenLogFileTypes, OpenLogFileOnce
<1>5. job'.at \in {"idle", "fallback"}
  BY <1>1, <1>3 DEF Idle
<1>6. Source = {} /\ Source' = {} /\ torn' = torn
  BY <1>2, <1>5, JobSource
<1>7. SUFFICES ASSUME ~torn PROVE Once(io', {}) /\ \A r \in Carried' : Fresh(io', r)
  BY <1>6 DEF OnceInv
<1>8. Once(io, {}) /\ Fresh(io, job.rec)
  BY <1>2, <1>6, <1>7 DEF SingleInv, OnceInv, Carried
<1> HIDE DEF x
<1>9. Once(x, {}) /\ Fresh(x, job.rec)
  BY <1>4, <1>8 DEF OnceKept
<1>10. CASE x.handle # None /\ writeOk
  <2>1. io' = WriteFile(x, job.rec, TRUE, spills) /\ job'.at = "idle"
    BY <1>1, <1>10 DEF x, Idle
  <2>2. Once(io', {})
    BY <1>2, <1>3, <1>4, <1>9, <1>10, <2>1, WriteFileOnce
  <2>3. Carried' = {}
    BY <2>1 DEF Carried
  <2> QED
    BY <2>2, <2>3
<1>11. CASE ~(x.handle # None /\ writeOk)
  <2>1. (io' = x \/ io' = CloseLogFile(x)) /\ job'.rec = job.rec
    BY <1>1, <1>3, <1>11 DEF x
  <2>2. OnceKept(x, CloseLogFile(x), {})
    BY <1>2, <1>4, CloseLogFileOnce
  <2> QED
    BY <1>9, <2>1, <2>2 DEF Carried, OnceKept
<1> QED
  BY <1>10, <1>11

LEMMA WriteFallbackSingle ==
  ASSUME SingleInv, WriteFallback
  PROVE  OnceInv'
<1> DEFINE n == Len(written)
<1>1. PICK openOk \in MayFail("open"), writeOk \in MayFail("write"), spills \in {FALSE, mode = "sync"} :
        LET x == OpenLogFile("cache", openOk) IN
        io' = IF x.handle = None THEN x ELSE WriteFile(x, job.rec, writeOk, spills)
  BY DEF WriteFallback
<1> DEFINE x == OpenLogFile("cache", openOk)
<1>2. TypesInv /\ job.at = "fallback" /\ JobRests /\ job' = Idle
      /\ n \in Nat /\ FileTypes(io, n) /\ now \in Times
  BY WrittenLength DEF WriteFallback, TypesInv, SingleInv
<1>3. job.rec \in 1..n
  BY <1>2, JobAt
<1>4. FileTypes(x, n) /\ OnceKept(io, x, {})
  BY <1>2, MayFailBoolean, OpenLogFileTypes, OpenLogFileOnce
<1>5. Source = {} /\ Source' = {} /\ torn' = torn
  BY <1>2, JobSource DEF Idle
<1>6. SUFFICES ASSUME ~torn PROVE Once(io', {})
  BY <1>2, <1>5 DEF OnceInv, Carried, Idle
<1>7. Once(io, {}) /\ Fresh(io, job.rec)
  BY <1>2, <1>5, <1>6 DEF SingleInv, OnceInv, Carried
<1> HIDE DEF x
<1>8. Once(x, {}) /\ Fresh(x, job.rec)
  BY <1>4, <1>7 DEF OnceKept
<1>9. CASE x.handle = None
  BY <1>1, <1>8, <1>9 DEF x
<1>10. CASE x.handle # None
  BY <1>1, <1>2, <1>3, <1>4, <1>8, <1>10, WriteFileOnce DEF x
<1> QED
  BY <1>9, <1>10

\* The first half of a move.
LEMMA CopyOnce ==
  ASSUME NEW n \in Nat, NEW x, FileTypes(x, n), Once(x, {}), NEW c, NEW p, p # c
  PROVE  Once(x, {c}) /\ Once(AppendTo(x, p, Content(x, c)), {c})
<1> DEFINE s == Content(x, c)
           y == AppendTo(x, p, s)
<1>1. s \in Seq(1..n) /\ Content(x, p) \in Seq(1..n)
  BY ContentType
<1>2. Appended(x, y, p, s)
  BY AppendToIs DEF FileTypes
<1>3. Once(x, {c})
  BY DEF Once, SingleIn
<1>4. IsInjective(s) /\ Range(s) \cap Range(Content(x, p)) = {}
  BY EmptySeqFacts DEF Content, Exists, Once, SingleIn
<1>5. \A q \in DOMAIN x.files : q # p /\ q \notin {c} /\ p \notin {c} =>
           Range(s) \cap Range(x.files[q].recs) = {}
  BY EmptySeqFacts DEF Content, Exists, Once, SingleIn
<1>6. x.handle # None => Range(x.handle.buf) \cap Range(s) = {} /\ Range(x.handle.buf) \cap Range(Content(x, p)) = {}
  BY EmptySeqFacts DEF Content, Exists, Once, SingleHeld
<1> HIDE DEF s, y
<1>7. Grown(x, y, p, s)
  BY <1>1, <1>2, AppendedGrown
<1>8. SingleIn(y, {c})
  BY <1>1, <1>3, <1>4, <1>5, AppendToSingle DEF Once, y
<1>9. ASSUME x.handle # None, NEW q \in DOMAIN y.files
      PROVE  Range(x.handle.buf) \cap Range(y.files[q].recs) = {}
  <2>1. CASE q = p
    BY <1>6, <1>7, <1>9, <2>1 DEF Grown
  <2>2. CASE q # p
    BY <1>2, <1>9, <2>2 DEF Once, SingleHeld, Appended
  <2> QED
    BY <2>1, <2>2
<1>10. SingleHeld(y)
  BY <1>2, <1>9 DEF Once, SingleHeld, Appended
<1> QED
  BY <1>3, <1>8, <1>10 DEF Once, y, s

LEMMA AppendCacheSingle ==
  ASSUME SingleInv, AppendCache
  PROVE  OnceInv'
<1> DEFINE n == Len(written)
           c == job.cache
           x == WithLate(Copied, HeldOfCache)
<1>1. /\ job.at = "append" /\ JobRests
      /\ MovesOn \/ (io' = io /\ job' = Idle)
  BY AppendCacheIs
<1>2. TypesInv /\ n \in Nat /\ FileTypes(io, n) /\ now \in Times
  BY WrittenLength DEF TypesInv, SingleInv
<1>3. mover.at = "idle" /\ mover' = mover /\ torn' = torn
  BY <1>1, <1>2, MoverQuiet DEF JobRests
<1>4. Source = {} /\ Carried = {}
  BY <1>1, <1>3, NoSource DEF Carried
<1>5. CASE io' = io /\ job' = Idle
  <2>1. Source' = {} /\ Carried' = {}
    BY <1>3, <1>5, NoSourceAfter DEF Carried, Idle
  <2> QED
    BY <1>3, <1>4, <1>5, <2>1 DEF SingleInv, OnceInv
<1>6. CASE MovesOn
  <2>1. /\ job' = [job EXCEPT !.at = "remove"]
        /\ io' = Copied \/ io' = CloseLogFile(x)
    BY <1>6 DEF MovesOn
  <2>2. /\ c \in CachePaths
        /\ job \in [at : {"cache", "append", "remove", "log", "fallback"}, rec : 1..n,
               move : BOOLEAN, day : 0..DayOf(MaxTime), cache : CachePaths, cacheLogs : BOOLEAN]
    BY <1>1, <1>2, JobAt
  <2>3. job'.at = "remove" /\ job'.cache = c
    BY <2>1, <2>2
  <2>4. Source' = {c} /\ Carried' = {}
    BY <2>3 DEF Source, Carried
  <2>5. SUFFICES ASSUME ~torn PROVE Once(io', {c})
    BY <1>3, <2>4 DEF OnceInv
  <2>6. Once(io, {})
    BY <1>4, <2>5 DEF SingleInv, OnceInv
  <2>7. MoveTarget # c
    BY <2>2, CachePathIsPath DEF MoveTarget, LogFileName, Path
  <2>8. Once(Copied, {c})
    BY <1>2, <2>6, <2>7, CopyOnce DEF Copied
  <2>9. FileTypes(Copied, n)
    BY <1>1, <1>2, CopiedTypes
  <2>10. IoShape(x) /\ x.files = Copied.files /\ x.handle = Copied.handle
    BY <2>9, WithLateIs DEF FileTypes
  <2>11. FileTypes(x, n)
    <3>1. HeldOfCache \subseteq 1..n
      BY <1>2, UnwrittenType DEF HeldOfCache
    <3> QED
      BY <2>9, <3>1, WithLateTypes
  <2> HIDE DEF x
  <2>12. Once(x, {c})
    BY <2>8, <2>10 DEF Once, SingleIn, SingleHeld
  <2>13. Once(CloseLogFile(x), {c})
    BY <1>2, <2>11, <2>12, CloseLogFileOnce DEF OnceKept
  <2> QED
    BY <2>1, <2>8, <2>13
<1> QED
  BY <1>1, <1>5, <1>6

LEMMA RemoveCacheSingle ==
  ASSUME SingleInv, RemoveCache
  PROVE  OnceInv'
<1>1. /\ TypesInv /\ job.at = "remove" /\ io' = RemoveFile(io, job.cache) /\ JobRests
      /\ job' = Idle
  BY DEF RemoveCache, SingleInv
<1>2. FileTypes(io, Len(written)) /\ Len(written) \in Nat
  BY <1>1, WrittenLength DEF TypesInv
<1>3. mover.at = "idle" /\ mover' = mover /\ torn' = torn
  BY <1>1, MoverQuiet DEF JobRests
<1>4. Source = {job.cache} /\ Source' = {} /\ Carried' = {}
  BY <1>1, <1>3 DEF Source, Carried, Idle
<1> QED
  BY <1>1, <1>2, <1>3, <1>4, RemoveFileOnce DEF SingleInv, OnceInv

LEMMA MoverAppendSingle ==
  ASSUME SingleInv, NEW p, MoverAppend(p)
  PROVE  OnceInv'
<1>1. PICK ok \in MayFail("append") :
        /\ io' = IF ok /\ Content(io, p) # <<>> THEN AppendTo(io, LogPath(p), Content(io, p)) ELSE io
        /\ mover' = IF ok THEN [at |-> "remove", todo |-> mover.todo \ {p},
                                start |-> mover.start, path |-> p]
                    ELSE Idle
  BY DEF MoverAppend, LogPath
<1>2. TypesInv /\ mover.at # "idle" /\ mover.at = "scan" /\ p \in mover.todo /\ MoverRests
  BY DEF MoverAppend, SingleInv
<1>3. p \in CachePaths /\ job = Idle /\ job' = Idle /\ torn' = torn
  BY <1>2, MoverAt DEF MoverRests
<1>4. FileTypes(io, Len(written)) /\ Len(written) \in Nat /\ LogPath(p) # p
  BY <1>2, <1>3, WrittenLength, LogPathType DEF TypesInv
<1>5. Source = {} /\ Carried' = {}
  BY <1>2, <1>3 DEF Source, Carried, Idle
<1>6. SUFFICES ASSUME ~torn PROVE Once(io', Source')
  BY <1>3, <1>5 DEF OnceInv
<1>7. Once(io, {})
  BY <1>5, <1>6 DEF SingleInv, OnceInv
<1>8. Once(io, {p}) /\ Once(AppendTo(io, LogPath(p), Content(io, p)), {p})
  BY <1>4, <1>7, CopyOnce
<1>9. CASE ok
  <2>1. mover'.at = "remove" /\ mover'.path = p
    BY <1>1, <1>9
  <2>2. Source' = {p}
    BY <1>3, <2>1 DEF Source, Idle
  <2> QED
    BY <1>1, <1>8, <2>2
<1>10. CASE ~ok
  <2>1. Source' = {} /\ io' = io
    BY <1>1, <1>3, <1>10 DEF Source, Idle
  <2> QED
    BY <1>7, <2>1
<1> QED
  BY <1>9, <1>10

LEMMA MoverRemoveSingle ==
  ASSUME SingleInv, MoverRemove
  PROVE  OnceInv'
<1>1. /\ TypesInv /\ mover.at # "idle" /\ MoverRests /\ mover.at = "remove"
      /\ io' = RemoveFile(io, mover.path) /\ mover'.at = "scan"
  BY DEF MoverRemove, SingleInv
<1>2. FileTypes(io, Len(written)) /\ Len(written) \in Nat
  BY <1>1, WrittenLength DEF TypesInv
<1>3. job = Idle /\ job' = Idle /\ torn' = torn
  BY <1>1, MoverAt DEF MoverRests
<1>4. Source = {mover.path} /\ Source' = {} /\ Carried' = {}
  BY <1>1, <1>3 DEF Source, Carried, Idle
<1> QED
  BY <1>1, <1>2, <1>3, <1>4, RemoveFileOnce DEF SingleInv, OnceInv

LEMMA IdleStepSingle ==
  ASSUME SingleInv, UNCHANGED <<io, job, torn>>,
         mover' = mover \/ (mover.at # "remove" /\ mover'.at # "remove")
  PROVE  OnceInv'
<1>1. Source' = Source /\ Carried' = Carried
  BY DEF Source, Carried
<1> QED
  BY <1>1 DEF SingleInv, OnceInv

LEMMA MoverRestSingle ==
  ASSUME SingleInv, MoverStart \/ MoverEnd \/ (\E p : MoverKeep(p))
  PROVE  OnceInv'
<1>1. UNCHANGED <<io, job, torn>>
  BY DEF MoverStart, MoverEnd, MoverKeep, MoverRests
<1>2. mover.at # "remove" /\ mover'.at # "remove"
  <2>1. CASE MoverStart \/ MoverEnd
    BY <2>1 DEF MoverStart, MoverEnd, Idle
  <2>2. CASE \E p : MoverKeep(p)
    <3>1. PICK p : MoverKeep(p)
      BY <2>2
    <3>2. mover.at = "scan" /\ mover' = [mover EXCEPT !.todo = @ \ {p}]
      BY <3>1 DEF MoverKeep
    <3>3. mover \in [at : {"scan"}, todo : SUBSET CachePaths, start : Times]
      BY <3>2, MoverAt DEF SingleInv
    <3> QED
      BY <3>2, <3>3
  <2> QED
    BY <2>1, <2>2
<1> QED
  BY <1>1, <1>2, IdleStepSingle

LEMMA PrunerRemoveSingle ==
  ASSUME SingleInv, PrunerRemove
  PROVE  OnceInv'
<1>1. /\ TypesInv /\ PrunerRests /\ io' = RemoveFile(io, pruner.path)
  BY DEF PrunerRemove, SingleInv
<1>2. FileTypes(io, Len(written)) /\ Len(written) \in Nat
  BY <1>1, WrittenLength DEF TypesInv
<1>3. Source' = Source /\ Carried' = Carried /\ torn' = torn
  BY <1>1 DEF PrunerRests, Source, Carried
<1> QED
  BY <1>1, <1>2, <1>3, RemoveFileOnce DEF SingleInv, OnceInv

LEMMA OpenSingle ==
  ASSUME SingleInv, Open
  PROVE  OnceInv'
<1> DEFINE L == NeverOpened
<1>1. io' = [io EXCEPT !.last = L] /\ IoShape(io) /\ UNCHANGED <<job, mover, torn>>
  BY WrittenLength DEF Open, SingleInv, ghosts
<1> HIDE DEF L
<1>2. io'.files = io.files /\ io'.handle = io.handle
  BY <1>1 DEF IoShape
<1>3. Source' = Source /\ Carried' = Carried
  BY <1>1 DEF Source, Carried
<1> QED
  BY <1>1, <1>2, <1>3 DEF SingleInv, OnceInv, Once, SingleIn, SingleHeld, Fresh, InFiles

LEMMA CloseSingle ==
  ASSUME SingleInv, Close
  PROVE  OnceInv'
<1>1. io' = CloseLogFile(io) /\ UNCHANGED <<job, mover, torn>>
  BY DEF Close, ghosts
<1>2. FileTypes(io, Len(written)) /\ Len(written) \in Nat
  BY WrittenLength DEF SingleInv, TypesInv
<1>3. OnceKept(io, io', Source)
  BY <1>1, <1>2, CloseLogFileOnce
<1>4. Source' = Source /\ Carried' = Carried
  BY <1>1 DEF Source, Carried
<1> QED
  BY <1>1, <1>3, <1>4 DEF SingleInv, OnceInv, OnceKept

LEMMA CrashSingle ==
  ASSUME SingleInv, Crash
  PROVE  OnceInv'
<1>1. /\ io' = [io EXCEPT !.handle = None] /\ IoShape(io) /\ job' = Idle /\ mover' = Idle
      /\ torn' = (torn \/ "remove" \in {job.at, mover.at})
  BY WrittenLength DEF Crash, SingleInv
<1>2. io'.files = io.files /\ io'.handle = None
  BY <1>1 DEF IoShape
<1>3. SUFFICES ASSUME ~torn' PROVE Once(io', {})
  BY <1>1 DEF OnceInv, Source, Carried, Idle
<1>4. job.at # "remove" /\ mover.at # "remove" /\ ~torn
  BY <1>1, <1>3
<1>5. Once(io, {})
  BY <1>4, NoSource DEF SingleInv, OnceInv
<1> QED
  BY <1>2, <1>5 DEF Once, SingleIn, SingleHeld

LEMMA RestSingle ==
  ASSUME SingleInv,
         \/ (\E dir : PrunerStart(dir)) \/ PrunerEnd \/ (\E p : PrunerCheck(p))
         \/ (\E m : SetMode(m)) \/ Tick \/ ClockBack \/ UNCHANGED vars
  PROVE  OnceInv'
<1>1. UNCHANGED <<io, job, mover, torn>>
  BY DEF PrunerStart, PrunerEnd, PrunerCheck, PrunerRests, SetMode, Tick, ClockBack, vars, ghosts
<1> QED
  BY <1>1, IdleStepSingle

LEMMA SingleStep == SingleInv /\ [Next]_vars => SingleInv'
<1> SUFFICES ASSUME SingleInv, [Next]_vars PROVE SingleInv'
  OBVIOUS
<1>0. TypesInv'
  BY TypesStep DEF SingleInv
<1>1. CASE Log2File BY <1>1, <1>0, Log2FileSingle DEF SingleInv
<1>2. CASE WriteCache BY <1>2, <1>0, WriteCacheSingle DEF SingleInv
<1>3. CASE AppendCache BY <1>3, <1>0, AppendCacheSingle DEF SingleInv
<1>4. CASE RemoveCache BY <1>4, <1>0, RemoveCacheSingle DEF SingleInv
<1>5. CASE WriteLog BY <1>5, <1>0, WriteLogSingle DEF SingleInv
<1>6. CASE WriteFallback BY <1>6, <1>0, WriteFallbackSingle DEF SingleInv
<1>7. CASE MoverStart \/ MoverEnd \/ (\E p : MoverKeep(p))
  BY <1>7, <1>0, MoverRestSingle DEF SingleInv
<1>8. CASE \E p : MoverAppend(p) BY <1>8, <1>0, MoverAppendSingle DEF SingleInv
<1>9. CASE MoverRemove BY <1>9, <1>0, MoverRemoveSingle DEF SingleInv
<1>10. CASE PrunerRemove BY <1>10, <1>0, PrunerRemoveSingle DEF SingleInv
<1>11. CASE Open BY <1>11, <1>0, OpenSingle DEF SingleInv
<1>12. CASE Close BY <1>12, <1>0, CloseSingle DEF SingleInv
<1>13. CASE Crash BY <1>13, <1>0, CrashSingle DEF SingleInv
<1>14. CASE \/ (\E dir : PrunerStart(dir)) \/ PrunerEnd \/ (\E p : PrunerCheck(p))
            \/ (\E m : SetMode(m)) \/ Tick \/ ClockBack \/ UNCHANGED vars
  BY <1>14, <1>0, RestSingle DEF SingleInv
<1> QED
  BY <1>1, <1>2, <1>3, <1>4, <1>5, <1>6, <1>7, <1>8, <1>9, <1>10, <1>11, <1>12, <1>13, <1>14 DEF Next

LEMMA SingleGivesOneCopy == SingleInv => OnlyCrashDuplicates
<1> SUFFICES ASSUME SingleInv, ~torn, ~Moving, NEW r \in 1..Len(written)
             PROVE  Cardinality(Copies(r)) <= 1
  BY DEF OnlyCrashDuplicates
<1>1. Source = {}
  BY NoSource DEF Moving
<1>2. SingleIn(io, {})
  BY <1>1 DEF SingleInv, OnceInv, Once
<1>3. \A c \in Copies(r) : \E p \in DOMAIN io.files : \E i \in DOMAIN io.files[p].recs :
        c = <<p, i>> /\ io.files[p].recs[i] = r
  BY DEF Copies
<1>4. ASSUME NEW c \in Copies(r), NEW d \in Copies(r) PROVE c = d
  <2>1. PICK p \in DOMAIN io.files : \E i \in DOMAIN io.files[p].recs : c = <<p, i>> /\ io.files[p].recs[i] = r
    BY <1>3
  <2>2. PICK i \in DOMAIN io.files[p].recs : c = <<p, i>> /\ io.files[p].recs[i] = r
    BY <2>1
  <2>3. PICK q \in DOMAIN io.files : \E j \in DOMAIN io.files[q].recs : d = <<q, j>> /\ io.files[q].recs[j] = r
    BY <1>3
  <2>4. PICK j \in DOMAIN io.files[q].recs : d = <<q, j>> /\ io.files[q].recs[j] = r
    BY <2>3
  <2>5. r \in Range(io.files[p].recs) /\ r \in Range(io.files[q].recs)
    BY <2>2, <2>4 DEF Range
  <2>6. p = q
    BY <1>2, <2>5 DEF SingleIn
  <2>7. i = j
    BY <1>2, <2>2, <2>4, <2>6 DEF SingleIn, IsInjective
  <2> QED
    BY <2>2, <2>4, <2>6, <2>7
<1> DEFINE K == Copies(r)
<1> HIDE DEF K
<1>5. CASE K = {}
  <2>1. Cardinality(K) = 0
    BY <1>5, FS_EmptySet
  <2> QED
    BY <2>1 DEF K
<1>6. CASE K # {}
  <2>1. PICK c \in K : TRUE
    BY <1>6
  <2>2. K = {c}
    BY <1>4, <2>1 DEF K
  <2>3. Cardinality(K) = 1
    BY <2>2, FS_Singleton
  <2> QED
    BY <2>3 DEF K
<1> QED
  BY <1>5, <1>6

\* Nor does one store a block twice: only a crash between the copy and the removal
\* of a move does.
THEOREM LogFilesOnlyCrashDuplicates == Spec => []OnlyCrashDuplicates
<1>1. Init => SingleInv
  <2> SUFFICES ASSUME Init PROVE SingleInv
    OBVIOUS
  <2>1. TypesInv
    BY InitTypes
  <2>2. io.files = <<>> /\ io.handle = None /\ job = Idle /\ mover = Idle
    BY DEF Init
  <2>3. DOMAIN io.files = {}
    BY <2>2
  <2>4. OnceInv
    BY <2>2, <2>3 DEF OnceInv, Once, SingleIn, SingleHeld, Carried, Idle
  <2> QED
    BY <2>1, <2>4 DEF SingleInv
<1>2. SingleInv /\ [Next]_vars => SingleInv'
  BY SingleStep
<1>3. SingleInv => OnlyCrashDuplicates
  BY SingleGivesOneCopy
<1> QED
  BY <1>1, <1>2, <1>3, PTL DEF Spec
=============================================================================
