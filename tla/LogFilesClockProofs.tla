------------------------ MODULE LogFilesClockProofs -------------------------
(***************************************************************************)
(* Theorems about LogFiles that depend on the clock and on the names it    *)
(* gives to files: the order of the days and, in async mode, what a        *)
(* pruning pass may destroy, how long a file gets, what listLogFiles shows *)
(* and in which order the files are read.                                  *)
(***************************************************************************)
EXTENDS LogFilesProofs

(* DaysInOrder.                                                            *)

\* Block r is stored, or about to be, in a file of the given day.
InDay(x, d, r) ==
  \/ \E p \in DOMAIN x.files : p.day = d /\ r \in Range(x.files[p].recs)
  \/ x.handle # None /\ x.handle.path.day = d /\ r \in Range(x.handle.buf)

\* No block of y is in a day in which it is not in x.
KeepsDays(x, y) == \A d, r : InDay(y, d, r) => InDay(x, d, r)

\* y has the handle of x, or none.
SameHandle(x, y) ==
  /\ y.last = x.last
  /\ y.handle # None => x.handle # None /\ y.handle.path = x.handle.path /\ y.handle.opened = x.handle.opened

LEMMA AppendToDays ==
  ASSUME NEW n \in Nat, NEW x, FileTypes(x, n), NEW p, NEW recs \in Seq(1..n),
         \A r \in Range(recs) : InDay(x, p.day, r)
  PROVE  /\ KeepsDays(x, AppendTo(x, p, recs))
         /\ SameHandle(x, AppendTo(x, p, recs))
<1> DEFINE y == AppendTo(x, p, recs)
<1>1. Appended(x, y, p, recs)
  BY AppendToIs DEF FileTypes
<1> HIDE DEF y
<1>2. Grown(x, y, p, recs)
  BY <1>1, AppendedGrown
<1>3. ASSUME NEW d, NEW r, InDay(y, d, r) PROVE InDay(x, d, r)
  <2>1. CASE \E q \in DOMAIN y.files : q.day = d /\ r \in Range(y.files[q].recs)
    <3>1. PICK q \in DOMAIN y.files : q.day = d /\ r \in Range(y.files[q].recs)
      BY <2>1
    <3>2. CASE q = p
      <4>1. r \in Range(recs) \/ r \in Range(Content(x, p))
        BY <1>2, <3>1, <3>2 DEF Grown
      <4>2. Range(<<>>) = {}
        BY DEF Range
      <4> QED
        BY <3>1, <3>2, <4>1, <4>2 DEF InDay, Content, Exists
    <3>3. CASE q # p
      BY <1>1, <3>1, <3>3 DEF Appended, InDay
    <3> QED
      BY <3>2, <3>3
  <2>2. CASE y.handle # None /\ y.handle.path.day = d /\ r \in Range(y.handle.buf)
    BY <1>1, <2>2 DEF Appended, InDay
  <2> QED
    BY <1>3, <2>1, <2>2 DEF InDay
<1>5. SameHandle(x, y)
  BY <1>1 DEF SameHandle, Appended
<1> QED
  BY <1>3, <1>5 DEF KeepsDays, y

LEMMA DrainDays ==
  ASSUME NEW n \in Nat, NEW x, FileTypes(x, n)
  PROVE  KeepsDays(x, Drain(x)) /\ SameHandle(x, Drain(x))
<1> DEFINE y == Drain(x)
           h == x.handle
           A == AppendTo(x, h.path, h.buf)
<1>1. Drained(x, y)
  BY DrainIs DEF FileTypes
<1> HIDE DEF y
<1>2. CASE h = None \/ h.buf = <<>>
  BY <1>1, <1>2 DEF Drained, KeepsDays, SameHandle, y
<1>3. CASE h # None /\ h.buf # <<>>
  <2>1. /\ y.last = x.last /\ y.handle = [h EXCEPT !.buf = <<>>]
        /\ y.files = A.files \/ y.files = x.files
    BY <1>1, <1>3 DEF Drained
  <2>2. h \in [path : Paths, linked : BOOLEAN, opened : Times, buf : Seq(1..n)]
    BY <1>3 DEF FileTypes
  <2>3. h.buf \in Seq(1..n)
    BY <2>2
  <2>4. y.handle.path = h.path /\ y.handle.opened = h.opened /\ Range(y.handle.buf) = {}
    BY <2>1, <2>2 DEF Range
  <2>5. \A r \in Range(h.buf) : InDay(x, h.path.day, r)
    BY <1>3 DEF InDay
  <2>6. KeepsDays(x, A)
    BY <2>3, <2>5, AppendToDays
  <2> HIDE DEF A
  <2>7. ASSUME NEW d, NEW r, InDay(y, d, r) PROVE InDay(x, d, r)
    <3>1. \E p \in DOMAIN y.files : p.day = d /\ r \in Range(y.files[p].recs)
      BY <2>4, <2>7 DEF InDay
    <3>2. InDay(A, d, r) \/ InDay(x, d, r)
      BY <2>1, <3>1 DEF InDay
    <3> QED
      BY <3>2, <2>6 DEF KeepsDays
  <2> QED
    BY <1>3, <2>1, <2>4, <2>7 DEF KeepsDays, SameHandle, y
<1> QED
  BY <1>2, <1>3

LEMMA CloseLogFileDays ==
  ASSUME NEW n \in Nat, NEW x, FileTypes(x, n)
  PROVE  /\ KeepsDays(x, CloseLogFile(x))
         /\ CloseLogFile(x).last = x.last /\ CloseLogFile(x).handle = None
<1> DEFINE y == CloseLogFile(x)
<1>1. Closed(x, y)
  BY CloseLogFileIs DEF FileTypes
<1> HIDE DEF y
<1>2. KeepsDays(x, Drain(x))
  BY DrainDays
<1>3. \A d, r : InDay(y, d, r) => InDay(Drain(x), d, r)
  BY <1>1 DEF Closed, InDay
<1> QED
  BY <1>1, <1>2, <1>3 DEF KeepsDays, y, Closed

LEMMA RemoveFileDays ==
  ASSUME NEW n \in Nat, NEW x, FileTypes(x, n), NEW p
  PROVE  /\ KeepsDays(x, RemoveFile(x, p))
         /\ SameHandle(x, RemoveFile(x, p))
<1> DEFINE y == RemoveFile(x, p)
<1>1. Removed(x, y, p)
  BY RemoveFileIs DEF FileTypes
<1>2. x.handle # None => x.handle \in [path : Paths, linked : BOOLEAN, opened : Times, buf : Seq(1..n)]
  BY DEF FileTypes
<1> HIDE DEF y
<1>3. y.handle # None => /\ x.handle # None /\ y.handle.path = x.handle.path
                         /\ y.handle.opened = x.handle.opened /\ y.handle.buf = x.handle.buf
  BY <1>1, <1>2 DEF Removed
<1>4. KeepsDays(x, y)
  BY <1>1, <1>3 DEF Removed, KeepsDays, InDay
<1>6. SameHandle(x, y)
  BY <1>1, <1>3 DEF Removed, SameHandle
<1> QED
  BY <1>4, <1>6 DEF y

LEMMA NameDay ==
  ASSUME NEW x, NEW day, NEW dir
  PROVE  LogFileName(x, day, dir).day = day
BY DEF LogFileName, Path

LEMMA NoneIsNoPath == None \notin Paths
<1> DEFINE paths == [dir : {"cache", "log"}, day : Nat, idx : Nat]
<1>1. DayOf(MaxTime) \in Nat
  BY DayOfMono, LogFilesAssumption
<1>2. Paths \subseteq paths
  BY <1>1 DEF Paths
<1>3. None \notin paths
  BY LogFilesAssumption
<1> HIDE DEF paths
<1> QED
  BY <1>2, <1>3

\* By a clock that was not set back.
DaysByClock(x) ==
  /\ x.last.time <= now
  /\ x.handle # None => x.handle.path.day = DayOf(x.handle.opened) /\ x.handle.opened <= now
  /\ \A d, r : InDay(x, d, r) => d <= DayOf(now)

\* By the last open, as long as one process writes.
DaysByLast(x) ==
  /\ x.last.path # None => x.last.path.day <= DayOf(x.last.time)
  /\ x.handle # None => x.handle.path = x.last.path
  /\ \A d, r : InDay(x, d, r) => x.last.path # None /\ d <= x.last.path.day

\* The file that is open is of the last day.
Newest(x) == x.handle # None => \A d, r : InDay(x, d, r) => d <= x.handle.path.day

\* What __OpenLogFile leaves open, if it goes to file p.
LEMMA OpenedHandle ==
  ASSUME NEW dir, NEW ok, NEW y, OpenedLog(y, dir, ok)
  PROVE  \/ SameDay(io) /\ y = io
         \/ /\ ~SameDay(io) /\ y.last = OpenLast(dir)
            /\ y.handle # None => /\ y.handle.path = OpenPath(dir) /\ y.handle.opened = now
                                  /\ y.handle.buf = <<>>
BY DEF OpenedLog, Opened

LEMMA OpenPathDay ==
  ASSUME NEW n \in Nat, FileTypes(io, n), now \in Times,
         NEW dir \in {"cache", "log"}
  PROVE  /\ OpenPath(dir) \in Paths
         /\ ~(now < io.last.time) => OpenPath(dir).day = DayOf(now)
<1>1. OpenPath(dir) \in Paths
  BY OpenPathType
<1>2. ASSUME ~(now < io.last.time) PROVE OpenPath(dir).day = DayOf(now)
  <2>1. OpenPath(dir) = LogFileName(CloseLogFile(io), DayOf(now), dir)
    BY <1>2 DEF OpenPath
  <2> QED
    BY <2>1, NameDay
<1> QED
  BY <1>1, <1>2

LEMMA OpenLogFileDays ==
  ASSUME NEW n \in Nat, FileTypes(io, n), now \in Times,
         NEW dir \in {"cache", "log"}, NEW ok \in BOOLEAN
  PROVE  KeepsDays(io, OpenLogFile(dir, ok))
<1> DEFINE y == OpenLogFile(dir, ok)
           C == CloseLogFile(io)
           P == OpenPath(dir)
           T == Touch(C, P)
<1>1. OpenedLog(y, dir, ok) /\ IoShape(io)
  BY OpenLogFileIs DEF FileTypes
<1> HIDE DEF y
<1>2. CASE y = io
  BY <1>2 DEF KeepsDays, y
<1>3. CASE ~SameDay(io)
  <2>1. /\ y.handle # None => y.handle.path = P /\ y.handle.buf = <<>>
        /\ y.files = T.files \/ y.files = C.files
        /\ y.last = OpenLast(dir)
    BY <1>1, <1>3 DEF OpenedLog, Opened
  <2>2. FileTypes(C, n) /\ KeepsDays(io, C)
    BY CloseLogFileTypes, CloseLogFileDays
  <2>3. <<>> \in Seq(1..n) /\ Range(<<>>) = {}
    BY DEF Range
  <2> HIDE DEF C, P
  <2>5. KeepsDays(C, T)
    BY <2>2, <2>3, AppendToDays DEF Touch, KeepsDays
  <2> HIDE DEF T
  <2>6. KeepsDays(io, y)
    <3>1. ASSUME NEW d, NEW r, InDay(y, d, r) PROVE InDay(T, d, r) \/ InDay(C, d, r)
      BY <2>1, <2>3, <3>1 DEF InDay
    <3> QED
      BY <3>1, <2>2, <2>5 DEF KeepsDays
  <2> QED
    BY <2>6 DEF y
<1> QED
  BY <1>1, <1>2, <1>3 DEF OpenedLog

LEMMA OpenLogFileClock ==
  ASSUME NEW n \in Nat, FileTypes(io, n), now \in Times,
         NEW dir \in {"cache", "log"}, NEW ok \in BOOLEAN, DaysByClock(io)
  PROVE  DaysByClock(OpenLogFile(dir, ok)) /\ Newest(OpenLogFile(dir, ok))
<1> DEFINE y == OpenLogFile(dir, ok)
<1>1. OpenedLog(y, dir, ok) /\ IoShape(io)
  BY OpenLogFileIs DEF FileTypes
<1>2. KeepsDays(io, y)
  BY OpenLogFileDays
<1>3. now \in Nat /\ io.last.time \in Nat
  BY LogFilesAssumption DEF Times, FileTypes
<1>4. ~(now < io.last.time)
  BY <1>3 DEF DaysByClock
<1>5. OpenPath(dir).day = DayOf(now)
  BY <1>4, OpenPathDay
<1> HIDE DEF y
<1>6. \A d, r : InDay(y, d, r) => d <= DayOf(now)
  BY <1>2 DEF KeepsDays, DaysByClock
<1>7. CASE SameDay(io) /\ y = io
  BY <1>6, <1>7 DEF DaysByClock, Newest, SameDay, y
<1>8. CASE ~SameDay(io)
  <2>1. /\ y.last = OpenLast(dir)
        /\ y.handle # None => /\ y.handle.path = OpenPath(dir) /\ y.handle.opened = now
    BY <1>1, <1>8, OpenedHandle
  <2>2. y.last.time = now
    BY <1>4, <2>1 DEF OpenLast
  <2> QED
    BY <1>3, <1>5, <1>6, <2>1, <2>2 DEF DaysByClock, Newest, y
<1> QED
  BY <1>1, <1>7, <1>8, OpenedHandle

LEMMA OpenLogFileLast ==
  ASSUME NEW n \in Nat, FileTypes(io, n), now \in Times,
         NEW dir \in {"cache", "log"}, NEW ok \in BOOLEAN, DaysByLast(io)
  PROVE  DaysByLast(OpenLogFile(dir, ok)) /\ Newest(OpenLogFile(dir, ok))
<1> DEFINE y == OpenLogFile(dir, ok)
<1>1. OpenedLog(y, dir, ok) /\ IoShape(io)
  BY OpenLogFileIs DEF FileTypes
<1>2. KeepsDays(io, y)
  BY OpenLogFileDays
<1>3. now \in Nat /\ io.last.time \in Nat
  BY LogFilesAssumption DEF Times, FileTypes
<1>4. OpenPath(dir) \in Paths /\ (~(now < io.last.time) => OpenPath(dir).day = DayOf(now))
  BY OpenPathDay
<1> HIDE DEF y
<1>5. CASE SameDay(io) /\ y = io
  BY <1>5 DEF DaysByLast, Newest, y
<1>6. CASE ~SameDay(io)
  <2>1. /\ y.last = OpenLast(dir)
        /\ y.handle # None => /\ y.handle.path = OpenPath(dir) /\ y.handle.opened = now
    BY <1>1, <1>6, OpenedHandle
  <2>2. CASE now < io.last.time
    <3>1. y.last = io.last /\ OpenPath(dir) = io.last.path
      BY <2>1, <2>2 DEF OpenLast, OpenPath
    <3> QED
      BY <1>2, <2>1, <3>1 DEF DaysByLast, Newest, KeepsDays, y
  <2>3. CASE ~(now < io.last.time)
    <3>1. y.last.time = now /\ y.last.path = OpenPath(dir)
      BY <2>1, <2>3 DEF OpenLast
    <3>2. OpenPath(dir).day = DayOf(now) /\ OpenPath(dir) # None
      BY <1>4, <2>3, NoneIsNoPath
    <3>3. DayOf(io.last.time) \in Nat /\ DayOf(io.last.time) <= DayOf(now) /\ DayOf(now) \in Nat
      BY <1>3, <2>3, DayOfMono
    <3>4. ASSUME NEW d, NEW r, InDay(y, d, r) PROVE d <= DayOf(now)
      <4>1. InDay(io, d, r)
        BY <1>2, <3>4 DEF KeepsDays
      <4>2. io.last.path # None /\ d <= io.last.path.day /\ io.last.path.day <= DayOf(io.last.time)
        BY <4>1 DEF DaysByLast
      <4>3. io.last.path \in Paths
        BY <4>2 DEF FileTypes
      <4>4. io.last.path.day \in Nat
        BY <4>3 DEF Paths
      <4>5. d \in Nat
        <5>1. d \in 0..DayOf(MaxTime)
          <6>1. CASE \E p \in DOMAIN io.files : p.day = d
            BY <6>1 DEF FileTypes, Paths
          <6>2. CASE io.handle # None /\ io.handle.path.day = d
            BY <6>2 DEF FileTypes, Paths
          <6> QED
            BY <4>1, <6>1, <6>2 DEF InDay
        <5> QED
          BY <5>1
      <4> QED
        BY <3>3, <4>2, <4>4, <4>5
    <3>5. DayOf(now) <= DayOf(now)
      BY <3>3
    <3> QED
      BY <2>1, <3>1, <3>2, <3>4, <3>5 DEF DaysByLast, Newest, y
  <2> QED
    BY <2>2, <2>3
<1> QED
  BY <1>1, <1>5, <1>6, OpenedHandle

\* Earlier days have earlier blocks.
Ordered(x) == \A d, e, r, t : InDay(x, d, r) /\ InDay(x, e, t) /\ d < e => r < t

\* The premise of DaysInOrder, and what it promises then.
OneClock == back = 0 \/ starts <= 1

\* The days are the order of the blocks, those stdio holds included.
DaysOK(x) ==
  /\ back = 0 => DaysByClock(x)
  /\ starts <= 1 => DaysByLast(x)
  /\ OneClock => Ordered(x)

\* Block c is newer than every block that is stored.
Newer(x, c) == \A d, r : InDay(x, d, r) => r < c

LEMMA InDayTypes ==
  ASSUME NEW n \in Nat, NEW x, FileTypes(x, n), NEW d, NEW r, InDay(x, d, r)
  PROVE  d \in Nat /\ r \in 1..n
<1>1. CASE \E p \in DOMAIN x.files : p.day = d /\ r \in Range(x.files[p].recs)
  <2>1. PICK p \in DOMAIN x.files : p.day = d /\ r \in Range(x.files[p].recs)
    BY <1>1
  <2>2. p \in Paths /\ x.files[p] \in [recs : Seq(1..n), mtime : Times]
    BY DEF FileTypes
  <2>3. x.files[p].recs \in Seq(1..n)
    BY <2>2
  <2>4. d \in Nat
    BY <2>1, <2>2 DEF Paths
  <2> QED
    BY <2>1, <2>3, <2>4, RangeType
<1>2. CASE x.handle # None /\ x.handle.path.day = d /\ r \in Range(x.handle.buf)
  <2>1. x.handle \in [path : Paths, linked : BOOLEAN, opened : Times, buf : Seq(1..n)]
    BY <1>2 DEF FileTypes
  <2>2. x.handle.path \in Paths /\ x.handle.buf \in Seq(1..n)
    BY <2>1
  <2>3. d \in Nat
    BY <1>2, <2>2 DEF Paths
  <2> QED
    BY <1>2, <2>2, <2>3, RangeType
<1> QED
  BY <1>1, <1>2 DEF InDay

LEMMA BufferedDays ==
  ASSUME NEW n \in Nat, NEW x, FileTypes(x, n), x.handle # None, NEW rec \in 1..n
  PROVE  LET y == Buffered(x, rec) IN
         /\ \A d, r : InDay(y, d, r) => InDay(x, d, r) \/ (d = x.handle.path.day /\ r = rec)
         /\ SameHandle(x, y)
<1> DEFINE y == Buffered(x, rec)
           h == x.handle
<1>1. TakesBlock(x, y, rec)
  BY BufferedIs DEF FileTypes
<1>2. h \in [path : Paths, linked : BOOLEAN, opened : Times, buf : Seq(1..n)]
  BY DEF FileTypes
<1>3. h.buf \in Seq(1..n)
  BY <1>2
<1> HIDE DEF y
<1>4. y.handle = [h EXCEPT !.buf = Append(h.buf, rec)] /\ y.files = x.files /\ y.last = x.last
  BY <1>1 DEF TakesBlock
<1>5. y.handle.path = h.path /\ y.handle.opened = h.opened /\ y.handle.buf = Append(h.buf, rec)
  BY <1>2, <1>4
<1>6. Range(y.handle.buf) = Range(h.buf) \cup {rec}
  BY <1>3, <1>5, RangeAppend
<1>7. \A d, r : InDay(y, d, r) => InDay(x, d, r) \/ (d = x.handle.path.day /\ r = rec)
  BY <1>4, <1>5, <1>6 DEF InDay, h
<1>9. SameHandle(x, y)
  BY <1>4, <1>5 DEF SameHandle, h
<1> QED
  BY <1>7, <1>9 DEF y

LEMMA WriteFileDays ==
  ASSUME NEW n \in Nat, NEW x, FileTypes(x, n), x.handle # None, NEW rec \in 1..n,
         now \in Times, NEW ok, NEW spills
  PROVE  LET y == WriteFile(x, rec, ok, spills) IN
         /\ \A d, r : InDay(y, d, r) => InDay(x, d, r) \/ (d = x.handle.path.day /\ r = rec)
         /\ SameHandle(x, y)
<1> DEFINE y == WriteFile(x, rec, ok, spills)
           s == Spilled(x, spills)
           B == Buffered(s, rec)
           t == Took(x, rec, ok, spills)
<1>1. /\ FileTypes(s, n) /\ KeepsDays(x, s) /\ SameHandle(x, s)
  <2>1. KeepsDays(x, x) /\ SameHandle(x, x)
    BY DEF KeepsDays, SameHandle
  <2> QED
    BY <2>1, DrainTypes, DrainDays DEF Spilled
<1>2. s.handle # None
  <2>1. x.handle \in [path : Paths, linked : BOOLEAN, opened : Times, buf : Seq(1..n)]
    BY DEF FileTypes
  <2>2. s.handle = x.handle \/ s.handle = [x.handle EXCEPT !.buf = <<>>]
    BY SpilledKeepsHandle, Zenon
  <2>3. [x.handle EXCEPT !.buf = <<>>] \in [path : Paths, linked : BOOLEAN, opened : Times, buf : Seq(1..n)]
    BY <2>1, HandleKeeps
  <2> QED
    BY <2>2, <2>3, HandleIsOpen
<1> HIDE DEF s
<1>3. /\ \A d, r : InDay(B, d, r) => InDay(s, d, r) \/ (d = s.handle.path.day /\ r = rec)
      /\ SameHandle(s, B)
  BY <1>1, <1>2, BufferedDays
<1>4. FileTypes(B, n)
  BY <1>1, <1>2, BufferedTypes
<1> HIDE DEF B
<1>5. t = IF ok THEN B ELSE s
  BY DEF Took, B, s
<1> HIDE DEF t
<1>6. /\ FileTypes(t, n)
      /\ \A d, r : InDay(t, d, r) => InDay(x, d, r) \/ (d = x.handle.path.day /\ r = rec)
      /\ SameHandle(x, t)
  <2>1. CASE ok
    <3>1. t = B
      BY <1>5, <2>1
    <3> QED
      BY <3>1, <1>1, <1>2, <1>3, <1>4 DEF KeepsDays, SameHandle
  <2>2. CASE ~ok
    <3>1. t = s
      BY <1>5, <2>2
    <3> QED
      BY <3>1, <1>1 DEF KeepsDays
  <2> QED
    BY <2>1, <2>2
<1>7. /\ KeepsDays(t, CloseLogFile(t))
      /\ CloseLogFile(t).last = t.last /\ CloseLogFile(t).handle = None
  BY <1>6, CloseLogFileDays
<1>8. y = IF mode = "async" THEN CloseLogFile(t) ELSE t
  BY WriteFileIs DEF t
<1> HIDE DEF y
<1> QED
  BY <1>6, <1>7, <1>8 DEF KeepsDays, SameHandle, y

\* A block that is written into the file of the last day keeps the days in order.
LEMMA WriteDays ==
  ASSUME NEW n \in Nat, NEW x, FileTypes(x, n), x.handle # None, NEW rec \in 1..n,
         now \in Times, NEW ok, NEW spills,
         DaysOK(x), OneClock => Newest(x), Newer(x, rec)
  PROVE  DaysOK(WriteFile(x, rec, ok, spills))
<1> DEFINE y == WriteFile(x, rec, ok, spills)
           top == x.handle.path.day
<1>1. /\ \A d, r : InDay(y, d, r) => InDay(x, d, r) \/ (d = top /\ r = rec)
      /\ SameHandle(x, y)
  BY WriteFileDays
<1>2. x.handle \in [path : Paths, linked : BOOLEAN, opened : Times, buf : Seq(1..n)]
  BY DEF FileTypes
<1>3. x.handle.path \in Paths
  BY <1>2
<1>4. top \in Nat
  BY <1>3 DEF Paths
<1> HIDE DEF y
<1>5. ASSUME back = 0 PROVE DaysByClock(y) /\ top <= DayOf(now)
  <2>1. DaysByClock(x)
    BY <1>5 DEF DaysOK
  <2>2. top <= DayOf(now)
    <3>1. top = DayOf(x.handle.opened) /\ x.handle.opened <= now
      BY <2>1 DEF DaysByClock
    <3>2. x.handle.opened \in Nat /\ now \in Nat
      BY <1>2, LogFilesAssumption DEF Times
    <3> QED
      BY <3>1, <3>2, DayOfMono
  <2> QED
    BY <1>1, <2>1, <2>2 DEF DaysByClock, SameHandle
<1>6. ASSUME starts <= 1 PROVE DaysByLast(y)
  <2>1. DaysByLast(x)
    BY <1>6 DEF DaysOK
  <2>2. x.handle.path = x.last.path /\ x.last.path # None /\ top <= x.last.path.day
    BY <2>1, <1>3, <1>4, NoneIsNoPath DEF DaysByLast
  <2> QED
    BY <1>1, <2>1, <2>2 DEF DaysByLast, SameHandle
<1>7. ASSUME OneClock PROVE Ordered(y)
  <2>1. Ordered(x) /\ Newest(x)
    BY <1>7 DEF DaysOK
  <2>2. SUFFICES ASSUME NEW d, NEW e, NEW r, NEW t, InDay(y, d, r), InDay(y, e, t), d < e PROVE r < t
    BY DEF Ordered
  <2>3. CASE InDay(x, d, r) /\ InDay(x, e, t)
    BY <2>1, <2>2, <2>3 DEF Ordered
  <2>4. CASE InDay(x, d, r) /\ e = top /\ t = rec
    BY <2>4 DEF Newer
  <2>5. CASE d = top /\ InDay(x, e, t)
    <3>1. e <= top /\ e \in Nat
      BY <2>1, <2>5, InDayTypes DEF Newest
    <3> QED
      BY <1>4, <2>2, <2>5, <3>1
  <2>6. CASE d = top /\ e = top
    BY <1>4, <2>2, <2>6
  <2> QED
    BY <1>1, <2>2, <2>3, <2>4, <2>5, <2>6
<1> QED
  BY <1>5, <1>6, <1>7 DEF DaysOK, y

\* A step from x to y that only takes blocks away or moves them within a day.
LEMMA KeptDaysOK ==
  ASSUME NEW x, NEW y, DaysOK(x), KeepsDays(x, y), SameHandle(x, y)
  PROVE  DaysOK(y)
<1>1. back = 0 => DaysByClock(y)
  BY DEF DaysOK, DaysByClock, KeepsDays, SameHandle
<1>2. starts <= 1 => DaysByLast(y)
  BY DEF DaysOK, DaysByLast, KeepsDays, SameHandle
<1>3. OneClock => Ordered(y)
  BY DEF DaysOK, Ordered, KeepsDays
<1> QED
  BY <1>1, <1>2, <1>3 DEF DaysOK

LEMMA OpenedDays ==
  ASSUME NEW n \in Nat, FileTypes(io, n), now \in Times,
         NEW dir \in {"cache", "log"}, NEW ok \in BOOLEAN, DaysOK(io)
  PROVE  LET y == OpenLogFile(dir, ok) IN
         DaysOK(y) /\ (OneClock => Newest(y)) /\ KeepsDays(io, y) /\ FileTypes(y, n)
<1> DEFINE y == OpenLogFile(dir, ok)
<1>1. KeepsDays(io, y)
  BY OpenLogFileDays
<1>2. back = 0 => DaysByClock(y) /\ Newest(y)
  BY OpenLogFileClock DEF DaysOK
<1>3. starts <= 1 => DaysByLast(y) /\ Newest(y)
  BY OpenLogFileLast DEF DaysOK
<1>4. FileTypes(y, n)
  BY OpenLogFileTypes
<1> HIDE DEF y
<1>5. OneClock => Ordered(y)
  BY <1>1 DEF KeepsDays, DaysOK, Ordered
<1> QED
  BY <1>1, <1>2, <1>3, <1>4, <1>5 DEF DaysOK, OneClock, y

\* What the three writing steps of a __Log2File have in common, when x is what
\* __OpenLogFile has left.
WritingStep(x) ==
  \/ x.handle = None /\ io' = x
  \/ x.handle # None /\ io' = CloseLogFile(x)
  \/ /\ x.handle # None /\ Carried' = {}
     /\ \E ok, spills : io' = WriteFile(x, job.rec, ok, spills)

\* A step in which a __Log2File opens a file.
Writing == WriteCache \/ WriteLog \/ WriteFallback

\* Where a __Log2File writes in its present step.
WriteDir == IF job.at = "log" THEN "log" ELSE "cache"

LEMMA WritingIs ==
  ASSUME TypesInv, Writing
  PROVE  /\ job.at # "idle" /\ Carried = {job.rec} /\ Carried' \subseteq Carried
         /\ JobRests /\ JobGoesOn /\ back' = back /\ starts' = starts
         /\ \E openOk \in BOOLEAN : WritingStep(OpenLogFile(WriteDir, openOk))
<1> DEFINE n == Len(written)
<1>1. /\ job.at \in {"cache", "log", "fallback"} /\ JobRests
  BY DEF Writing, WriteCache, WriteLog, WriteFallback
<1>2. job \in [at : {"cache", "append", "remove", "log", "fallback"}, rec : 1..n,
               move : BOOLEAN, day : 0..DayOf(MaxTime), cache : CachePaths, cacheLogs : BOOLEAN]
  BY <1>1, JobAt
<1>3. Carried = {job.rec}
  BY <1>1 DEF Carried
<1>4. back' = back /\ starts' = starts
  BY DEF Writing, WriteCache, WriteLog, WriteFallback, CountFaults
<1> HIDE DEF n
<1>5. CASE WriteCache
  <2>1. PICK openOk \in MayFail("open"), writeOk \in MayFail("write"), spills \in {FALSE, mode = "sync"} :
          LET x == OpenLogFile("cache", openOk) IN
          \/ /\ x.handle = None
             /\ io' = x /\ job' = [job EXCEPT !.at = "log"]
          \/ /\ x.handle # None
             /\ io' = WriteFile(x, job.rec, writeOk, spills)
             /\ job' = IF job.cacheLogs \/ ~job.move THEN Idle ELSE [job EXCEPT !.at = "append"]
    BY <1>5 DEF WriteCache
  <2>0. WriteDir = "cache"
    BY <1>5 DEF WriteCache, WriteDir
  <2> DEFINE x == OpenLogFile("cache", openOk)
  <2> HIDE DEF x
  <2>2. CASE x.handle = None
    <3>1. io' = x /\ job' = [job EXCEPT !.at = "log"]
      BY <2>1, <2>2 DEF x
    <3>2. job'.at = "log" /\ job'.rec = job.rec
      BY <3>1, <1>2
    <3>3. Carried' = Carried /\ JobGoesOn /\ WritingStep(x)
      BY <1>3, <2>2, <3>1, <3>2 DEF Carried, JobGoesOn, WritingStep
    <3> QED
      BY <1>1, <1>3, <1>4, <3>3, <2>0, MayFailBoolean DEF x
  <2>3. CASE x.handle # None
    <3>1. /\ io' = WriteFile(x, job.rec, writeOk, spills)
          /\ job' = Idle \/ job' = [job EXCEPT !.at = "append"]
      BY <2>1, <2>3 DEF x
    <3>2. job'.at \in {"idle", "append"}
      BY <3>1, <1>2 DEF Idle
    <3>3. Carried' = {} /\ JobGoesOn
      BY <3>1, <3>2 DEF Carried, JobGoesOn
    <3>4. WritingStep(x)
      BY <2>3, <3>1, <3>3 DEF WritingStep
    <3> QED
      BY <1>1, <1>3, <1>4, <3>3, <3>4, <2>0, MayFailBoolean DEF x
  <2> QED
    BY <2>2, <2>3
<1>6. CASE WriteLog
  <2>1. PICK openOk \in MayFail("open"), writeOk \in MayFail("write"), spills \in {FALSE, mode = "sync"} :
          LET x == OpenLogFile("log", openOk) IN
          /\ io' = IF x.handle = None THEN x
                   ELSE IF writeOk THEN WriteFile(x, job.rec, TRUE, spills) ELSE CloseLogFile(x)
          /\ job' = IF x.handle # None /\ writeOk THEN Idle ELSE [job EXCEPT !.at = "fallback"]
    BY <1>6 DEF WriteLog
  <2>0. WriteDir = "log"
    BY <1>6 DEF WriteLog, WriteDir
  <2> DEFINE x == OpenLogFile("log", openOk)
  <2> HIDE DEF x
  <2>2. CASE x.handle # None /\ writeOk
    <3>1. /\ io' = WriteFile(x, job.rec, TRUE, spills) /\ job' = Idle
      BY <2>1, <2>2 DEF x
    <3>2. Carried' = {} /\ JobGoesOn
      BY <3>1 DEF Carried, JobGoesOn, Idle
    <3>3. WritingStep(x)
      BY <2>2, <3>1, <3>2 DEF WritingStep
    <3> QED
      BY <1>1, <1>3, <1>4, <3>2, <3>3, <2>0, MayFailBoolean DEF x
  <2>3. CASE ~(x.handle # None /\ writeOk)
    <3>1. /\ (io' = x /\ x.handle = None) \/ (io' = CloseLogFile(x) /\ x.handle # None)
          /\ job' = [job EXCEPT !.at = "fallback"]
      BY <2>1, <2>3 DEF x
    <3>2. job'.at = "fallback" /\ job'.rec = job.rec
      BY <3>1, <1>2
    <3>3. Carried' = Carried /\ JobGoesOn /\ WritingStep(x)
      BY <1>3, <3>1, <3>2 DEF Carried, JobGoesOn, WritingStep
    <3> QED
      BY <1>1, <1>3, <1>4, <3>3, <2>0, MayFailBoolean DEF x
  <2> QED
    BY <2>2, <2>3
<1>7. CASE WriteFallback
  <2>1. PICK openOk \in MayFail("open"), writeOk \in MayFail("write"), spills \in {FALSE, mode = "sync"} :
          LET x  == OpenLogFile("cache", openOk)
          IN io' = IF x.handle = None THEN x ELSE WriteFile(x, job.rec, writeOk, spills)
    BY <1>7 DEF WriteFallback
  <2> DEFINE x == OpenLogFile("cache", openOk)
  <2> HIDE DEF x
  <2>0. WriteDir = "cache"
    BY <1>7 DEF WriteFallback, WriteDir
  <2>2. job' = Idle
    BY <1>7 DEF WriteFallback
  <2>3. Carried' = {} /\ JobGoesOn
    BY <2>2 DEF Carried, JobGoesOn, Idle
  <2>4. WritingStep(x)
    BY <2>1, <2>3 DEF WritingStep, x
  <2> QED
    BY <1>1, <1>3, <1>4, <2>3, <2>4, <2>0, MayFailBoolean DEF x
<1> QED
  BY <1>5, <1>6, <1>7 DEF Writing

\* A closed appender has no file open, and only an open one has a __Log2File.
Lives ==
  /\ ~up => io.handle = None
  /\ job # Idle => up
  /\ starts = 0 => ~up /\ Len(written) = 0

\* A __Log2File moves the cache file of the day it began on.
JobDay == job # Idle => job.cache.day = job.day

\* The inductive invariant: what a thread carries is newer than what is stored.
DaysInv ==
  /\ TypesInv
  /\ Lives
  /\ JobDay
  /\ DaysOK(io)
  /\ \A c \in Carried : Newer(io, c)

LEMMA DaysOKSame ==
  ASSUME now' = now, back' = back, starts' = starts, DaysOK(io')
  PROVE  DaysOK(io)'
BY DEF DaysOK, DaysByClock, DaysByLast, OneClock

\* A step of the __Log2File in progress.
LEMMA JobStepDays ==
  ASSUME DaysInv, TypesInv', job.at # "idle", JobGoesOn, JobRests, back' = back, starts' = starts,
         DaysOK(io'), Carried' # {} => Carried' = Carried /\ KeepsDays(io, io')
  PROVE  DaysInv'
<1>1. /\ job \in [at : {"cache", "append", "remove", "log", "fallback"}, rec : 1..Len(written),
               move : BOOLEAN, day : 0..DayOf(MaxTime), cache : CachePaths, cacheLogs : BOOLEAN]
      /\ job # Idle
  BY JobAt DEF DaysInv
<1>2. up /\ up' /\ starts # 0
  BY <1>1 DEF DaysInv, Lives, JobRests, config
<1>3. Lives'
  BY <1>2 DEF Lives
<1>4. JobDay'
  BY <1>1 DEF DaysInv, JobDay, JobGoesOn
<1>5. DaysOK(io)'
  BY DaysOKSame DEF JobRests
<1>6. \A c \in Carried' : Newer(io', c)
  BY DEF DaysInv, Newer, KeepsDays
<1> QED
  BY <1>3, <1>4, <1>5, <1>6 DEF DaysInv

LEMMA WritingDays ==
  ASSUME DaysInv, TypesInv', Writing
  PROVE  DaysInv'
<1> DEFINE n == Len(written)
<1>1. /\ job.at # "idle" /\ Carried = {job.rec} /\ Carried' \subseteq Carried
      /\ JobRests /\ JobGoesOn /\ back' = back /\ starts' = starts
  BY WritingIs DEF DaysInv
<1>2. n \in Nat /\ FileTypes(io, n) /\ now \in Times
  BY WrittenLength DEF DaysInv, TypesInv
<1>3. job.rec \in 1..n /\ Newer(io, job.rec)
  BY <1>1, JobAt DEF DaysInv
<1>4. PICK openOk \in BOOLEAN : WritingStep(OpenLogFile(WriteDir, openOk))
  BY WritingIs DEF DaysInv
<1> DEFINE x == OpenLogFile(WriteDir, openOk)
<1> HIDE DEF n
<1>0. WriteDir \in {"cache", "log"}
  BY DEF WriteDir
<1>5. DaysOK(x) /\ (OneClock => Newest(x)) /\ KeepsDays(io, x) /\ FileTypes(x, n)
  BY <1>0, <1>2, OpenedDays DEF DaysInv
<1> HIDE DEF x
<1>6. Newer(x, job.rec)
  BY <1>3, <1>5 DEF Newer, KeepsDays
<1>7. CASE x.handle = None /\ io' = x
  BY <1>1, <1>5, <1>7, JobStepDays
<1>8. CASE io' = CloseLogFile(x)
  <2>1. /\ KeepsDays(x, io')
        /\ io'.last = x.last /\ io'.handle = None
    BY <1>2, <1>5, <1>8, CloseLogFileDays
  <2>2. SameHandle(x, io')
    BY <2>1 DEF SameHandle
  <2>3. DaysOK(io')
    BY <1>5, <2>1, <2>2, KeptDaysOK
  <2>4. KeepsDays(io, io')
    BY <1>5, <2>1 DEF KeepsDays
  <2> QED
    BY <1>1, <2>3, <2>4, JobStepDays
<1>9. CASE /\ x.handle # None /\ Carried' = {}
           /\ \E ok, spills : io' = WriteFile(x, job.rec, ok, spills)
  <2>1. PICK ok, spills : io' = WriteFile(x, job.rec, ok, spills)
    BY <1>9
  <2>2. DaysOK(io')
    BY <1>2, <1>3, <1>5, <1>6, <1>9, <2>1, WriteDays
  <2> QED
    BY <1>1, <1>9, <2>2, JobStepDays
<1> QED
  BY <1>4, <1>7, <1>8, <1>9 DEF WritingStep, x

\* The clock goes on, or is set back for the first or another time.
ClockGoesOn == back' = 0 => back = 0 /\ now <= now'

\* A step that leaves __Log2File, the process and the blocks given alone.
LEMMA OtherStepDays ==
  ASSUME DaysInv, TypesInv', UNCHANGED <<up, job, written, starts>>, ClockGoesOn,
         KeepsDays(io, io'), SameHandle(io, io')
  PROVE  DaysInv'
<1> DEFINE n == Len(written)
<1>1. now \in Nat /\ now' \in Nat /\ n \in Nat /\ FileTypes(io, n)
  BY WrittenLength, LogFilesAssumption DEF DaysInv, TypesInv, Times
<1> HIDE DEF n
<1>2. DaysOK(io')
  BY KeptDaysOK DEF DaysInv
<1>3. Lives'
  BY DEF DaysInv, Lives, SameHandle
<1>4. JobDay' /\ Carried' = Carried
  BY DEF DaysInv, JobDay, Carried
<1>5. \A c \in Carried' : Newer(io', c)
  BY <1>4 DEF DaysInv, Newer, KeepsDays
<1>6. ASSUME back' = 0 PROVE DaysByClock(io)'
  <2>1. DaysByClock(io) /\ now <= now'
    BY <1>6 DEF DaysInv, DaysOK, ClockGoesOn
  <2>2. DayOf(now) \in Nat /\ DayOf(now') \in Nat /\ DayOf(now) <= DayOf(now')
    BY <1>1, <2>1, DayOfMono
  <2>3. ASSUME NEW d, NEW r, InDay(io', d, r) PROVE d <= DayOf(now')
    <3>1. InDay(io, d, r)
      BY <2>3 DEF KeepsDays
    <3>2. d \in Nat /\ d <= DayOf(now)
      BY <1>1, <2>1, <3>1, InDayTypes DEF DaysByClock
    <3> QED
      BY <2>2, <3>2
  <2>4. io'.last.time <= now'
    <3>1. io.last.time \in Nat
      BY <1>1, LogFilesAssumption DEF FileTypes, Times
    <3> QED
      BY <1>1, <2>1, <3>1 DEF SameHandle, DaysByClock
  <2>5. ASSUME io'.handle # None
        PROVE  io'.handle.path.day = DayOf(io'.handle.opened) /\ io'.handle.opened <= now'
    <3>1. /\ io.handle # None /\ io'.handle.path = io.handle.path
          /\ io'.handle.opened = io.handle.opened
      BY <2>5 DEF SameHandle
    <3>2. io.handle \in [path : Paths, linked : BOOLEAN, opened : Times, buf : Seq(1..n)]
      BY <1>1, <3>1 DEF FileTypes
    <3>3. io.handle.opened \in Nat
      BY <3>2, LogFilesAssumption DEF Times
    <3>4. io.handle.path.day = DayOf(io.handle.opened) /\ io.handle.opened <= now
      BY <2>1, <3>1 DEF DaysByClock
    <3> QED
      BY <1>1, <2>1, <3>1, <3>3, <3>4
  <2> QED
    BY <2>3, <2>4, <2>5 DEF DaysByClock
<1>7. OneClock' => OneClock
  BY DEF OneClock, ClockGoesOn
<1>8. DaysOK(io)'
  BY <1>2, <1>6, <1>7 DEF DaysOK, DaysByLast
<1> QED
  BY <1>3, <1>4, <1>5, <1>8 DEF DaysInv

LEMMA Log2FileDays ==
  ASSUME DaysInv, TypesInv', Log2File
  PROVE  DaysInv'
<1> DEFINE n == Len(written)
<1>1. /\ up /\ up' /\ io' = io /\ job'.rec = n + 1
      /\ job'.cache = LogFileName(io, DayOf(now), "cache") /\ job'.day = DayOf(now)
      /\ UNCHANGED <<now, back, starts>>
  BY DEF Log2File, config, counts
<1>2. n \in Nat /\ FileTypes(io, n)
  BY WrittenLength DEF DaysInv, TypesInv
<1>3. Lives' /\ JobDay'
  BY <1>1, NameDay DEF DaysInv, Lives, JobDay
<1>4. Carried' \subseteq {n + 1}
  BY <1>1 DEF Carried
<1>5. Newer(io, n + 1)
  <2> SUFFICES ASSUME NEW d, NEW r, InDay(io, d, r) PROVE r < n + 1
    BY DEF Newer
  <2>1. r \in 1..n
    BY <1>2, InDayTypes
  <2> QED
    BY <1>2, <2>1
<1>6. DaysOK(io')
  BY <1>1 DEF DaysInv
<1>7. DaysOK(io)'
  BY <1>1, <1>6, DaysOKSame
<1> QED
  BY <1>1, <1>3, <1>4, <1>5, <1>7 DEF DaysInv

LEMMA AppendCacheDays ==
  ASSUME DaysInv, TypesInv', AppendCache
  PROVE  DaysInv'
<1> DEFINE n == Len(written)
           c == job.cache
           x == WithLate(Copied, HeldOfCache)
<1>1. /\ job.at = "append" /\ JobRests
      /\ MovesOn \/ (io' = io /\ job' = Idle)
  BY AppendCacheIs
<1>2. TypesInv /\ n \in Nat /\ FileTypes(io, n) /\ now \in Times
  BY WrittenLength DEF DaysInv, TypesInv
<1>3. back' = back /\ starts' = starts
  BY DEF AppendCache, CountFaults
<1>4. /\ c \in CachePaths /\ job # Idle
      /\ job \in [at : {"cache", "append", "remove", "log", "fallback"}, rec : 1..n,
               move : BOOLEAN, day : 0..DayOf(MaxTime), cache : CachePaths, cacheLogs : BOOLEAN]
  BY <1>1, <1>2, JobAt
<1>5. Carried' = {} /\ JobGoesOn
  <2>1. job'.at = "remove" \/ job'.at = "idle"
    BY <1>1, <1>4 DEF MovesOn, Idle
  <2> QED
    BY <1>1, <2>1 DEF Carried, JobGoesOn, MovesOn
<1>6. MoveTarget.day = c.day
  BY <1>4, NameDay DEF MoveTarget, DaysInv, DaysOK, JobDay
<1>7. Content(io, c) \in Seq(1..n) /\ \A r \in Range(Content(io, c)) : InDay(io, c.day, r)
  BY <1>2, ContentType, EmptySeqFacts DEF Content, Exists, InDay
<1>8. KeepsDays(io, Copied) /\ SameHandle(io, Copied)
  <2>1. KeepsDays(io, io) /\ SameHandle(io, io)
    BY DEF KeepsDays, SameHandle
  <2> QED
    BY <1>2, <1>6, <1>7, <2>1, AppendToDays DEF Copied
<1>9. FileTypes(x, n) /\ FileTypes(Copied, n)
  <2>1. HeldOfCache \subseteq 1..n
    BY <1>2, UnwrittenType DEF HeldOfCache
  <2> QED
    BY <1>1, <1>2, <2>1, CopiedTypes, WithLateTypes
<1>10. x.files = Copied.files /\ x.handle = Copied.handle /\ x.last = Copied.last
  BY <1>9, WithLateIs DEF FileTypes
<1> HIDE DEF x, n
<1>11. KeepsDays(io, x) /\ SameHandle(io, x)
  BY <1>8, <1>10 DEF KeepsDays, InDay, SameHandle
<1>12. /\ KeepsDays(x, CloseLogFile(x))
       /\ CloseLogFile(x).last = x.last /\ CloseLogFile(x).handle = None
  BY <1>2, <1>9, <1>11, CloseLogFileDays
<1>13. KeepsDays(io, io') /\ SameHandle(io, io')
  <2>1. CASE io' = Copied
    BY <1>8, <2>1
  <2>2. CASE io' = CloseLogFile(x)
    BY <1>11, <1>12, <2>2 DEF KeepsDays, SameHandle
  <2>3. CASE io' = io
    BY <2>3 DEF KeepsDays, SameHandle
  <2> QED
    BY <1>1, <2>1, <2>2, <2>3 DEF MovesOn, x
<1>14. DaysOK(io')
  BY <1>13, KeptDaysOK DEF DaysInv
<1> QED
  BY <1>1, <1>3, <1>5, <1>14, JobStepDays

LEMMA RemoveCacheDays ==
  ASSUME DaysInv, TypesInv', RemoveCache
  PROVE  DaysInv'
<1>1. /\ job.at = "remove" /\ io' = RemoveFile(io, job.cache) /\ JobRests
      /\ job' = Idle /\ back' = back /\ starts' = starts
  BY DEF RemoveCache, counts
<1>2. FileTypes(io, Len(written)) /\ Len(written) \in Nat
  BY WrittenLength DEF DaysInv, TypesInv
<1>3. KeepsDays(io, io') /\ SameHandle(io, io')
  BY <1>1, <1>2, RemoveFileDays DEF DaysInv, DaysOK
<1>4. DaysOK(io')
  BY <1>3, KeptDaysOK DEF DaysInv
<1>5. Carried' = {} /\ JobGoesOn
  BY <1>1 DEF Carried, Idle, JobGoesOn
<1> QED
  BY <1>1, <1>4, <1>5, JobStepDays

LEMMA MoverAppendDays ==
  ASSUME DaysInv, TypesInv', NEW p, MoverAppend(p)
  PROVE  DaysInv'
<1> DEFINE A == AppendTo(io, LogPath(p), Content(io, p))
<1>1. mover.at # "idle" /\ mover.at = "scan" /\ p \in mover.todo /\ MoverRests /\ back' = back /\ starts' = starts
  BY DEF MoverAppend, CountFaults
<1>2. io' = io \/ (io' = A /\ Content(io, p) # <<>>)
  BY DEF MoverAppend, LogPath
<1>3. FileTypes(io, Len(written)) /\ Len(written) \in Nat /\ now \in Times
  BY WrittenLength DEF DaysInv, TypesInv
<1>4. Content(io, p) \in Seq(1..Len(written)) /\ \A r \in Range(Content(io, p)) : InDay(io, p.day, r)
  BY <1>3, ContentType, EmptySeqFacts DEF Content, Exists, InDay
<1>5. LogPath(p).day = p.day /\ LogPath(p).idx = p.idx
  BY DEF LogPath, Path
<1>6. KeepsDays(io, A) /\ SameHandle(io, A)
  BY <1>3, <1>4, <1>5, AppendToDays DEF DaysInv, DaysOK
<1> HIDE DEF A
<1>8. KeepsDays(io, io') /\ SameHandle(io, io')
  BY <1>2, <1>6 DEF KeepsDays, SameHandle
<1>9. UNCHANGED <<up, job, written, starts>> /\ ClockGoesOn
  <2>1. now' = now /\ now \in Nat /\ now' <= now
    BY <1>1, <1>3, LogFilesAssumption DEF MoverRests, Times
  <2> QED
    BY <1>1, <2>1 DEF MoverRests, config, ClockGoesOn
<1> QED
  BY <1>8, <1>9, OtherStepDays

LEMMA DeleteDays ==
  ASSUME DaysInv, TypesInv', MoverRemove \/ PrunerRemove
  PROVE  DaysInv'
<1>1. \E p : io' = RemoveFile(io, p)
  BY DEF MoverRemove, PrunerRemove
<1>2. FileTypes(io, Len(written)) /\ Len(written) \in Nat /\ now \in Times
  BY WrittenLength DEF DaysInv, TypesInv
<1>3. KeepsDays(io, io') /\ SameHandle(io, io')
  BY <1>1, <1>2, RemoveFileDays DEF DaysInv, DaysOK
<1>4. UNCHANGED <<up, job, written, starts, now, back>>
  BY DEF MoverRemove, PrunerRemove, MoverRests, PrunerRests, config, counts
<1>5. ClockGoesOn
  BY <1>2, <1>4, LogFilesAssumption DEF ClockGoesOn, Times
<1> QED
  BY <1>3, <1>4, <1>5, OtherStepDays

LEMMA RestDays ==
  ASSUME DaysInv, TypesInv',
         \/ MoverStart \/ MoverEnd \/ (\E p : MoverKeep(p))
         \/ (\E dir : PrunerStart(dir)) \/ PrunerEnd \/ (\E p : PrunerCheck(p))
         \/ (\E m : SetMode(m)) \/ Tick \/ ClockBack \/ UNCHANGED vars
  PROVE  DaysInv'
<1>1. UNCHANGED <<up, job, written, starts, io>>
  BY DEF MoverStart, MoverEnd, MoverKeep, MoverRests, PrunerStart, PrunerEnd, PrunerCheck, PrunerRests,
         SetMode, Tick, ClockBack, vars, ghosts, config, counts
<1>2. \/ now' = now /\ back' = back
      \/ now' = now + 1 /\ back' = back
      \/ back' = back + 1
  BY DEF MoverStart, MoverEnd, MoverKeep, MoverRests, PrunerStart, PrunerEnd, PrunerCheck, PrunerRests,
         SetMode, Tick, ClockBack, vars, ghosts, config, counts
<1>3. now \in Nat /\ back \in Nat
  BY LogFilesAssumption DEF DaysInv, TypesInv, Times
<1>4. ClockGoesOn
  BY <1>2, <1>3 DEF ClockGoesOn
<1>5. KeepsDays(io, io') /\ SameHandle(io, io')
  BY <1>1 DEF DaysInv, DaysOK, KeepsDays, SameHandle
<1> QED
  BY <1>1, <1>4, <1>5, OtherStepDays

LEMMA OpenDays ==
  ASSUME DaysInv, TypesInv', Open
  PROVE  DaysInv'
<1> DEFINE L == NeverOpened
           n == Len(written)
<1>1. /\ io' = [io EXCEPT !.last = L] /\ ~up /\ up' /\ starts' = starts + 1
      /\ UNCHANGED <<now, job, written, back>>
  BY DEF Open, ghosts
<1>2. n \in Nat /\ FileTypes(io, n) /\ IoShape(io) /\ starts \in Nat /\ now \in Nat
  <2>1. TypesInv /\ starts \in 0..MaxStarts /\ now \in Times
    BY DEF DaysInv, TypesInv
  <2>2. starts \in Nat /\ now \in Nat
    BY <2>1, LogFilesAssumption DEF Times
  <2>3. n \in Nat /\ IoShape(io)
    BY <2>1, WrittenLength
  <2>4. FileTypes(io, n)
    BY <2>1 DEF TypesInv
  <2> QED
    BY <2>2, <2>3, <2>4
<1>3. io.handle = None /\ job = Idle
  BY <1>1 DEF DaysInv, Lives
<1> HIDE DEF L
<1>4. io'.files = io.files /\ io'.handle = None /\ io'.last = L
  BY <1>1, <1>2, <1>3 DEF IoShape
<1>5. KeepsDays(io, io') /\ KeepsDays(io', io)
  BY <1>3, <1>4 DEF KeepsDays, InDay
<1>6. L.time = 0 /\ L.path = None
  BY DEF L, NeverOpened
<1>8. ASSUME back' = 0 PROVE DaysByClock(io)'
  <2>1. DaysByClock(io)
    BY <1>1, <1>8 DEF DaysInv, DaysOK
  <2> QED
    BY <1>1, <1>2, <1>4, <1>5, <1>6, <2>1 DEF DaysByClock, KeepsDays
<1>9. ASSUME starts' <= 1 PROVE \A d, r : ~InDay(io', d, r)
  <2>1. starts = 0
    BY <1>1, <1>2, <1>9
  <2>2. n = 0
    BY <2>1 DEF DaysInv, Lives
  <2> SUFFICES ASSUME NEW d, NEW r, InDay(io', d, r) PROVE FALSE
    OBVIOUS
  <2>3. r \in 1..n
    BY <1>2, <1>5, InDayTypes DEF KeepsDays
  <2> QED
    BY <2>2, <2>3
<1>10. ASSUME starts' <= 1 PROVE DaysByLast(io)'
  BY <1>4, <1>6, <1>9, <1>10 DEF DaysByLast
<1>11. ASSUME OneClock' PROVE Ordered(io')
  <2>1. CASE back' = 0
    <3>1. Ordered(io)
      BY <1>1, <2>1 DEF DaysInv, DaysOK, OneClock
    <3> QED
      BY <1>5, <3>1 DEF Ordered, KeepsDays
  <2>2. CASE starts' <= 1
    BY <1>9, <2>2 DEF Ordered
  <2> QED
    BY <1>11, <2>1, <2>2 DEF OneClock
<1>12. DaysOK(io)'
  BY <1>8, <1>10, <1>11 DEF DaysOK
<1>13. Lives'
  <2>1. starts' # 0
    BY <1>1, <1>2
  <2> QED
    BY <1>1, <2>1 DEF Lives
<1>14. JobDay' /\ Carried' = {}
  BY <1>1, <1>3 DEF JobDay, Carried, Idle
<1> QED
  BY <1>12, <1>13, <1>14 DEF DaysInv

\* The end of a process, orderly or not.
LEMMA DownDays ==
  ASSUME DaysInv, TypesInv', Close \/ Crash
  PROVE  DaysInv'
<1>1. /\ ~up' /\ job' = Idle /\ up
      /\ UNCHANGED <<now, written, back, starts>>
  BY DEF Close, Crash, ghosts, counts
<1>2. FileTypes(io, Len(written)) /\ Len(written) \in Nat /\ IoShape(io)
  BY WrittenLength DEF DaysInv, TypesInv
<1>3. /\ KeepsDays(io, io') /\ SameHandle(io, io') /\ io'.handle = None
  <2>1. CASE Close
    <3>1. io' = CloseLogFile(io)
      BY <2>1 DEF Close
    <3> QED
      BY <1>2, <3>1, CloseLogFileDays DEF DaysInv, DaysOK, SameHandle
  <2>2. CASE Crash
    <3>1. io' = [io EXCEPT !.handle = None]
      BY <2>2 DEF Crash
    <3>2. io'.files = io.files /\ io'.last = io.last /\ io'.handle = None
      BY <1>2, <3>1 DEF IoShape
    <3> QED
      BY <3>2 DEF KeepsDays, InDay, SameHandle
  <2> QED
    BY <2>1, <2>2
<1>4. DaysOK(io')
  BY <1>3, KeptDaysOK DEF DaysInv
<1>5. DaysOK(io)'
  BY <1>1, <1>4, DaysOKSame
<1>6. Lives'
  BY <1>1, <1>3 DEF DaysInv, Lives
<1>7. JobDay' /\ Carried' = {}
  BY <1>1 DEF JobDay, Carried, Idle
<1> QED
  BY <1>5, <1>6, <1>7 DEF DaysInv

LEMMA DaysStep == DaysInv /\ [Next]_vars => DaysInv'
<1> SUFFICES ASSUME DaysInv, [Next]_vars PROVE DaysInv'
  OBVIOUS
<1>0. TypesInv'
  BY TypesStep DEF DaysInv
<1>1. CASE Log2File BY <1>1, <1>0, Log2FileDays
<1>2. CASE Writing BY <1>2, <1>0, WritingDays
<1>3. CASE AppendCache BY <1>3, <1>0, AppendCacheDays
<1>4. CASE RemoveCache BY <1>4, <1>0, RemoveCacheDays
<1>5. CASE \E p : MoverAppend(p) BY <1>5, <1>0, MoverAppendDays
<1>6. CASE MoverRemove \/ PrunerRemove BY <1>6, <1>0, DeleteDays
<1>7. CASE Open BY <1>7, <1>0, OpenDays
<1>8. CASE Close \/ Crash BY <1>8, <1>0, DownDays
<1>9. CASE \/ MoverStart \/ MoverEnd \/ (\E p : MoverKeep(p))
           \/ (\E dir : PrunerStart(dir)) \/ PrunerEnd \/ (\E p : PrunerCheck(p))
           \/ (\E m : SetMode(m)) \/ Tick \/ ClockBack \/ UNCHANGED vars
  BY <1>9, <1>0, RestDays
<1> QED
  BY <1>1, <1>2, <1>3, <1>4, <1>5, <1>6, <1>7, <1>8, <1>9 DEF Next, Writing

\* The days of the files are the order of their blocks, in both modes, split or not
\* and whatever fails, even for a clock that is set back while the process lives.
THEOREM LogFilesDaysInOrder == Spec => []DaysInOrder
<1>1. Init => DaysInv
  <2> SUFFICES ASSUME Init PROVE DaysInv
    OBVIOUS
  <2>1. TypesInv
    BY InitTypes
  <2>2. io.files = <<>> /\ io.handle = None /\ job = Idle /\ io.last = NeverOpened /\ ~up /\ written = <<>> /\ now = 0
    BY DEF Init
  <2>3. DOMAIN io.files = {} /\ Len(written) = 0 /\ io.last.time = 0 /\ io.last.path = None
    BY <2>2 DEF NeverOpened
  <2>4. \A d, r : ~InDay(io, d, r)
    BY <2>2, <2>3 DEF InDay
  <2>5. DaysOK(io)
    BY <2>2, <2>3, <2>4 DEF DaysOK, DaysByClock, DaysByLast, Ordered
  <2>6. Lives /\ JobDay /\ Carried = {}
    BY <2>2, <2>3 DEF Lives, JobDay, Carried, Idle
  <2> QED
    BY <2>1, <2>5, <2>6 DEF DaysInv
<1>2. DaysInv /\ [Next]_vars => DaysInv'
  BY DaysStep
<1>3. DaysInv => DaysInOrder
  <2> SUFFICES ASSUME DaysInv, OneClock, NEW p \in DOMAIN io.files, NEW q \in DOMAIN io.files,
                      p.day < q.day,
                      NEW r \in Range(io.files[p].recs), NEW t \in Range(io.files[q].recs)
               PROVE  r < t
    BY DEF DaysInOrder, OneClock
  <2>3. InDay(io, p.day, r) /\ InDay(io, q.day, t)
    BY DEF InDay
  <2> QED
    BY <2>3 DEF DaysInv, DaysOK, Ordered
<1> QED
  BY <1>1, <1>2, <1>3, PTL DEF Spec

-----------------------------------------------------------------------------
(* Async mode: no file stays open, so a step that writes puts at most one  *)
(* block at the end of one file.                                           *)

\* In async mode no file stays open from one step to the next.
AsyncInv == TypesInv /\ mode = "async" /\ io.handle = None

\* y is x with the blocks s at the end of file p, which fopen creates if need be.
Put(x, y, p, s) ==
  /\ DOMAIN y.files = DOMAIN x.files \cup {p}
  /\ y.files[p].recs = Content(x, p) \o s
  /\ y.files[p].mtime = now \/ (s = <<>> /\ p \in DOMAIN x.files /\ y.files[p] = x.files[p])
  /\ \A q \in DOMAIN x.files \ {p} : y.files[q] = x.files[q]

LEMMA NothingToClose ==
  ASSUME NEW x, IoShape(x), x.handle = None
  PROVE  CloseLogFile(x) = x
BY DEF CloseLogFile, Drain, IoShape

LEMMA TouchPuts ==
  ASSUME NEW n, NEW x, FileTypes(x, n), NEW p
  PROVE  Put(x, Touch(x, p), p, <<>>)
<1> DEFINE y == Touch(x, p)
<1>1. Content(x, p) \in Seq(1..n) /\ <<>> \in Seq(1..n)
  BY ContentType
<1>2. Content(x, p) \o <<>> = Content(x, p)
  BY <1>1
<1>3. CASE Exists(x, p)
  <2>1. y = x
    BY <1>3 DEF Touch
  <2> QED
    BY <1>2, <1>3, <2>1 DEF Put, Content, Exists
<1>4. CASE ~Exists(x, p)
  <2>1. Appended(x, y, p, <<>>)
    BY <1>4, AppendToIs DEF Touch, FileTypes
  <2> QED
    BY <2>1 DEF Put, Appended
<1> QED
  BY <1>3, <1>4

\* __WriteFile and __CloseLogFile after an fopen of file p.
LEMMA AsyncWriteFile ==
  ASSUME NEW n \in Nat, FileTypes(io, n), now \in Times, mode = "async", io.handle = None,
         NEW x, FileTypes(x, n), NEW p \in Paths,
         x.files = Touch(io, p).files, x.handle = Opened(p),
         NEW rec \in 1..n, NEW ok, NEW spills
  PROVE  LET y == WriteFile(x, rec, ok, spills) IN
         /\ y.handle = None /\ y.last = x.last
         /\ ok => Put(io, y, p, <<rec>>)
         /\ ~ok => Put(io, y, p, <<>>)
<1> DEFINE y == WriteFile(x, rec, ok, spills)
           t == Took(x, rec, ok, spills)
           T == Touch(io, p)
<1>1. /\ x.handle.buf = <<>> /\ x.handle.path = p /\ x.handle.linked = TRUE /\ x.handle.opened = now
      /\ x.handle \in [path : Paths, linked : BOOLEAN, opened : Times, buf : Seq(1..n)]
  BY DEF Opened
<1>2. Spilled(x, spills) = x
  BY <1>1 DEF Spilled, Drain
<1>3. IoShape(x)
  BY DEF FileTypes
<1>4. y = CloseLogFile(t)
  BY WriteFileIs
<1>5. Put(io, T, p, <<>>) /\ Content(io, p) \in Seq(1..n)
  BY TouchPuts, ContentType
<1>6. x.handle # None
  BY <1>1, HandleIsOpen
<1>7. CASE ~ok
  <2>1. t = x
    BY <1>2, <1>7 DEF Took
  <2>2. Drain(x) = x
    BY <1>1 DEF Drain
  <2>3. y.handle = None /\ y.last = x.last /\ y.files = T.files
    BY <1>3, <1>4, <2>1, <2>2, CloseLogFileIs DEF Closed
  <2> QED
    BY <1>5, <1>7, <2>3 DEF Put
<1>8. CASE ok
  <2>1. t = Buffered(x, rec)
    BY <1>2, <1>8 DEF Took
  <2>2. TakesBlock(x, t, rec)
    BY <1>3, <2>1, BufferedIs
  <2> HIDE DEF t, y
  <2>3. /\ IoShape(t) /\ t.files = x.files /\ t.last = x.last
        /\ t.handle = [x.handle EXCEPT !.buf = Append(<<>>, rec)]
    BY <1>1, <2>2 DEF TakesBlock
  <2>4. /\ t.handle.path = p /\ t.handle.linked = TRUE /\ t.handle.buf = <<rec>>
    BY <1>1, <2>3
  <2>5. FileTypes(t, n)
    BY <1>6, <2>1, BufferedTypes
  <2>6. t.handle # None
    <3>1. [x.handle EXCEPT !.buf = Append(<<>>, rec)]
            \in [path : Paths, linked : BOOLEAN, opened : Times, buf : Seq(1..n)]
      <4>1. Append(<<>>, rec) \in Seq(1..n)
        OBVIOUS
      <4> HIDE DEF t
      <4> QED
        BY <1>1, <4>1
    <3> QED
      BY <2>3, <3>1, HandleIsOpen
  <2>7. t.handle.buf # <<>>
    BY <2>4
  <2> DEFINE A == AppendTo(t, p, <<rec>>)
  <2>8. Drain(t).files = A.files
    BY <2>3, <2>4, <2>6, <2>7, DrainIs DEF Drained
  <2>9. y.handle = None /\ y.last = x.last /\ y.files = A.files
    BY <1>4, <2>3, <2>8, CloseLogFileIs DEF Closed
  <2>10. Appended(t, A, p, <<rec>>)
    BY <2>3, AppendToIs
  <2> HIDE DEF A, T
  <2>11. Content(t, p) = Content(io, p) /\ p \in DOMAIN T.files
    <3>1. t.files = T.files
      BY <2>3 DEF T
    <3>2. Content(io, p) \o <<>> = Content(io, p)
      BY <1>5
    <3> QED
      BY <1>5, <3>1, <3>2 DEF Put, Content, Exists
  <2>12. /\ DOMAIN A.files = DOMAIN io.files \cup {p}
         /\ A.files[p] = [recs |-> Content(io, p) \o <<rec>>, mtime |-> now]
         /\ \A q \in DOMAIN io.files \ {p} : A.files[q] = io.files[q]
    BY <1>5, <2>3, <2>10, <2>11 DEF Put, Appended, T
  <2>13. Put(io, A, p, <<rec>>)
    BY <2>12 DEF Put
  <2> QED
    BY <1>8, <2>9, <2>13 DEF Put, y
<1> QED
  BY <1>7, <1>8

\* What a writing step comes to in async mode.
WritesNothing == io'.files = io.files
\* The block it carries goes to the end of the file.
WritesBlock == Put(io, io', OpenPath(WriteDir), <<job.rec>>)
\* The file is created, or kept; the write failed.
WritesEmpty == Put(io, io', OpenPath(WriteDir), <<>>)

LEMMA AsyncOpenIs ==
  ASSUME AsyncInv, NEW dir \in {"cache", "log"}, NEW ok \in BOOLEAN
  PROVE  LET x == OpenLogFile(dir, ok) IN
         /\ FileTypes(x, Len(written)) /\ x.last = OpenLast(dir)
         /\ OpenPath(dir) \in Paths
         /\ OpenPath(dir) = IF now < io.last.time THEN io.last.path ELSE LogFileName(io, DayOf(now), dir)
         /\ ok => x.files = Touch(io, OpenPath(dir)).files /\ x.handle = Opened(OpenPath(dir)) /\ x.handle # None
         /\ ~ok => x.files = io.files /\ x.handle = None
<1> DEFINE x == OpenLogFile(dir, ok)
           n == Len(written)
<1>1. TypesInv /\ n \in Nat /\ IoShape(io) /\ FileTypes(io, n) /\ now \in Times
  BY WrittenLength DEF AsyncInv, TypesInv
<1>2. OpenedLog(x, dir, ok)
  BY <1>1, OpenLogFileIs
<1>3. FileTypes(x, n)
  BY <1>1, OpenLogFileTypes
<1>4. OpenPath(dir) \in Paths
  BY <1>1, OpenPathType
<1>5. CloseLogFile(io) = io
  BY <1>1, NothingToClose DEF AsyncInv
<1>6. ~SameDay(io)
  BY DEF SameDay, AsyncInv
<1> HIDE DEF x, n
<1>7. /\ x.last = OpenLast(dir)
      /\ ok => x.files = Touch(io, OpenPath(dir)).files /\ x.handle = Opened(OpenPath(dir))
      /\ ~ok => x.files = io.files /\ x.handle = None
  BY <1>2, <1>5, <1>6 DEF OpenedLog
<1>8. ok => x.handle # None
  <2>1. Opened(OpenPath(dir)) \in [path : Paths, linked : BOOLEAN, opened : Times, buf : Seq(1..n)]
    BY <1>1, <1>4 DEF Opened
  <2> QED
    BY <1>1, <1>7, <2>1, HandleIsOpen
<1>9. OpenPath(dir) = IF now < io.last.time THEN io.last.path ELSE LogFileName(io, DayOf(now), dir)
  BY <1>5 DEF OpenPath
<1> QED
  BY <1>3, <1>4, <1>7, <1>8, <1>9 DEF x, n

LEMMA AsyncWriting ==
  ASSUME AsyncInv, Writing
  PROVE  /\ io'.handle = None
         /\ io'.last = OpenLast(WriteDir) /\ OpenPath(WriteDir) \in Paths
         /\ WritesNothing \/ WritesEmpty \/ (WritesBlock /\ Carried' = {})
<1> DEFINE n == Len(written)
           P == OpenPath(WriteDir)
           t == OpenLogFile(WriteDir, TRUE)
           f == OpenLogFile(WriteDir, FALSE)
<1>1. TypesInv /\ n \in Nat /\ FileTypes(io, n) /\ now \in Times /\ mode = "async" /\ io.handle = None
  BY WrittenLength DEF AsyncInv, TypesInv
<1>2. WriteDir \in {"cache", "log"} /\ job.at # "idle"
  BY DEF WriteDir, Writing, WriteCache, WriteLog, WriteFallback
<1>3. job.rec \in 1..n
  BY <1>1, <1>2, JobAt
<1>4. /\ FileTypes(t, n) /\ t.last = OpenLast(WriteDir) /\ P \in Paths
      /\ t.files = Touch(io, P).files /\ t.handle = Opened(P) /\ t.handle # None
  BY <1>2, AsyncOpenIs
<1>5. /\ f.last = OpenLast(WriteDir) /\ f.files = io.files /\ f.handle = None
  BY <1>2, AsyncOpenIs
<1> HIDE DEF t, f, P, n
<1>6. ASSUME NEW ok, NEW spills
      PROVE  LET y == WriteFile(t, job.rec, ok, spills) IN
             /\ y.handle = None /\ y.last = OpenLast(WriteDir)
             /\ ok => Put(io, y, P, <<job.rec>>)
             /\ ~ok => Put(io, y, P, <<>>)
  BY <1>1, <1>3, <1>4, AsyncWriteFile
<1>7. ASSUME NEW ok, NEW spills, io' = WriteFile(t, job.rec, ok, spills), ok => Carried' = {}
      PROVE  /\ io'.handle = None /\ io'.last = OpenLast(WriteDir)
             /\ WritesEmpty \/ (WritesBlock /\ Carried' = {})
  BY <1>6, <1>7, Zenon DEF WritesEmpty, WritesBlock, P
<1>8. ASSUME io' = f
      PROVE  io'.handle = None /\ io'.last = OpenLast(WriteDir) /\ WritesNothing
  BY <1>5, <1>8 DEF WritesNothing
<1>9. PICK openOk \in BOOLEAN : WritingStep(OpenLogFile(WriteDir, openOk))
  BY <1>1, WritingIs
<1>10. WritingStep(t) \/ WritingStep(f)
  <2>1. CASE openOk
    BY <1>9, <2>1 DEF t
  <2>2. CASE ~openOk
    BY <1>9, <2>2 DEF f
  <2> QED
    BY <2>1, <2>2
<1>11. CASE WritingStep(f)
  BY <1>4, <1>5, <1>8, <1>11 DEF WritingStep, P
<1>12. CASE WritingStep(t)
  <2>1. WriteFile(t, job.rec, FALSE, FALSE) = CloseLogFile(t)
    BY <1>1 DEF WriteFile
  <2>2. CASE io' = CloseLogFile(t)
    BY <1>4, <1>7, <2>1, <2>2 DEF P
  <2>3. CASE Carried' = {} /\ \E ok, spills : io' = WriteFile(t, job.rec, ok, spills)
    BY <1>4, <1>7, <2>3 DEF P
  <2> QED
    BY <1>4, <1>12, <2>2, <2>3 DEF WritingStep
<1> QED
  BY <1>10, <1>11, <1>12

LEMMA AppendedPuts ==
  ASSUME NEW x, NEW y, NEW p, NEW s, Appended(x, y, p, s)
  PROVE  Put(x, y, p, s)
BY DEF Appended, Put

\* The other steps of an appender in async mode: a move puts the blocks of one
\* file at the end of another, a removal takes a file away.
Puts(c, p) == Put(io, io', p, Content(io, c)) /\ c \in DOMAIN io.files /\ Content(io, c) # <<>>
\* File p is taken away.
Takes(p) == Removed(io, io', p)

LEMMA AsyncAppendCache ==
  ASSUME AsyncInv, AppendCache
  PROVE  /\ job.at = "append" /\ JobRests /\ back' = back /\ starts' = starts
         /\ io'.handle = None /\ io'.last = io.last
         /\ \/ io' = io /\ job' = Idle
            \/ /\ Exists(io, job.cache) /\ job' = [job EXCEPT !.at = "remove"]
               /\ IF Content(io, job.cache) = <<>> THEN io' = io ELSE Puts(job.cache, MoveTarget)
<1> DEFINE s == Content(io, job.cache)
           A == AppendTo(io, MoveTarget, s)
<1>1. /\ job.at = "append" /\ JobRests
      /\ MovesOn \/ (io' = io /\ job' = Idle)
  BY AppendCacheIs
<1>2. back' = back /\ starts' = starts
  BY DEF AppendCache, CountFaults
<1>3. Appended(io, A, MoveTarget, s)
  BY AppendToIs, WrittenLength DEF AsyncInv
<1> HIDE DEF A, s
<1>4. CASE MovesOn
  <2>1. /\ Exists(io, job.cache) /\ io' = (IF s = <<>> THEN io ELSE A)
        /\ job' = [job EXCEPT !.at = "remove"]
    BY <1>4 DEF MovesOn, Copied, AsyncInv, A, s
  <2>2. s # <<>> => Put(io, io', MoveTarget, s)
    BY <1>3, <2>1, AppendedPuts
  <2> QED
    BY <1>1, <1>2, <1>3, <2>1, <2>2 DEF AsyncInv, Appended, Puts, s, Exists
<1> QED
  BY <1>1, <1>2, <1>4 DEF AsyncInv

LEMMA AsyncMoverAppend ==
  ASSUME AsyncInv, NEW p, MoverAppend(p)
  PROVE  /\ io'.handle = None /\ io'.last = io.last
         /\ io' = io \/ Puts(p, LogPath(p))
<1> DEFINE s == Content(io, p)
           A == AppendTo(io, LogPath(p), s)
<1>1. io' = io \/ (io' = A /\ s # <<>>)
  BY DEF MoverAppend, LogPath
<1>2. Appended(io, A, LogPath(p), s)
  BY AppendToIs, WrittenLength DEF AsyncInv
<1>3. s # <<>> => p \in DOMAIN io.files
  BY DEF Content, Exists
<1> HIDE DEF A, s
<1>4. Put(io, A, LogPath(p), s)
  BY <1>2, AppendedPuts
<1> QED
  BY <1>1, <1>2, <1>3, <1>4 DEF AsyncInv, Appended, Puts, s

LEMMA AsyncRemove ==
  ASSUME AsyncInv, NEW p, io' = RemoveFile(io, p)
  PROVE  Takes(p) /\ io'.handle = None /\ io'.last = io.last
<1>1. Removed(io, io', p)
  BY RemoveFileIs, WrittenLength DEF AsyncInv
<1> QED
  BY <1>1 DEF AsyncInv, Removed, Takes

\* Steps that leave the files alone.
Quiet ==
  \/ Log2File \/ MoverStart \/ MoverEnd \/ (\E p : MoverKeep(p))
  \/ (\E dir \in {"cache", "log"} : PrunerStart(dir)) \/ PrunerEnd \/ (\E p : PrunerCheck(p))
  \/ Tick \/ ClockBack \/ UNCHANGED vars

LEMMA QuietIo ==
  ASSUME Quiet PROVE io' = io
BY DEF Quiet, Log2File, MoverStart, MoverEnd, MoverKeep, PrunerStart, PrunerEnd, PrunerCheck, Tick, ClockBack, vars

\* A process begins or ends.
TurnsOver == Open \/ Close \/ Crash

LEMMA AsyncTurnsOver ==
  ASSUME AsyncInv, TurnsOver
  PROVE  /\ io'.files = io.files /\ io'.handle = None
         /\ io'.last = io.last \/ io'.last = NeverOpened
<1>1. IoShape(io)
  BY WrittenLength DEF AsyncInv
<1>2. CASE Open
  <2> DEFINE L == NeverOpened
  <2>1. io' = [io EXCEPT !.last = L]
    BY <1>2 DEF Open
  <2> HIDE DEF L
  <2> QED
    BY <1>1, <2>1 DEF IoShape, AsyncInv, L
<1>3. CASE Close
  BY <1>1, <1>3, NothingToClose DEF Close, AsyncInv
<1>4. CASE Crash
  <2>1. io' = [io EXCEPT !.handle = None]
    BY <1>4 DEF Crash
  <2> QED
    BY <1>1, <2>1 DEF IoShape
<1> QED
  BY <1>2, <1>3, <1>4 DEF TurnsOver

LEMMA AsyncCases ==
  ASSUME Modes = {"async"}, AsyncInv, [Next]_vars
  PROVE  \/ Quiet \/ Writing \/ AppendCache \/ RemoveCache
         \/ (\E p : MoverAppend(p)) \/ MoverRemove \/ PrunerRemove \/ TurnsOver
<1>1. ASSUME NEW m \in Modes, SetMode(m) PROVE FALSE
  BY <1>1 DEF SetMode, AsyncInv
<1> QED
  BY <1>1 DEF Next, Quiet, Writing, TurnsOver

LEMMA AsyncStep ==
  ASSUME Modes = {"async"}, AsyncInv, [Next]_vars
  PROVE  AsyncInv'
<1>1. TypesInv'
  BY TypesStep DEF AsyncInv
<1>2. mode' = "async"
  BY <1>1 DEF TypesInv
<1>3. io'.handle = None
  <2>1. CASE Quiet BY <2>1, QuietIo DEF AsyncInv
  <2>2. CASE Writing BY <2>2, AsyncWriting
  <2>3. CASE AppendCache BY <2>3, AsyncAppendCache
  <2>4. CASE RemoveCache \/ MoverRemove \/ PrunerRemove
    BY <2>4, AsyncRemove DEF RemoveCache, MoverRemove, PrunerRemove
  <2>5. CASE \E p : MoverAppend(p) BY <2>5, AsyncMoverAppend
  <2>6. CASE TurnsOver BY <2>6, AsyncTurnsOver
  <2> QED
    BY <2>1, <2>2, <2>3, <2>4, <2>5, <2>6, AsyncCases
<1> QED
  BY <1>1, <1>2, <1>3 DEF AsyncInv

LEMMA AsyncInit ==
  ASSUME Modes = {"async"}, Init
  PROVE  AsyncInv
BY InitTypes DEF Init, AsyncInv

\* Without failing opens and writes the block is always written, where it was
\* to be written.
LEMMA SureWriting ==
  ASSUME Faults \subseteq {"append"}, AsyncInv, Writing, job.at # "fallback"
  PROVE  /\ job.at \in {"cache", "log"} /\ WritesBlock
         /\ job' = Idle \/ (job.at = "cache" /\ job' = [job EXCEPT !.at = "append"])
<1> DEFINE n == Len(written)
           P == OpenPath(WriteDir)
           t == OpenLogFile(WriteDir, TRUE)
<1>1. TypesInv /\ n \in Nat /\ FileTypes(io, n) /\ now \in Times /\ mode = "async" /\ io.handle = None
  BY WrittenLength DEF AsyncInv, TypesInv
<1>2. job.at \in {"cache", "log"} /\ WriteDir = job.at
  BY DEF WriteDir, Writing, WriteCache, WriteLog, WriteFallback
<1>3. job.rec \in 1..n
  BY <1>1, <1>2, JobAt
<1>4. /\ FileTypes(t, n) /\ t.last = OpenLast(WriteDir) /\ P \in Paths
      /\ t.files = Touch(io, P).files /\ t.handle = Opened(P) /\ t.handle # None
  BY <1>2, AsyncOpenIs
<1>5. MayFail("open") = {TRUE} /\ MayFail("write") = {TRUE}
  BY DEF MayFail
<1>6. /\ \E spills : io' = WriteFile(t, job.rec, TRUE, spills)
      /\ job' = Idle \/ (job.at = "cache" /\ job' = [job EXCEPT !.at = "append"])
  <2> HIDE DEF n, P
  <2>1. CASE WriteCache
    BY <1>2, <1>4, <1>5, <2>1 DEF WriteCache
  <2>2. CASE WriteLog
    BY <1>2, <1>4, <1>5, <2>2 DEF WriteLog
  <2> QED
    BY <1>2, <2>1, <2>2 DEF Writing, WriteFallback
<1> HIDE DEF t, P, n
<1>7. PICK spills : io' = WriteFile(t, job.rec, TRUE, spills)
  BY <1>6
<1>8. Put(io, io', P, <<job.rec>>)
  BY <1>1, <1>3, <1>4, <1>7, AsyncWriteFile
<1> QED
  BY <1>2, <1>6, <1>8 DEF WritesBlock, P

-----------------------------------------------------------------------------
(* What the clock says of a file, as long as it is not set back (Dates).   *)

\* File p is not empty, and neither its day nor its blocks are younger than its
\* mtime.
Dated(x, p) ==
  /\ x.files[p].recs # <<>>
  /\ x.files[p].mtime <= now
  /\ p.day <= DayOf(x.files[p].mtime)
  /\ \A r \in Range(x.files[p].recs) : written[r] <= x.files[p].mtime
  /\ MaxFileSize = 0 => p.idx = 0

\* The __Log2File in progress began in this unit of time or the one before.
JobDated ==
  job # Idle =>
    /\ job.at # "fallback"
    /\ job.day = DayOf(written[job.rec]) /\ job.cache.day = job.day
    /\ written[job.rec] <= now /\ now <= written[job.rec] + 1

\* What is known while the clock has not been set back.
Dates ==
  /\ io.last.time <= now
  /\ pruner # Idle => pruner.start <= now
  /\ \A p \in DOMAIN io.files : Dated(io, p)
  /\ JobDated

\* The inductive invariant.
TimesInv == AsyncInv /\ (back = 0 => Dates)

LEMMA TimesFacts ==
  ASSUME AsyncInv
  PROVE  /\ Len(written) \in Nat /\ FileTypes(io, Len(written)) /\ IoShape(io)
         /\ now \in Times /\ now \in Nat /\ DayOf(now) \in Nat
         /\ written \in Seq(Times)
         /\ \A r \in 1..Len(written) : written[r] \in Nat
         /\ \A p \in DOMAIN io.files : /\ io.files[p].recs \in Seq(1..Len(written))
                                       /\ io.files[p].mtime \in Nat
                                       /\ p \in Paths /\ p.day \in Nat /\ p.idx \in Nat
         /\ \A p \in DOMAIN io.files : \A r \in Range(io.files[p].recs) : r \in 1..Len(written)
<1> DEFINE n == Len(written)
<1>1. TypesInv /\ n \in Nat /\ FileTypes(io, n) /\ IoShape(io) /\ now \in Times /\ written \in Seq(Times)
  BY WrittenLength DEF AsyncInv, TypesInv
<1>2. Times \subseteq Nat
  BY LogFilesAssumption DEF Times
<1>3. now \in Nat /\ DayOf(now) \in Nat
  BY <1>1, <1>2, DayOfMono
<1>4. \A r \in 1..n : written[r] \in Nat
  <2>1. ASSUME NEW S, NEW s \in Seq(S) PROVE \A r \in 1..Len(s) : s[r] \in S
    OBVIOUS
  <2>2. \A r \in 1..Len(written) : written[r] \in Times
    BY <1>1, <2>1
  <2> QED
    BY <1>2, <2>2
<1> HIDE DEF n
<1>5. ASSUME NEW p \in DOMAIN io.files
      PROVE  io.files[p].recs \in Seq(1..n) /\ io.files[p].mtime \in Nat
             /\ p \in Paths /\ p.day \in Nat /\ p.idx \in Nat /\ Range(io.files[p].recs) \subseteq 1..n
  <2>1. io.files[p] \in [recs : Seq(1..n), mtime : Times] /\ p \in Paths
    BY <1>1 DEF FileTypes
  <2>2. io.files[p].recs \in Seq(1..n) /\ io.files[p].mtime \in Times
    BY <2>1
  <2>3. p.day \in Nat /\ p.idx \in Nat
    BY <2>1 DEF Paths
  <2> QED
    BY <1>2, <2>1, <2>2, <2>3, RangeType
<1> QED
  BY <1>1, <1>3, <1>4, <1>5 DEF n

\* A file that grows by blocks that are not younger than now is young.
LEMMA PutDated ==
  ASSUME AsyncInv, \A q \in DOMAIN io.files : Dated(io, q), NEW y, NEW p, NEW s \in Seq(1..Len(written)),
         Put(io, y, p, s), s # <<>>, p.day <= DayOf(now), MaxFileSize = 0 => p.idx = 0,
         \A r \in Range(s) : written[r] <= now
  PROVE  \A q \in DOMAIN y.files : Dated(y, q)
<1> DEFINE n == Len(written)
           c == Content(io, p)
<1>1. now \in Nat /\ FileTypes(io, n) /\ c \in Seq(1..n)
  BY TimesFacts, ContentType
<1>2. \A r \in Range(c) : written[r] <= now
  <2>1. CASE p \in DOMAIN io.files
    <3>1. c = io.files[p].recs /\ io.files[p].mtime <= now /\ io.files[p].mtime \in Nat
      BY <2>1, TimesFacts DEF Content, Exists, Dated
    <3>2. \A r \in Range(c) : r \in 1..n /\ written[r] \in Nat /\ written[r] <= io.files[p].mtime
      BY <2>1, <3>1, TimesFacts DEF Dated
    <3> QED
      BY <1>1, <3>1, <3>2
  <2>2. CASE p \notin DOMAIN io.files
    BY <2>2, EmptySeqFacts DEF Content, Exists
  <2> QED
    BY <2>1, <2>2
<1> HIDE DEF c, n
<1>3. y.files[p].recs = c \o s /\ y.files[p].mtime = now
  BY DEF Put, c
<1>4. Range(c \o s) = Range(c) \cup Range(s) /\ c \o s # <<>>
  <2>1. Len(c \o s) = Len(c) + Len(s) /\ Len(c) \in Nat /\ Len(s) \in Nat /\ Len(s) # 0
    BY <1>1 DEF n
  <2>2. c \o s # <<>>
    BY <2>1
  <2> QED
    BY <1>1, <2>2, RangeConcat DEF n
<1>5. Dated(y, p)
  <2>1. now <= now
    BY <1>1
  <2> QED
    BY <1>2, <1>3, <1>4, <2>1 DEF Dated
<1>6. ASSUME NEW q \in DOMAIN y.files, q # p PROVE Dated(y, q)
  BY <1>6 DEF Put, Dated
<1> QED
  BY <1>5, <1>6

\* The index that the next block of a day goes to.
LEMMA NextIsTop ==
  ASSUME NEW n, NEW x, FileTypes(x, n), NEW day, MaxFileSize = 0 => \A p \in DOMAIN x.files : p.idx = 0
  PROVE  /\ NextFileIndex(x, day) \in Nat
         /\ \A p \in DOMAIN x.files : p.day = day => p.idx <= NextFileIndex(x, day)
         /\ MaxFileSize = 0 => NextFileIndex(x, day) = 0
<1> DEFINE idxs == {p.idx : p \in {q \in DOMAIN x.files : q.day = day}}
<1>1. \A p \in DOMAIN x.files : p.idx \in Nat
  BY DEF FileTypes, Paths
<1>2. PICK m \in Nat : \A p \in DOMAIN x.files : p.idx <= m
  BY DEF FileTypes
<1>3. idxs \subseteq Nat /\ \A i \in idxs : i <= m
  BY <1>1, <1>2
<1>4. \A p \in DOMAIN x.files : p.day = day => p.idx \in idxs
  OBVIOUS
<1>5. idxs # {} => Max(idxs) \in Nat /\ \A i \in idxs : i <= Max(idxs)
  <2> HIDE DEF idxs
  <2> QED
    BY <1>2, <1>3, MaxOfBounded
<1>6. \/ (MaxFileSize = 0 \/ idxs = {}) /\ NextFileIndex(x, day) = 0
      \/ MaxFileSize # 0 /\ idxs # {} /\ NextFileIndex(x, day) \in {Max(idxs), Max(idxs) + 1}
  BY DEF NextFileIndex
<1> HIDE DEF idxs
<1>7. CASE MaxFileSize = 0
  BY <1>6, <1>7
<1>8. CASE MaxFileSize # 0 /\ idxs = {}
  BY <1>4, <1>6, <1>8
<1>9. CASE MaxFileSize # 0 /\ idxs # {} /\ NextFileIndex(x, day) \in {Max(idxs), Max(idxs) + 1}
  <2> DEFINE M == Max(idxs)
  <2>1. M \in Nat /\ \A i \in idxs : i <= M
    BY <1>5, <1>9
  <2>2. \A i \in idxs : i <= M + 1
    BY <1>3, <2>1
  <2> QED
    BY <1>4, <1>9, <2>1, <2>2
<1> QED
  BY <1>6, <1>7, <1>8, <1>9

\* While the clock is not behind the last open a block is put into a file of today.
LEMMA WritesNow ==
  ASSUME AsyncInv, io.last.time <= now, NEW dir \in {"cache", "log"}
  PROVE  /\ OpenPath(dir) = LogFileName(io, DayOf(now), dir) /\ OpenPath(dir) \in Paths
         /\ OpenPath(dir).day = DayOf(now) /\ OpenPath(dir).dir = dir
         /\ OpenPath(dir).idx = NextFileIndex(io, DayOf(now))
<1>1. FileTypes(io, Len(written)) /\ now \in Nat
  BY TimesFacts
<1>2. io.last.time \in Nat
  BY <1>1, LogFilesAssumption DEF FileTypes, Times
<1>3. ~(now < io.last.time)
  BY <1>1, <1>2
<1>4. OpenPath(dir) = LogFileName(io, DayOf(now), dir) /\ OpenPath(dir) \in Paths
  BY <1>3, AsyncOpenIs
<1> QED
  BY <1>4 DEF LogFileName, Path

LEMMA WritesToday ==
  ASSUME TimesInv, back = 0, NEW dir \in {"cache", "log"}
  PROVE  /\ OpenPath(dir) = LogFileName(io, DayOf(now), dir) /\ OpenPath(dir) \in Paths
         /\ OpenPath(dir).day = DayOf(now) /\ OpenPath(dir).dir = dir
         /\ OpenPath(dir).idx = NextFileIndex(io, DayOf(now))
BY WritesNow DEF TimesInv, Dates

LEMMA DatedIndex ==
  ASSUME TimesInv, back = 0
  PROVE  MaxFileSize = 0 => \A p \in DOMAIN io.files : p.idx = 0
BY DEF TimesInv, Dates, Dated

\* A step that leaves the clock and the blocks given alone keeps the dates, if
\* it keeps those of the files, and of what is in progress.
LEMMA DatesFrame ==
  ASSUME Dates, UNCHANGED <<now, written>>, io'.last = io.last \/ (io'.last.time = 0 /\ now \in Nat),
         pruner' # Idle => pruner # Idle /\ pruner'.start = pruner.start,
         \A p \in DOMAIN io'.files : Dated(io', p), JobDated'
  PROVE  Dates'
<1>1. io'.last.time <= now'
  BY DEF Dates
<1>2. \A p \in DOMAIN io'.files : Dated(io, p)'
  BY DEF Dated
<1> QED
  BY <1>1, <1>2 DEF Dates

LEMMA JobGoesOnDated ==
  ASSUME TypesInv, job # Idle, JobDated, JobGoesOn, job'.at # "fallback", UNCHANGED <<now, written>>
  PROVE  JobDated'
<1>1. job \in [at : {"cache", "append", "remove", "log", "fallback"}, rec : 1..Len(written),
               move : BOOLEAN, day : 0..DayOf(MaxTime), cache : CachePaths, cacheLogs : BOOLEAN]
  BY DEF TypesInv, JobTypes
<1>2. job' = Idle \/ (job'.rec = job.rec /\ job'.day = job.day /\ job'.cache = job.cache)
  BY <1>1 DEF JobGoesOn
<1> QED
  BY <1>2 DEF JobDated

LEMMA WritingTimes ==
  ASSUME Faults \subseteq {"append"}, TimesInv, AsyncInv', Writing
  PROVE  TimesInv'
<1>1. TypesInv /\ job.at # "idle" /\ JobRests /\ JobGoesOn /\ back' = back /\ job # Idle
  BY WritingIs, JobAt DEF TimesInv, AsyncInv
<1> SUFFICES ASSUME back = 0 PROVE Dates'
  BY <1>1 DEF TimesInv
<1>2. AsyncInv /\ Dates /\ job.at # "fallback"
  BY <1>1 DEF TimesInv, Dates, JobDated
<1>3. /\ job.at \in {"cache", "log"} /\ WritesBlock
      /\ job' = Idle \/ (job.at = "cache" /\ job' = [job EXCEPT !.at = "append"])
  BY <1>2, SureWriting
<1>4. job \in [at : {"cache", "append", "remove", "log", "fallback"}, rec : 1..Len(written),
               move : BOOLEAN, day : 0..DayOf(MaxTime), cache : CachePaths, cacheLogs : BOOLEAN]
  BY <1>1, JobAt
<1>5. job'.at # "fallback"
  BY <1>3, <1>4 DEF Idle
<1>6. JobDated'
  BY <1>1, <1>2, <1>5, JobGoesOnDated DEF JobRests, Dates
<1>7. now \in Nat /\ DayOf(now) \in Nat /\ Len(written) \in Nat /\ FileTypes(io, Len(written))
  BY <1>2, TimesFacts
<1>8. WriteDir \in {"cache", "log"}
  BY DEF WriteDir
<1> DEFINE P == OpenPath(WriteDir)
           s == <<job.rec>>
<1>9. P.day = DayOf(now) /\ P.idx = NextFileIndex(io, DayOf(now))
  BY <1>8, WritesToday
<1>10. MaxFileSize = 0 => P.idx = 0
  BY <1>7, <1>9, NextIsTop, DatedIndex
<1>11. s \in Seq(1..Len(written)) /\ s # <<>> /\ Range(s) = {job.rec}
  BY <1>4 DEF Range
<1>12. written[job.rec] <= now
  BY <1>1, <1>2 DEF Dates, JobDated
<1>13. Put(io, io', P, s)
  BY <1>3 DEF WritesBlock
<1> HIDE DEF P, s
<1>14. P.day <= DayOf(now)
  BY <1>7, <1>9
<1>15. \A q \in DOMAIN io'.files : Dated(io', q)
  BY <1>2, <1>10, <1>11, <1>12, <1>13, <1>14, PutDated DEF Dates
<1>16. io'.last.time <= now'
  <2>1. io'.last = OpenLast(WriteDir)
    BY <1>2, AsyncWriting
  <2>2. io'.last.time <= now
    BY <1>2, <1>7, <2>1 DEF OpenLast, Dates
  <2> QED
    BY <1>1, <2>2 DEF JobRests
<1>17. \A p \in DOMAIN io'.files : Dated(io, p)'
  BY <1>1, <1>15 DEF Dated, JobRests
<1> QED
  BY <1>1, <1>2, <1>6, <1>16, <1>17 DEF Dates, JobRests

LEMMA PutsDated ==
  ASSUME AsyncInv, \A q \in DOMAIN io.files : Dated(io, q), NEW c, NEW p, Puts(c, p),
         p.day = c.day, MaxFileSize = 0 => p.idx = 0
  PROVE  \A q \in DOMAIN io'.files : Dated(io', q)
<1> DEFINE s == Content(io, c)
           m == io.files[c].mtime
<1>1. now \in Nat /\ DayOf(now) \in Nat /\ Len(written) \in Nat /\ FileTypes(io, Len(written))
  BY TimesFacts
<1>2. c \in DOMAIN io.files /\ s # <<>> /\ s = io.files[c].recs
  BY DEF Puts, Content, Exists
<1>3. m \in Nat /\ m <= now /\ c.day <= DayOf(m) /\ c.day \in Nat
  BY <1>2, TimesFacts DEF Dated
<1>4. DayOf(m) \in Nat /\ DayOf(m) <= DayOf(now)
  BY <1>1, <1>3, DayOfMono
<1>5. s \in Seq(1..Len(written))
  BY <1>2, TimesFacts
<1>6. ASSUME NEW r \in Range(s) PROVE written[r] <= now
  <2>1. written[r] \in Nat /\ written[r] <= m
    BY <1>2, TimesFacts DEF Dated
  <2> HIDE DEF s, m
  <2> QED
    BY <1>1, <1>3, <2>1
<1>7. Put(io, io', p, s)
  BY DEF Puts
<1> HIDE DEF s, m
<1>8. p.day <= DayOf(now)
  BY <1>1, <1>3, <1>4
<1> QED
  BY <1>2, <1>5, <1>6, <1>7, <1>8, PutDated

LEMMA AppendCacheTimes ==
  ASSUME TimesInv, AsyncInv', AppendCache
  PROVE  TimesInv'
<1>1. /\ job.at = "append" /\ JobRests /\ back' = back
      /\ io'.last = io.last
      /\ \/ io' = io /\ job' = Idle
         \/ /\ Exists(io, job.cache) /\ job' = [job EXCEPT !.at = "remove"]
            /\ IF Content(io, job.cache) = <<>> THEN io' = io ELSE Puts(job.cache, MoveTarget)
  BY AsyncAppendCache DEF TimesInv
<1> SUFFICES ASSUME back = 0 PROVE Dates'
  BY <1>1 DEF TimesInv
<1>2. AsyncInv /\ TypesInv /\ Dates /\ job # Idle
      /\ job \in [at : {"cache", "append", "remove", "log", "fallback"}, rec : 1..Len(written),
               move : BOOLEAN, day : 0..DayOf(MaxTime), cache : CachePaths, cacheLogs : BOOLEAN]
  BY <1>1, JobAt DEF TimesInv, AsyncInv
<1>3. JobDated'
  <2>1. JobGoesOn /\ job'.at # "fallback"
    BY <1>1, <1>2 DEF JobGoesOn, Idle
  <2> QED
    BY <1>1, <1>2, <2>1, JobGoesOnDated DEF JobRests, Dates
<1>4. FileTypes(io, Len(written))
  BY <1>2, TimesFacts
<1>5. MoveTarget.day = job.cache.day
  BY <1>2 DEF MoveTarget, LogFileName, Path, Dates, JobDated
<1>6. MaxFileSize = 0 => MoveTarget.idx = 0
  <2>1. MoveTarget.idx = NextFileIndex(io, job.day)
    BY DEF MoveTarget, LogFileName, Path
  <2> QED
    BY <1>4, <2>1, NextIsTop, DatedIndex
<1>7. \A q \in DOMAIN io'.files : Dated(io', q)
  BY <1>1, <1>2, <1>5, <1>6, PutsDated DEF Dates
<1> QED
  BY <1>1, <1>2, <1>3, <1>7, DatesFrame DEF JobRests

LEMMA MoverAppendTimes ==
  ASSUME TimesInv, AsyncInv', NEW p, MoverAppend(p)
  PROVE  TimesInv'
<1>1. /\ io'.last = io.last /\ (io' = io \/ Puts(p, LogPath(p)))
      /\ MoverRests /\ back' = back
  BY AsyncMoverAppend DEF TimesInv, MoverAppend, CountFaults
<1> SUFFICES ASSUME back = 0 PROVE Dates'
  BY <1>1 DEF TimesInv
<1>2. AsyncInv /\ Dates
  BY DEF TimesInv
<1>3. JobDated'
  BY <1>1, <1>2 DEF MoverRests, Dates, JobDated
<1>4. LogPath(p).day = p.day /\ LogPath(p).idx = p.idx
  BY DEF LogPath, Path
<1>5. Puts(p, LogPath(p)) => (MaxFileSize = 0 => p.idx = 0)
  BY DatedIndex DEF Puts
<1>6. \A q \in DOMAIN io'.files : Dated(io', q)
  BY <1>1, <1>2, <1>4, <1>5, PutsDated DEF Dates
<1> QED
  BY <1>1, <1>2, <1>3, <1>6, DatesFrame DEF MoverRests

LEMMA RemoveTimes ==
  ASSUME TimesInv, AsyncInv', RemoveCache \/ MoverRemove \/ PrunerRemove
  PROVE  TimesInv'
<1>1. UNCHANGED <<now, written, back>>
  BY DEF RemoveCache, MoverRemove, PrunerRemove, JobRests, MoverRests, PrunerRests, counts
<1> SUFFICES ASSUME back = 0 PROVE Dates'
  BY <1>1 DEF TimesInv
<1>2. AsyncInv /\ Dates
  BY DEF TimesInv
<1>3. PICK p : io' = RemoveFile(io, p)
  BY DEF RemoveCache, MoverRemove, PrunerRemove
<1>4. Takes(p) /\ io'.last = io.last
  BY <1>2, <1>3, AsyncRemove
<1>5. \A q \in DOMAIN io'.files : Dated(io', q)
  BY <1>2, <1>4 DEF Takes, Removed, Dates, Dated
<1>6. JobDated'
  <2>1. job' = job \/ job' = Idle
    BY DEF RemoveCache, MoverRemove, PrunerRemove, MoverRests, PrunerRests
  <2> QED
    BY <1>1, <1>2, <2>1 DEF Dates, JobDated
<1>7. pruner' # Idle => pruner # Idle /\ pruner'.start = pruner.start
  <2>1. pruner' = pruner \/ (pruner.at = "remove" /\ pruner'.start = pruner.start)
    BY DEF RemoveCache, MoverRemove, PrunerRemove, JobRests, MoverRests
  <2> QED
    BY <2>1 DEF Idle
<1> QED
  BY <1>1, <1>2, <1>4, <1>5, <1>6, <1>7, DatesFrame

\* A step that leaves the files alone, while time goes on and blocks are given.
LEMMA QuietDates ==
  ASSUME AsyncInv, AsyncInv', Dates, io' = io, now <= now',
         \A r \in 1..Len(written) : written'[r] = written[r],
         pruner' # Idle => pruner'.start <= now', JobDated'
  PROVE  Dates'
<1>1. now \in Nat /\ now' \in Nat
  BY TimesFacts, LogFilesAssumption DEF AsyncInv, TypesInv, Times
<1>2. io.last.time \in Nat
  <2>1. io.last.time \in Times
    BY DEF AsyncInv, TypesInv, FileTypes
  <2> QED
    BY <2>1, LogFilesAssumption DEF Times
<1>3. io'.last.time <= now'
  BY <1>1, <1>2 DEF Dates
<1>4. ASSUME NEW p \in DOMAIN io.files PROVE Dated(io, p)'
  <2> DEFINE m == io.files[p].mtime
  <2>1. m \in Nat /\ m <= now /\ Dated(io, p)
    BY TimesFacts DEF Dates, Dated
  <2>2. \A r \in Range(io.files[p].recs) : r \in 1..Len(written)
    BY TimesFacts
  <2> HIDE DEF m
  <2>3. m <= now'
    BY <1>1, <2>1
  <2> QED
    BY <2>1, <2>2, <2>3 DEF Dated, m
<1> QED
  BY <1>3, <1>4 DEF Dates

LEMMA Log2FileTimes ==
  ASSUME TimesInv, AsyncInv', Log2File
  PROVE  TimesInv'
<1>1. /\ job' \in [at : {"cache", "log"}, rec : {Len(written) + 1}, move : {FALSE, TRUE},
                   day : {DayOf(now)}, cache : {LogFileName(io, DayOf(now), "cache")}, cacheLogs : {TRUE, FALSE}]
      /\ job' # Idle
  <2>1. PICK roomy \in Roomy, move \in {FALSE, mode = "async"} :
          job' = [at |-> IF CacheLogs(roomy) \/ Exists(io, LogFileName(io, DayOf(now), "cache"))
                         THEN "cache" ELSE "log",
                  rec |-> Len(written) + 1, move |-> move, day |-> DayOf(now),
                  cache |-> LogFileName(io, DayOf(now), "cache"), cacheLogs |-> CacheLogs(roomy)]
    BY DEF Log2File
  <2>2. CacheLogs(roomy) \in BOOLEAN
    BY DEF CacheLogs, Exists
  <2>3. move \in {FALSE, TRUE}
    BY DEF TimesInv, AsyncInv
  <2> DEFINE c == CacheLogs(roomy)
             a == IF CacheLogs(roomy) \/ Exists(io, LogFileName(io, DayOf(now), "cache")) THEN "cache" ELSE "log"
  <2>4. c \in {TRUE, FALSE} /\ a \in {"cache", "log"}
    BY <2>2
  <2>5. job' = [at |-> a, rec |-> Len(written) + 1, move |-> move, day |-> DayOf(now),
                cache |-> LogFileName(io, DayOf(now), "cache"), cacheLogs |-> c]
    BY <2>1
  <2> HIDE DEF a, c
  <2>6. job'.at \in {"cache", "log"}
    BY <2>4, <2>5
  <2> QED
    BY <2>3, <2>4, <2>5, <2>6 DEF Idle
<1>2. /\ written' = Append(written, now) /\ io' = io
      /\ UNCHANGED <<now, back, pruner>>
  BY DEF Log2File, counts
<1> SUFFICES ASSUME back = 0 PROVE Dates'
  BY <1>2 DEF TimesInv
<1>3. AsyncInv /\ Dates
  BY DEF TimesInv
<1>4. written \in Seq(Times) /\ now \in Nat /\ Len(written) \in Nat /\ now \in Times
  BY <1>3, TimesFacts
<1>5. /\ \A r \in 1..Len(written) : written'[r] = written[r]
      /\ written'[Len(written) + 1] = now
  BY <1>2, <1>4
<1>6. JobDated'
  <2>1. /\ job'.at # "fallback" /\ job'.rec = Len(written) + 1 /\ job'.day = DayOf(now)
        /\ job'.cache.day = DayOf(now)
    BY <1>1 DEF LogFileName, Path
  <2>2. now <= now /\ now <= now + 1
    BY <1>4
  <2> QED
    BY <1>2, <1>5, <2>1, <2>2 DEF JobDated
<1>7. now <= now'
  BY <1>2, <1>4
<1> QED
  BY <1>2, <1>3, <1>5, <1>6, <1>7, QuietDates DEF Dates

\* The steps of the delayed threads that leave the files alone.
Looks ==
  \/ MoverStart \/ MoverEnd \/ (\E p : MoverKeep(p))
  \/ (\E dir \in {"cache", "log"} : PrunerStart(dir)) \/ PrunerEnd \/ (\E p : PrunerCheck(p))

LEMMA LooksAt ==
  ASSUME TypesInv, Looks
  PROVE  /\ io' = io /\ UNCHANGED <<now, written, back, starts, job, config>>
         /\ \/ pruner' = pruner \/ pruner' = Idle
            \/ pruner # Idle /\ pruner'.start = pruner.start
            \/ pruner'.start = now
<1>1. io' = io /\ UNCHANGED <<now, written, back, starts, job, config>>
  BY DEF Looks, MoverStart, MoverEnd, MoverKeep, PrunerStart, PrunerEnd, PrunerCheck, MoverRests, PrunerRests, counts
<1>2. CASE MoverStart \/ MoverEnd \/ \E p : MoverKeep(p)
  BY <1>1, <1>2 DEF MoverStart, MoverEnd, MoverKeep, MoverRests
<1>3. CASE PrunerEnd
  BY <1>1, <1>3 DEF PrunerEnd
<1>4. ASSUME NEW dir, PrunerStart(dir) PROVE pruner'.start = now
  BY <1>4 DEF PrunerStart
<1>5. ASSUME NEW p, PrunerCheck(p) PROVE pruner # Idle /\ pruner'.start = pruner.start
  <2>1. pruner # Idle /\ pruner.at = "scan"
    BY <1>5 DEF PrunerCheck, Idle
  <2>2. pruner \in [at : {"scan"}, dir : {"cache", "log"}, todo : SUBSET Paths, start : Times]
    BY <2>1 DEF TypesInv, PrunerTypes
  <2>3. \/ pruner' = [at |-> "remove", dir |-> pruner.dir, todo |-> pruner.todo \ {p},
                      start |-> pruner.start, path |-> p]
        \/ pruner' = [pruner EXCEPT !.todo = @ \ {p}]
    BY <1>5 DEF PrunerCheck
  <2> QED
    BY <2>1, <2>2, <2>3
<1> QED
  BY <1>1, <1>2, <1>3, <1>4, <1>5 DEF Looks

LEMMA LooksTimes ==
  ASSUME TimesInv, AsyncInv', Looks
  PROVE  TimesInv'
<1>1. AsyncInv /\ TypesInv
  BY DEF TimesInv, AsyncInv
<1>2. /\ io' = io /\ UNCHANGED <<now, written, back, starts, job, config>>
      /\ \/ pruner' = pruner \/ pruner' = Idle
         \/ pruner # Idle /\ pruner'.start = pruner.start
         \/ pruner'.start = now
  BY <1>1, LooksAt
<1> SUFFICES ASSUME back = 0 PROVE Dates'
  BY <1>2 DEF TimesInv
<1>3. Dates /\ now \in Nat
  BY <1>1, TimesFacts DEF TimesInv
<1>4. now <= now'
  BY <1>2, <1>3
<1>5. pruner' # Idle => pruner'.start <= now'
  BY <1>2, <1>3, <1>4 DEF Dates
<1>6. JobDated'
  BY <1>2, <1>3 DEF Dates, JobDated
<1> QED
  BY <1>1, <1>2, <1>3, <1>4, <1>5, <1>6, QuietDates

LEMMA TickTimes ==
  ASSUME TimesInv, AsyncInv', Tick \/ ClockBack \/ UNCHANGED vars
  PROVE  TimesInv'
<1>1. now \in Nat /\ back \in Nat
  <2>1. AsyncInv /\ now \in Nat
    BY TimesFacts DEF TimesInv
  <2>2. back \in 0..MaxBack
    BY <2>1 DEF AsyncInv, TypesInv
  <2> QED
    BY <2>1, <2>2, LogFilesAssumption
<1>2. CASE ClockBack
  <2>1. back' = back + 1
    BY <1>2 DEF ClockBack
  <2>2. back' # 0
    BY <1>1, <2>1
  <2> QED
    BY <2>2 DEF TimesInv
<1>3. CASE UNCHANGED vars
  BY <1>3 DEF TimesInv, vars, config, ghosts, counts, Dates, Dated, JobDated
<1>4. CASE Tick
  <2>1. /\ now' = now + 1 /\ io' = io /\ UNCHANGED <<back, written, job, pruner>>
        /\ job # Idle => now = written[job.rec]
    BY <1>4 DEF Tick, ghosts, counts
  <2> SUFFICES ASSUME back = 0 PROVE Dates'
    BY <2>1 DEF TimesInv
  <2>2. AsyncInv /\ Dates
    BY DEF TimesInv
  <2>3. now <= now'
    BY <1>1, <2>1
  <2>4. pruner # Idle => pruner.start <= now'
    <3>1. PrunerTypes
      BY <2>2 DEF AsyncInv, TypesInv
    <3>2. pruner # Idle => pruner.start \in Nat
      BY <3>1, LogFilesAssumption DEF PrunerTypes, Times
    <3> QED
      BY <1>1, <2>1, <2>2, <3>2 DEF Dates
  <2>5. JobDated'
    <3> SUFFICES ASSUME job' # Idle
                 PROVE  written'[job'.rec] <= now' /\ now' <= written'[job'.rec] + 1
      BY <2>1, <2>2 DEF Dates, JobDated
    <3>1. written'[job'.rec] = now
      BY <2>1
    <3> QED
      BY <1>1, <2>1, <3>1
  <2> QED
    BY <2>1, <2>2, <2>3, <2>4, <2>5, QuietDates
<1> QED
  BY <1>2, <1>3, <1>4

LEMMA TurnsOverTimes ==
  ASSUME TimesInv, AsyncInv', TurnsOver
  PROVE  TimesInv'
<1>1. UNCHANGED <<now, written, back>> /\ (job' = job \/ job' = Idle) /\ (pruner' = pruner \/ pruner' = Idle)
  BY DEF TurnsOver, Open, Close, Crash, ghosts, counts
<1>2. AsyncInv
  BY DEF TimesInv
<1>3. io'.files = io.files /\ (io'.last = io.last \/ io'.last = NeverOpened)
  BY <1>2, AsyncTurnsOver
<1> SUFFICES ASSUME back = 0 PROVE Dates'
  BY <1>1 DEF TimesInv
<1>4. Dates /\ now \in Nat
  BY <1>2, TimesFacts DEF TimesInv
<1>5. JobDated'
  BY <1>1, <1>4 DEF Dates, JobDated
<1>6. \A p \in DOMAIN io'.files : Dated(io', p)
  BY <1>3, <1>4 DEF Dates, Dated
<1>7. io'.last = io.last \/ (io'.last.time = 0 /\ now \in Nat)
  BY <1>3, <1>4 DEF NeverOpened
<1> QED
  BY <1>1, <1>4, <1>5, <1>6, <1>7, DatesFrame

LEMMA TimesStep ==
  ASSUME Modes = {"async"}, Faults \subseteq {"append"}, TimesInv, [Next]_vars
  PROVE  TimesInv'
<1>1. AsyncInv /\ AsyncInv'
  BY AsyncStep DEF TimesInv
<1>2. CASE Writing BY <1>1, <1>2, WritingTimes
<1>3. CASE AppendCache BY <1>1, <1>3, AppendCacheTimes
<1>4. CASE RemoveCache \/ MoverRemove \/ PrunerRemove BY <1>1, <1>4, RemoveTimes
<1>5. CASE \E p : MoverAppend(p) BY <1>1, <1>5, MoverAppendTimes
<1>6. CASE TurnsOver BY <1>1, <1>6, TurnsOverTimes
<1>7. CASE Log2File BY <1>1, <1>7, Log2FileTimes
<1>8. CASE Looks BY <1>1, <1>8, LooksTimes
<1>9. CASE Tick \/ ClockBack \/ UNCHANGED vars BY <1>1, <1>9, TickTimes
<1> QED
  BY <1>1, <1>2, <1>3, <1>4, <1>5, <1>6, <1>7, <1>8, <1>9, AsyncCases DEF Quiet, Looks

LEMMA TimesInit ==
  ASSUME Modes = {"async"}, Init
  PROVE  TimesInv
<1>1. AsyncInv
  BY AsyncInit
<1>2. Dates
  BY DEF Init, Dates, JobDated, NeverOpened
<1> QED
  BY <1>1, <1>2 DEF TimesInv

-----------------------------------------------------------------------------
(* PruneSparesFresh. What a pruning pass has listed and what it has        *)
(* condemned stay so while __Log2File and __MoveOldFiles go on.            *)

\* A file of the same day as p in the log directory, of the same index or a
\* later one: where the blocks of a cache file go.
Moved(x, p) == \E q \in DOMAIN x.files : q.dir = "log" /\ q.day = p.day /\ q.idx >= p.idx

\* What __MoveOldFiles of __Log2File is about to remove has been copied.
CopyBeside == job.at = "remove" /\ Exists(io, job.cache) => Moved(io, job.cache)

\* The files that the pruning pass has yet to test, or is about to remove.
Listed(p) == p \in pruner.todo \/ (pruner.at = "remove" /\ p = pruner.path)

\* The pass has listed files of its directory that were there when it began.
ListedKnown ==
  /\ \A p : Listed(p) => p.dir = pruner.dir /\ p.day <= DayOf(now)
  /\ pruner.at = "remove" => pruner.path \notin pruner.todo

\* A listed file that is no longer there was a cache file and was moved, and the
\* __Log2File in progress does not create it again.
Vanished ==
  \A p : Listed(p) /\ ~Exists(io, p) =>
    /\ pruner.dir = "cache" /\ Moved(io, p)
    /\ job.at = "cache" => LogFileName(io, DayOf(now), "cache") # p

\* The file that the pass is about to remove is of an earlier day than any that
\* is written to, and so old that its blocks may go.
Condemned ==
  pruner.at = "remove" /\ Exists(io, pruner.path) =>
    /\ pruner.path.day < DayOf(now)
    /\ job # Idle => pruner.path.day < job.day
    /\ \A r \in Range(io.files[pruner.path].recs) : written[r] + MaxAlive < pruner.start

\* All of it.
PassOK == CopyBeside /\ (pruner # Idle => ListedKnown /\ Vanished /\ Condemned)

\* The inductive invariant.
PruneInv == TimesInv /\ (back = 0 => PassOK)

LEMMA MovedGrows ==
  ASSUME NEW x, NEW y, NEW p, Moved(x, p), \A q \in DOMAIN x.files : q.dir = "log" => q \in DOMAIN y.files
  PROVE  Moved(y, p)
BY DEF Moved

\* The index of a day depends on the files of that day alone.
LEMMA NextByDay ==
  ASSUME NEW x, NEW y, NEW day,
         \A p : p.day = day => (p \in DOMAIN x.files <=> p \in DOMAIN y.files),
         \A p \in DOMAIN x.files : p.day = day => x.files[p] = y.files[p]
  PROVE  NextFileIndex(x, day) = NextFileIndex(y, day)
<1>1. {q \in DOMAIN x.files : q.day = day} = {q \in DOMAIN y.files : q.day = day}
  OBVIOUS
<1>2. \A dir, i : Path(dir, day, i).day = day
  BY DEF Path
<1>3. \A dir, i : Content(x, Path(dir, day, i)) = Content(y, Path(dir, day, i))
  BY <1>2 DEF Content, Exists
<1> QED
  BY <1>1, <1>3 DEF NextFileIndex

LEMMA NextByFiles ==
  ASSUME NEW x, NEW y, x.files = y.files, NEW day, NEW dir
  PROVE  LogFileName(x, day, dir) = LogFileName(y, day, dir)
BY NextByDay DEF LogFileName

LEMMA NoPass ==
  ASSUME pruner' = Idle, job'.at # "remove" \/ CopyBeside'
  PROVE  PassOK'
BY DEF PassOK, CopyBeside

\* Nothing that the pass depends on changes.
LEMMA PassSame ==
  ASSUME PassOK, io'.files = io.files, UNCHANGED <<now, written, job, pruner>>
  PROVE  PassOK'
<1>1. CopyBeside'
  BY DEF PassOK, CopyBeside, Exists, Moved
<1>2. pruner # Idle => ListedKnown' /\ Condemned'
  BY DEF PassOK, ListedKnown, Listed, Condemned, Exists
<1>3. ASSUME pruner # Idle PROVE Vanished'
  <2>1. Vanished
    BY <1>3 DEF PassOK
  <2>2. LogFileName(io', DayOf(now'), "cache") = LogFileName(io, DayOf(now), "cache")
    BY NextByFiles
  <2>3. \A p : Listed(p)' <=> Listed(p)
    BY DEF Listed
  <2> QED
    BY <2>1, <2>2, <2>3 DEF Vanished, Exists, Moved
<1> QED
  BY <1>1, <1>2, <1>3 DEF PassOK

\* The files can only grow, nobody is about to create a cache file, and what is
\* condemned is not touched.
LEMMA PassGrows ==
  ASSUME PassOK, NEW p, NEW s, Put(io, io', p, s), UNCHANGED <<now, written, pruner>>,
         job'.at # "cache", CopyBeside', job' = Idle \/ (job # Idle /\ job'.day = job.day),
         pruner # Idle => p # pruner.path \/ pruner.at # "remove"
  PROVE  PassOK'
<1>1. /\ DOMAIN io.files \subseteq DOMAIN io'.files
      /\ \A q \in DOMAIN io'.files : q # p => q \in DOMAIN io.files /\ io'.files[q] = io.files[q]
  BY DEF Put
<1> SUFFICES ASSUME pruner # Idle PROVE ListedKnown' /\ Vanished' /\ Condemned'
  BY DEF PassOK
<1>2. ListedKnown'
  BY DEF PassOK, ListedKnown, Listed
<1>3. Vanished'
  <2> SUFFICES ASSUME NEW q, Listed(q), ~Exists(io', q) PROVE pruner.dir = "cache" /\ Moved(io', q)
    BY DEF Vanished, Listed
  <2>1. pruner.dir = "cache" /\ Moved(io, q)
    BY <1>1 DEF PassOK, Vanished, Exists
  <2> QED
    BY <1>1, <2>1, MovedGrows
<1>4. Condemned'
  <2> SUFFICES ASSUME pruner.at = "remove", Exists(io', pruner.path) PROVE Condemned'
    BY DEF Condemned
  <2>1. Exists(io, pruner.path) /\ io'.files[pruner.path] = io.files[pruner.path]
    BY <1>1 DEF Exists
  <2> QED
    BY <2>1 DEF PassOK, Condemned
<1> QED
  BY <1>2, <1>3, <1>4

\* The choice of the cache directory, when a cache file that the pass has
\* listed has been moved meanwhile: the day has a log file, so nobody begins a
\* new cache file.
LEMMA Log2FileSpares ==
  ASSUME TimesInv, back = 0, Log2File, job'.at = "cache", NEW p, Moved(io, p), ~Exists(io, p)
  PROVE  LogFileName(io, DayOf(now), "cache") # p
<1> DEFINE day == DayOf(now)
           i == NextFileIndex(io, day)
           cache == LogFileName(io, day, "cache")
           log == LogFileName(io, day, "log")
<1> SUFFICES ASSUME cache = p PROVE FALSE
  OBVIOUS
<1>1. Exists(io, cache) \/ ~Exists(io, log)
  BY DEF Log2File, CacheLogs
<1>2. ~Exists(io, log)
  BY <1>1
<1>3. FileTypes(io, Len(written)) /\ DOMAIN io.files \subseteq Paths
  BY TimesFacts DEF TimesInv, FileTypes
<1>4. i \in Nat /\ \A q \in DOMAIN io.files : q.day = day => q.idx <= i
  BY <1>3, NextIsTop, DatedIndex
<1>5. PICK q \in DOMAIN io.files : q.dir = "log" /\ q.day = p.day /\ q.idx >= p.idx
  BY DEF Moved
<1>6. p.day = day /\ p.idx = i
  BY DEF LogFileName, Path
<1>7. q.idx \in Nat /\ q.idx = i
  BY <1>3, <1>4, <1>5, <1>6 DEF Paths
<1>8. q = log
  BY <1>3, <1>5, <1>6, <1>7 DEF Paths, LogFileName, Path
<1> QED
  BY <1>2, <1>5, <1>8 DEF Exists

LEMMA Log2FileSets ==
  ASSUME Log2File
  PROVE  /\ job'.at \in {"cache", "log"} /\ job' # Idle /\ job'.day = DayOf(now)
         /\ io' = io /\ written' = Append(written, now)
         /\ UNCHANGED <<now, back, pruner, pruned>> /\ job = Idle
<1>1. io' = io /\ written' = Append(written, now) /\ UNCHANGED <<now, back, pruner, pruned>> /\ job = Idle
  BY DEF Log2File, counts
<1>2. job'.at \in {"cache", "log"} /\ job'.day = DayOf(now)
  BY DEF Log2File
<1>3. job' # Idle
  BY <1>2 DEF Idle
<1> QED
  BY <1>1, <1>2, <1>3

LEMMA Log2FilePass ==
  ASSUME TimesInv, back = 0, PassOK, Log2File
  PROVE  PassOK'
<1>1. /\ job'.at \in {"cache", "log"} /\ job' # Idle /\ job'.day = DayOf(now)
      /\ io' = io /\ written' = Append(written, now)
      /\ UNCHANGED <<now, back, pruner>> /\ job = Idle
  BY Log2FileSets
<1>2. CopyBeside'
  BY <1>1 DEF CopyBeside
<1> SUFFICES ASSUME pruner # Idle PROVE ListedKnown' /\ Vanished' /\ Condemned'
  BY <1>1, <1>2 DEF PassOK
<1>3. ListedKnown'
  BY <1>1 DEF PassOK, ListedKnown, Listed
<1>4. Vanished'
  <2> SUFFICES ASSUME NEW p, Listed(p), ~Exists(io, p)
               PROVE  /\ pruner.dir = "cache" /\ Moved(io, p)
                      /\ job'.at = "cache" => LogFileName(io, DayOf(now), "cache") # p
    BY <1>1 DEF Vanished, Listed
  <2>1. pruner.dir = "cache" /\ Moved(io, p)
    BY DEF PassOK, Vanished
  <2> QED
    BY <2>1, Log2FileSpares
<1>5. Condemned'
  <2> SUFFICES ASSUME pruner.at = "remove", Exists(io, pruner.path) PROVE Condemned'
    BY <1>1 DEF Condemned
  <2>1. /\ pruner.path.day < DayOf(now)
        /\ \A r \in Range(io.files[pruner.path].recs) : written[r] + MaxAlive < pruner.start
    BY DEF PassOK, Condemned
  <2>2. ASSUME NEW r \in Range(io.files[pruner.path].recs) PROVE written'[r] = written[r]
    <3>1. r \in 1..Len(written) /\ written \in Seq(Times)
      BY TimesFacts DEF TimesInv, Exists
    <3> QED
      BY <1>1, <3>1
  <2> QED
    BY <1>1, <2>1, <2>2 DEF Condemned
<1> QED
  BY <1>3, <1>4, <1>5

LEMMA WritingPass ==
  ASSUME Faults \subseteq {"append"}, TimesInv, back = 0, PassOK, Writing
  PROVE  PassOK'
<1>1. TypesInv /\ AsyncInv /\ Dates
  BY DEF TimesInv, AsyncInv
<1>2. job.at # "idle" /\ JobRests /\ job # Idle
  BY <1>1, WritingIs, JobAt
<1>3. /\ job.at \in {"cache", "log"} /\ WritesBlock
      /\ job' = Idle \/ (job.at = "cache" /\ job' = [job EXCEPT !.at = "append"])
  BY <1>1, <1>2, SureWriting DEF Dates, JobDated
<1>4. job \in [at : {"cache", "append", "remove", "log", "fallback"}, rec : 1..Len(written),
               move : BOOLEAN, day : 0..DayOf(MaxTime), cache : CachePaths, cacheLogs : BOOLEAN]
  BY <1>1, <1>2, JobAt
<1>5. job'.at \notin {"cache", "remove"} /\ (job' = Idle \/ job'.day = job.day)
  BY <1>3, <1>4 DEF Idle
<1> DEFINE P == OpenPath(WriteDir)
           s == <<job.rec>>
<1>6. WriteDir \in {"cache", "log"} /\ (WriteDir = "cache" => job.at = "cache")
  BY <1>3 DEF WriteDir
<1>7. P = LogFileName(io, DayOf(now), WriteDir) /\ P.day = DayOf(now) /\ P.dir = WriteDir
  BY <1>6, WritesToday
<1>8. Put(io, io', P, s)
  BY <1>3 DEF WritesBlock
<1>9. UNCHANGED <<now, written, pruner>>
  BY <1>2 DEF JobRests
<1>10. DayOf(now) \in Nat
  BY <1>1, TimesFacts
<1> HIDE DEF P, s
<1>11. ASSUME pruner # Idle, pruner.at = "remove", P = pruner.path PROVE FALSE
  <2>1. Listed(P) /\ P.dir = pruner.dir
    BY <1>11 DEF PassOK, ListedKnown, Listed
  <2>2. CASE Exists(io, P)
    <3>1. P.day < DayOf(now)
      BY <1>11, <2>2 DEF PassOK, Condemned
    <3> QED
      BY <1>7, <1>10, <3>1
  <2>3. CASE ~Exists(io, P)
    <3>1. pruner.dir = "cache" /\ (job.at = "cache" => LogFileName(io, DayOf(now), "cache") # P)
      BY <1>11, <2>1, <2>3 DEF PassOK, Vanished
    <3> QED
      BY <1>6, <1>7, <2>1, <3>1
  <2> QED
    BY <2>2, <2>3
<1> QED
  BY <1>2, <1>5, <1>8, <1>9, <1>11, PassGrows DEF CopyBeside

LEMMA AppendCachePass ==
  ASSUME TimesInv, back = 0, PassOK, AppendCache
  PROVE  PassOK'
<1>1. TypesInv /\ AsyncInv /\ Dates
  BY DEF TimesInv, AsyncInv
<1>2. /\ job.at = "append" /\ JobRests
      /\ \/ io' = io /\ job' = Idle
         \/ /\ Exists(io, job.cache) /\ job' = [job EXCEPT !.at = "remove"]
            /\ IF Content(io, job.cache) = <<>> THEN io' = io ELSE Puts(job.cache, MoveTarget)
  BY <1>1, AsyncAppendCache
<1>3. /\ job # Idle
      /\ job \in [at : {"cache", "append", "remove", "log", "fallback"}, rec : 1..Len(written),
                  move : BOOLEAN, day : 0..DayOf(MaxTime), cache : CachePaths, cacheLogs : BOOLEAN]
  BY <1>1, <1>2, JobAt
<1>4. UNCHANGED <<now, written, pruner>>
  BY <1>2 DEF JobRests
<1>5. CASE io' = io /\ job' = Idle
  <2>1. CopyBeside' /\ job'.at # "cache"
    BY <1>5 DEF CopyBeside, Idle
  <2>2. pruner # Idle => ListedKnown' /\ Condemned'
    BY <1>4, <1>5 DEF PassOK, ListedKnown, Listed, Condemned
  <2>3. pruner # Idle => Vanished'
    BY <1>4, <1>5, <2>1 DEF PassOK, Vanished, Listed
  <2> QED
    BY <1>4, <2>1, <2>2, <2>3 DEF PassOK
<1>6. CASE ~(io' = io /\ job' = Idle)
  <2> DEFINE s == Content(io, job.cache)
             M == MoveTarget
  <2>1. /\ Exists(io, job.cache) /\ job' = [job EXCEPT !.at = "remove"]
        /\ s # <<>>
    <3>1. Exists(io, job.cache) /\ job' = [job EXCEPT !.at = "remove"]
      BY <1>2, <1>6
    <3>2. s # <<>>
      BY <1>1, <3>1 DEF Dates, Dated, Content, Exists
    <3> QED
      BY <3>1, <3>2
  <2>2. Put(io, io', M, s)
    BY <1>2, <1>6, <2>1 DEF Puts
  <2>3. job'.at = "remove" /\ job'.cache = job.cache /\ job'.day = job.day
    BY <1>3, <2>1
  <2>4. job.cache.day = job.day /\ job.day \in Nat
    BY <1>1, <1>3 DEF Dates, JobDated, CachePaths
  <2>5. M.dir = "log" /\ M.day = job.day /\ M.idx = NextFileIndex(io, job.day)
    BY DEF MoveTarget, LogFileName, Path
  <2> HIDE DEF M, s
  <2>6. /\ NextFileIndex(io, job.day) \in Nat
        /\ \A q \in DOMAIN io.files : q.day = job.day => q.idx <= NextFileIndex(io, job.day)
    <3>1. FileTypes(io, Len(written))
      BY <1>1, TimesFacts
    <3> QED
      BY <3>1, NextIsTop, DatedIndex
  <2>7. CopyBeside'
    <3>1. job.cache \in DOMAIN io.files /\ job.cache.idx \in Nat
      BY <1>3, <2>1 DEF Exists, CachePaths
    <3>2. job.cache.idx <= M.idx /\ M.idx \in Nat
      BY <2>4, <2>5, <2>6, <3>1
    <3>3. M.idx >= job.cache.idx
      BY <3>1, <3>2
    <3>4. M \in DOMAIN io'.files
      BY <2>2 DEF Put
    <3>5. Moved(io', job.cache)
      BY <2>4, <2>5, <3>3, <3>4 DEF Moved
    <3> QED
      BY <2>3, <3>5 DEF CopyBeside
  <2>8. ASSUME pruner # Idle, pruner.at = "remove", M = pruner.path PROVE FALSE
    <3>1. Listed(M) /\ M.dir = pruner.dir
      BY <2>8 DEF PassOK, ListedKnown, Listed
    <3>2. CASE Exists(io, M)
      <4>1. M.day < job.day
        BY <1>3, <2>8, <3>2 DEF PassOK, Condemned
      <4> QED
        BY <2>4, <2>5, <4>1
    <3>3. CASE ~Exists(io, M)
      BY <2>5, <2>8, <3>1, <3>3 DEF PassOK, Vanished
    <3> QED
      BY <3>2, <3>3
  <2> QED
    BY <1>3, <1>4, <2>2, <2>3, <2>7, <2>8, PassGrows
<1> QED
  BY <1>5, <1>6

LEMMA RemoveCachePass ==
  ASSUME TimesInv, back = 0, PassOK, RemoveCache
  PROVE  PassOK'
<1>1. TypesInv /\ AsyncInv /\ Dates
  BY DEF TimesInv, AsyncInv
<1>2. job.at = "remove" /\ io' = RemoveFile(io, job.cache) /\ job' = Idle /\ UNCHANGED <<now, written, pruner>>
  BY DEF RemoveCache, JobRests
<1>3. job.cache.dir = "cache"
  <2>1. job.cache \in CachePaths
    BY <1>1, <1>2, JobAt
  <2> QED
    BY <2>1 DEF CachePaths
<1>4. /\ DOMAIN io'.files = DOMAIN io.files \ {job.cache}
      /\ \A q \in DOMAIN io'.files : io'.files[q] = io.files[q]
  BY <1>1, <1>2, AsyncRemove DEF Takes, Removed
<1>5. CopyBeside' /\ job'.at # "cache"
  BY <1>2 DEF CopyBeside, Idle
<1> SUFFICES ASSUME pruner # Idle PROVE ListedKnown' /\ Vanished' /\ Condemned'
  BY <1>2, <1>5 DEF PassOK
<1>6. ListedKnown'
  BY <1>2 DEF PassOK, ListedKnown, Listed
<1>7. Vanished'
  <2> SUFFICES ASSUME NEW p, Listed(p), ~Exists(io', p) PROVE pruner.dir = "cache" /\ Moved(io', p)
    BY <1>2, <1>5 DEF Vanished, Listed
  <2>1. pruner.dir = "cache" /\ Moved(io, p)
    <3>1. CASE Exists(io, p)
      <4>1. p = job.cache
        BY <1>4, <3>1 DEF Exists
      <4> QED
        BY <1>2, <1>3, <3>1, <4>1 DEF PassOK, CopyBeside, ListedKnown
    <3>2. CASE ~Exists(io, p)
      BY <3>2 DEF PassOK, Vanished
    <3> QED
      BY <3>1, <3>2
  <2>2. \A q \in DOMAIN io.files : q.dir = "log" => q \in DOMAIN io'.files
    BY <1>3, <1>4
  <2> QED
    BY <2>1, <2>2, MovedGrows
<1>8. Condemned'
  <2> SUFFICES ASSUME pruner.at = "remove", Exists(io', pruner.path) PROVE Condemned'
    BY <1>2 DEF Condemned
  <2>1. Exists(io, pruner.path) /\ io'.files[pruner.path] = io.files[pruner.path]
    BY <1>4 DEF Exists
  <2> QED
    BY <1>2, <2>1 DEF PassOK, Condemned
<1> QED
  BY <1>6, <1>7, <1>8

LEMMA MoverPass ==
  ASSUME TypesInv, PassOK, MoverStart \/ MoverRemove \/ MoverEnd \/ \E p : MoverKeep(p) \/ MoverAppend(p)
  PROVE  PassOK'
<1>1. pruner = Idle /\ job = Idle
  BY MoverAt DEF MoverStart, MoverRemove, MoverEnd, MoverKeep, MoverAppend
<1>2. pruner' = pruner /\ job' = job
  BY DEF MoverStart, MoverRemove, MoverEnd, MoverKeep, MoverAppend, MoverRests
<1> QED
  BY <1>1, <1>2, NoPass DEF Idle

LEMMA TurnsOverPass ==
  ASSUME AsyncInv, PassOK, TurnsOver
  PROVE  PassOK'
<1>1. io'.files = io.files
  BY AsyncTurnsOver
<1>2. CASE Crash
  BY <1>2, NoPass DEF Crash, Idle
<1>3. CASE Open \/ Close
  <2>1. UNCHANGED <<now, written, job, pruner>>
    BY <1>3 DEF Open, Close, ghosts
  <2> QED
    BY <1>1, <2>1, PassSame
<1> QED
  BY <1>2, <1>3 DEF TurnsOver

LEMMA TickPass ==
  ASSUME TimesInv, back = 0, PassOK, Tick
  PROVE  PassOK'
<1>1. now' = now + 1 /\ UNCHANGED <<io, written, job, pruner>>
  BY DEF Tick, ghosts
<1>2. AsyncInv /\ now \in Nat /\ now' \in Nat /\ DayOf(now) \in Nat
      /\ DayOf(now') \in Nat /\ DayOf(now) <= DayOf(now')
  <2>1. AsyncInv /\ now \in Nat
    BY TimesFacts DEF TimesInv
  <2>2. now' \in Nat /\ now <= now'
    BY <1>1, <2>1
  <2> QED
    BY <2>1, <2>2, DayOfMono
<1>3. CopyBeside'
  BY <1>1 DEF PassOK, CopyBeside
<1> SUFFICES ASSUME pruner # Idle PROVE ListedKnown' /\ Vanished' /\ Condemned'
  BY <1>1, <1>3 DEF PassOK
<1>4. \A p : Listed(p) => p \in Paths
  <2>1. TypesInv
    BY <1>2 DEF AsyncInv
  <2> QED
    BY <2>1 DEF TypesInv, PrunerTypes, Listed
<1>5. \A p \in Paths : p.day \in Nat
  BY DEF Paths
<1>6. ListedKnown'
  <2>1. \A p : Listed(p) => p.dir = pruner.dir /\ p.day <= DayOf(now')
    <3> SUFFICES ASSUME NEW p, Listed(p) PROVE p.dir = pruner.dir /\ p.day <= DayOf(now')
      OBVIOUS
    <3>1. p.dir = pruner.dir /\ p.day <= DayOf(now) /\ p.day \in Nat
      BY <1>4, <1>5 DEF PassOK, ListedKnown
    <3> QED
      BY <1>2, <3>1
  <2> QED
    BY <1>1, <2>1 DEF PassOK, ListedKnown, Listed
<1>7. Vanished'
  <2> SUFFICES ASSUME NEW p, Listed(p), ~Exists(io, p)
               PROVE  /\ pruner.dir = "cache" /\ Moved(io, p)
                      /\ job.at = "cache" => LogFileName(io, DayOf(now'), "cache") # p
    BY <1>1 DEF Vanished, Listed
  <2>1. /\ pruner.dir = "cache" /\ Moved(io, p)
        /\ job.at = "cache" => LogFileName(io, DayOf(now), "cache") # p
    BY DEF PassOK, Vanished
  <2>2. ASSUME LogFileName(io, DayOf(now'), "cache") = p PROVE LogFileName(io, DayOf(now), "cache") = p
    <3>1. p.day = DayOf(now')
      BY <2>2 DEF LogFileName, Path
    <3>2. p.day <= DayOf(now)
      BY DEF PassOK, ListedKnown
    <3>3. DayOf(now') = DayOf(now)
      BY <1>2, <3>1, <3>2
    <3> QED
      BY <2>2, <3>3
  <2> QED
    BY <2>1, <2>2
<1>8. Condemned'
  <2> SUFFICES ASSUME pruner.at = "remove", Exists(io, pruner.path) PROVE Condemned'
    BY <1>1 DEF Condemned
  <2>1. /\ pruner.path.day < DayOf(now)
        /\ job # Idle => pruner.path.day < job.day
        /\ \A r \in Range(io.files[pruner.path].recs) : written[r] + MaxAlive < pruner.start
    BY DEF PassOK, Condemned
  <2>2. pruner.path.day \in Nat
    BY <1>4, <1>5 DEF Listed
  <2>3. pruner.path.day < DayOf(now')
    BY <1>2, <2>1, <2>2
  <2> QED
    BY <1>1, <2>1, <2>3 DEF Condemned
<1> QED
  BY <1>6, <1>7, <1>8

LEMMA PrunerStartPass ==
  ASSUME TimesInv, back = 0, PassOK, NEW dir, PrunerStart(dir)
  PROVE  PassOK'
<1>1. /\ pruner' = [at |-> "scan", dir |-> dir, todo |-> FilesIn(dir), start |-> now]
      /\ UNCHANGED <<io, job, now, written>>
  BY DEF PrunerStart, PrunerRests
<1>2. AsyncInv /\ Dates
  BY DEF TimesInv
<1>3. CopyBeside' /\ Condemned'
  BY <1>1 DEF PassOK, CopyBeside, Condemned
<1>4. ASSUME NEW p, Listed(p)' PROVE p \in DOMAIN io.files /\ p.dir = dir
  BY <1>1, <1>4 DEF Listed, FilesIn
<1>5. ASSUME NEW p \in DOMAIN io.files PROVE p.day <= DayOf(now)
  <2> DEFINE m == io.files[p].mtime
  <2>1. m \in Nat /\ now \in Nat /\ m <= now /\ p.day \in Nat /\ p.day <= DayOf(m)
    BY <1>2, TimesFacts DEF Dates, Dated
  <2> HIDE DEF m
  <2>2. DayOf(m) \in Nat /\ DayOf(now) \in Nat /\ DayOf(m) <= DayOf(now)
    BY <2>1, DayOfMono
  <2> QED
    BY <2>1, <2>2
<1>6. ListedKnown'
  BY <1>1, <1>4, <1>5 DEF ListedKnown
<1>7. Vanished'
  BY <1>1, <1>4 DEF Vanished, Exists
<1> QED
  BY <1>3, <1>6, <1>7 DEF PassOK

\* A day has passed since the last write to a file that is too old.
LEMMA DaysApart ==
  ASSUME NEW m \in Nat, NEW t \in Nat, m + DayLen <= t
  PROVE  DayOf(m) \in Nat /\ DayOf(t) \in Nat /\ DayOf(m) < DayOf(t)
<1>1. DayLen \in Nat \ {0}
  BY LogFilesAssumption
<1>2. (m + DayLen) \div DayLen = (m \div DayLen) + 1
  BY <1>1
<1>3. m + DayLen \in Nat
  BY <1>1
<1>4. DayOf(m + DayLen) <= DayOf(t) /\ DayOf(m + DayLen) \in Nat
  BY <1>3, DayOfMono
<1>5. DayOf(t) \in Nat /\ DayOf(m) \in Nat
  <2>1. t <= t /\ m <= m
    OBVIOUS
  <2> QED
    BY <2>1, DayOfMono
<1> QED
  BY <1>2, <1>4, <1>5 DEF DayOf

LEMMA ExpiredIsOld ==
  ASSUME TimesInv, back = 0, pruner # Idle, NEW p, Expired(p), Exists(io, p)
  PROVE  /\ p.day < DayOf(now)
         /\ job # Idle => p.day < job.day
         /\ \A r \in Range(io.files[p].recs) : written[r] + MaxAlive < pruner.start
<1> DEFINE m == io.files[p].mtime
<1>1. AsyncInv /\ Dates /\ TypesInv
  BY DEF TimesInv, AsyncInv
<1>2. p \in DOMAIN io.files /\ m \in Nat /\ now \in Nat /\ p.day \in Nat /\ p.day <= DayOf(m)
  BY <1>1, TimesFacts DEF Exists, Dates, Dated
<1>3. pruner.start \in Nat /\ pruner.start <= now
  BY <1>1, LogFilesAssumption DEF TypesInv, PrunerTypes, Times, Dates
<1>4. pruner.start > m /\ pruner.start - m > MaxAlive
  BY DEF Expired
<1>5. MaxAlive \in Nat /\ DayLen \in Nat /\ MaxAlive >= DayLen
  BY LogFilesAssumption
<1>6. \A r \in Range(io.files[p].recs) : written[r] \in Nat /\ written[r] <= m
  BY <1>1, <1>2, TimesFacts DEF Dates, Dated
<1> HIDE DEF m
<1>7. m + MaxAlive < pruner.start /\ m + DayLen + 1 <= now
  BY <1>2, <1>3, <1>4, <1>5
<1>8. p.day < DayOf(now)
  <2>1. m + DayLen <= now
    BY <1>2, <1>5, <1>7
  <2>2. DayOf(m) \in Nat /\ DayOf(now) \in Nat /\ DayOf(m) < DayOf(now)
    BY <1>2, <2>1, DaysApart
  <2> QED
    BY <1>2, <2>2
<1>9. ASSUME job # Idle PROVE p.day < job.day
  <2> DEFINE w == written[job.rec]
  <2>1. job.day = DayOf(w) /\ now <= w + 1
    BY <1>1, <1>9 DEF Dates, JobDated
  <2>2. w \in Nat
    <3>1. job.rec \in 1..Len(written)
      BY <1>1, <1>9 DEF TypesInv, JobTypes
    <3> QED
      BY <1>1, <3>1, TimesFacts
  <2> HIDE DEF w
  <2>3. m + DayLen <= w
    BY <1>2, <1>5, <1>7, <2>1, <2>2
  <2>4. DayOf(m) \in Nat /\ DayOf(w) \in Nat /\ DayOf(m) < DayOf(w)
    BY <1>2, <2>2, <2>3, DaysApart
  <2> QED
    BY <1>2, <2>1, <2>4
<1>10. ASSUME NEW r \in Range(io.files[p].recs) PROVE written[r] + MaxAlive < pruner.start
  <2>1. written[r] \in Nat /\ written[r] <= m
    BY <1>6
  <2> QED
    BY <1>2, <1>3, <1>5, <1>7, <2>1
<1> QED
  BY <1>8, <1>9, <1>10

LEMMA PrunerCheckPass ==
  ASSUME TimesInv, back = 0, PassOK, NEW p, PrunerCheck(p)
  PROVE  PassOK'
<1>1. TypesInv /\ pruner # Idle /\ pruner.at = "scan" /\ p \in pruner.todo
      /\ UNCHANGED <<io, job, now, written>>
  BY DEF TimesInv, AsyncInv, PrunerCheck, PrunerRests, Idle
<1>2. pruner \in [at : {"scan"}, dir : {"cache", "log"}, todo : SUBSET Paths, start : Times]
  BY <1>1, PrunerAt
<1>3. \/ /\ Expired(p)
         /\ pruner' = [at |-> "remove", dir |-> pruner.dir, todo |-> pruner.todo \ {p},
                       start |-> pruner.start, path |-> p]
      \/ /\ ~Expired(p)
         /\ pruner' = [pruner EXCEPT !.todo = @ \ {p}]
  BY DEF PrunerCheck
<1>4. /\ pruner'.dir = pruner.dir /\ pruner'.start = pruner.start /\ pruner'.todo = pruner.todo \ {p}
      /\ pruner'.at \in {"scan", "remove"}
      /\ pruner'.at = "remove" => pruner'.path = p /\ Expired(p)
  BY <1>2, <1>3
<1>5. \A q : Listed(q)' => Listed(q)
  BY <1>1, <1>4 DEF Listed
<1>6. CopyBeside'
  BY <1>1 DEF PassOK, CopyBeside
<1>7. ListedKnown'
  BY <1>1, <1>4, <1>5 DEF PassOK, ListedKnown
<1>8. Vanished'
  <2> SUFFICES ASSUME NEW q, Listed(q)', ~Exists(io, q)
               PROVE  /\ pruner.dir = "cache" /\ Moved(io, q)
                      /\ job.at = "cache" => LogFileName(io, DayOf(now), "cache") # q
    BY <1>1, <1>4 DEF Vanished
  <2> QED
    BY <1>1, <1>5 DEF PassOK, Vanished
<1>9. Condemned'
  <2> SUFFICES ASSUME pruner'.at = "remove", Exists(io, p) PROVE Condemned'
    BY <1>1, <1>4 DEF Condemned
  <2>1. /\ p.day < DayOf(now)
        /\ job # Idle => p.day < job.day
        /\ \A r \in Range(io.files[p].recs) : written[r] + MaxAlive < pruner.start
    BY <1>1, <1>4, ExpiredIsOld
  <2> QED
    BY <1>1, <1>4, <2>1 DEF Condemned
<1> QED
  BY <1>6, <1>7, <1>8, <1>9 DEF PassOK

LEMMA PrunerRemovePass ==
  ASSUME TimesInv, back = 0, PassOK, PrunerRemove
  PROVE  PassOK'
<1> DEFINE path == pruner.path
<1>1. AsyncInv /\ TypesInv /\ Dates
  BY DEF TimesInv, AsyncInv
<1>2. /\ pruner # Idle /\ pruner.at = "remove" /\ io' = RemoveFile(io, path)
      /\ pruner' = [at |-> "scan", dir |-> pruner.dir, todo |-> pruner.todo, start |-> pruner.start]
      /\ UNCHANGED <<job, now, written>>
  BY DEF PrunerRemove, PrunerRests, Idle
<1>3. /\ DOMAIN io'.files = DOMAIN io.files \ {path}
      /\ \A q \in DOMAIN io'.files : io'.files[q] = io.files[q]
  BY <1>1, <1>2, AsyncRemove DEF Takes, Removed
<1>4. Listed(path) /\ path.dir = pruner.dir /\ path \notin pruner.todo
  BY <1>2 DEF PassOK, ListedKnown, Listed
<1>5. \A q : Listed(q)' <=> q \in pruner.todo
  BY <1>2 DEF Listed
<1>6. CopyBeside'
  <2> SUFFICES ASSUME job.at = "remove", Exists(io', job.cache) PROVE Moved(io', job.cache)
    BY <1>2 DEF CopyBeside
  <2>1. PICK q \in DOMAIN io.files : q.dir = "log" /\ q.day = job.cache.day /\ q.idx >= job.cache.idx
    BY <1>3 DEF PassOK, CopyBeside, Exists, Moved
  <2>2. job # Idle /\ job.cache.day = job.day /\ job.day \in Nat
    <3>1. job # Idle /\ job.day \in 0..DayOf(MaxTime)
      BY <1>1, JobAt
    <3> QED
      BY <1>1, <3>1 DEF Dates, JobDated
  <2>3. q # path
    <3> SUFFICES ASSUME q = path PROVE FALSE
      OBVIOUS
    <3>1. path.day < job.day
      BY <1>2, <2>2 DEF PassOK, Condemned, Exists
    <3> QED
      BY <2>1, <2>2, <3>1
  <2> QED
    BY <1>3, <2>1, <2>3 DEF Moved
<1>7. ListedKnown'
  BY <1>2, <1>5 DEF PassOK, ListedKnown, Listed
<1>8. Vanished'
  <2> SUFFICES ASSUME NEW p \in pruner.todo, ~Exists(io', p)
               PROVE  /\ pruner.dir = "cache" /\ Moved(io', p)
                      /\ job.at = "cache" => LogFileName(io', DayOf(now), "cache") # p
    BY <1>2, <1>5 DEF Vanished
  <2>1. ~Exists(io, p) /\ Listed(p)
    BY <1>3, <1>4 DEF Exists, Listed
  <2>2. /\ pruner.dir = "cache" /\ Moved(io, p)
        /\ job.at = "cache" => LogFileName(io, DayOf(now), "cache") # p
    BY <1>2, <2>1 DEF PassOK, Vanished
  <2>3. Moved(io', p)
    BY <1>3, <1>4, <2>2, MovedGrows
  <2>4. LogFileName(io', DayOf(now), "cache") = LogFileName(io, DayOf(now), "cache")
    <3>1. path \in DOMAIN io.files => path.day < DayOf(now)
      BY <1>2 DEF PassOK, Condemned, Exists
    <3>2. DayOf(now) \in Nat
      BY <1>1, TimesFacts
    <3>3. path \in DOMAIN io.files => path.day # DayOf(now)
      BY <3>1, <3>2
    <3>4. NextFileIndex(io', DayOf(now)) = NextFileIndex(io, DayOf(now))
      BY <1>3, <3>3, NextByDay
    <3> QED
      BY <3>4 DEF LogFileName
  <2> QED
    BY <2>2, <2>3, <2>4
<1>9. Condemned'
  BY <1>2 DEF Condemned
<1> QED
  BY <1>6, <1>7, <1>8, <1>9 DEF PassOK

LEMMA PruneStep ==
  ASSUME Modes = {"async"}, Faults \subseteq {"append"}, PruneInv, [Next]_vars
  PROVE  PruneInv'
<1>1. TimesInv /\ TimesInv' /\ AsyncInv /\ TypesInv
  BY TimesStep DEF PruneInv, TimesInv, AsyncInv
<1>2. back' = 0 => back = 0
  <2>1. back' = back \/ back' = back + 1
    BY AsyncCases, <1>1 DEF Next, vars, counts, Log2File, WriteCache, WriteLog, WriteFallback, AppendCache, RemoveCache,
       MoverStart, MoverEnd, MoverKeep, MoverAppend, MoverRemove, PrunerStart, PrunerEnd, PrunerCheck,
       PrunerRemove, PrunerRests, SetMode, Open, Close, Crash, Tick, ClockBack, CountFaults
  <2>2. back \in Nat
    BY <1>1, LogFilesAssumption DEF TypesInv
  <2> QED
    BY <2>1, <2>2
<1> SUFFICES ASSUME back' = 0 PROVE PassOK'
  BY <1>1 DEF PruneInv
<1>3. back = 0 /\ PassOK
  BY <1>2 DEF PruneInv
<1>4. CASE Writing BY <1>1, <1>3, <1>4, WritingPass
<1>5. CASE AppendCache BY <1>1, <1>3, <1>5, AppendCachePass
<1>6. CASE RemoveCache BY <1>1, <1>3, <1>6, RemoveCachePass
<1>7. CASE MoverStart \/ MoverRemove \/ MoverEnd \/ \E p : MoverKeep(p) \/ MoverAppend(p)
  BY <1>1, <1>3, <1>7, MoverPass
<1>8. CASE PrunerRemove BY <1>1, <1>3, <1>8, PrunerRemovePass
<1>9. CASE TurnsOver BY <1>1, <1>3, <1>9, TurnsOverPass DEF TimesInv
<1>10. CASE Log2File BY <1>1, <1>3, <1>10, Log2FilePass
<1>11. CASE \E dir : PrunerStart(dir) BY <1>1, <1>3, <1>11, PrunerStartPass
<1>12. CASE \E p : PrunerCheck(p) BY <1>1, <1>3, <1>12, PrunerCheckPass
<1>13. CASE PrunerEnd
  <2>1. pruner' = Idle /\ UNCHANGED <<io, job>>
    BY <1>13 DEF PrunerEnd, PrunerRests
  <2>2. CopyBeside'
    BY <1>3, <2>1 DEF PassOK, CopyBeside
  <2> QED
    BY <2>1, <2>2, NoPass
<1>14. CASE Tick BY <1>1, <1>3, <1>14, TickPass
<1>15. CASE ClockBack
  <2>1. back' = back + 1
    BY <1>15 DEF ClockBack
  <2> QED
    BY <1>3, <2>1
<1>16. CASE UNCHANGED vars
  <2>1. UNCHANGED <<io, now, written, job, pruner>>
    BY <1>16 DEF vars, ghosts
  <2> QED
    BY <1>3, <2>1, PassSame
<1> QED
  BY <1>1, <1>4, <1>5, <1>6, <1>7, <1>8, <1>9, <1>10, <1>11, <1>12, <1>13, <1>14, <1>15, <1>16,
     AsyncCases DEF Quiet

LEMMA PruneInit ==
  ASSUME Modes = {"async"}, Init
  PROVE  PruneInv
<1>1. TimesInv
  BY TimesInit
<1>2. PassOK
  BY DEF Init, PassOK, CopyBeside, Idle
<1> QED
  BY <1>1, <1>2 DEF PruneInv

LEMMA AlwaysPruneInv ==
  ASSUME Modes = {"async"}, Faults \subseteq {"append"}
  PROVE  Spec => []PruneInv
<1>1. Init => PruneInv
  BY PruneInit
<1>2. PruneInv /\ [Next]_vars => PruneInv'
  BY PruneStep
<1> QED
  BY <1>1, <1>2, PTL DEF Spec

\* Only __DelTimeoutFile destroys blocks on purpose.
LEMMA OnlyPrunerPrunes ==
  ASSUME [Next]_vars, ~PrunerRemove
  PROVE  pruned' = pruned
BY DEF Next, vars, ghosts, Log2File, WriteCache, WriteLog, WriteFallback, AppendCache, RemoveCache, JobRests,
       MoverStart, MoverEnd, MoverKeep, MoverAppend, MoverRemove, MoverRests, PrunerStart, PrunerEnd, PrunerCheck,
       SetMode, Open, Close, Crash, Tick, ClockBack

LEMMA PrunesOld ==
  ASSUME PruneInv, [Next]_vars, back = 0, NEW r \in pruned' \ pruned
  PROVE  now - written[r] > MaxAlive
<1>1. PrunerRemove
  BY OnlyPrunerPrunes
<1>2. AsyncInv /\ TypesInv /\ Dates /\ PassOK
  BY DEF PruneInv, TimesInv, AsyncInv
<1>3. pruner # Idle /\ pruner.at = "remove" /\ r \in Range(Content(io, pruner.path))
  BY <1>1 DEF PrunerRemove, Idle
<1>4. Exists(io, pruner.path) /\ r \in Range(io.files[pruner.path].recs)
  BY <1>3, EmptySeqFacts DEF Content
<1>5. written[r] + MaxAlive < pruner.start /\ pruner.start <= now
  BY <1>2, <1>3, <1>4 DEF PassOK, Condemned, Dates
<1>6. written[r] \in Nat
  BY <1>2, <1>4, TimesFacts DEF Exists
<1>7. pruner.start \in Nat /\ now \in Nat /\ MaxAlive \in Nat
  BY <1>2, <1>3, LogFilesAssumption DEF TypesInv, PrunerTypes, Times
<1> QED
  BY <1>5, <1>6, <1>7

\* A block that __DelTimeoutFile destroys was written more than max_alive_time_
\* ago, by a clock that was not set back: between the test of a file and its
\* removal, which hold no mutex_log_file_, nobody writes to it or creates it again.
THEOREM LogFilesPruneSparesFresh ==
  ASSUME Modes = {"async"}, Faults \subseteq {"append"}
  PROVE  Spec => PruneSparesFresh
<1>1. PruneInv /\ [Next]_vars => [back = 0 => \A r \in pruned' \ pruned : now - written[r] > MaxAlive]_vars
  BY PrunesOld
<1> QED
  BY <1>1, AlwaysPruneInv, PTL DEF Spec, PruneSparesFresh

-----------------------------------------------------------------------------
(* SplitBounded. The two files of a name together are over max_file_size_  *)
(* by at most one block (PairsFit), because a block goes to the highest    *)
(* index of its day (TopOK).                                               *)

\* The log file and the cache file of one name.
Pair(x, day, idx) == Len(Content(x, Path("log", day, idx))) + Len(Content(x, Path("cache", day, idx)))

\* m is the highest index of a day.
TopOfDay(x, day, m) ==
  /\ \E q \in DOMAIN x.files : q.day = day /\ q.idx = m
  /\ \A q \in DOMAIN x.files : q.day = day => q.idx <= m

LEMMA PairType ==
  ASSUME NEW n, NEW x, FileTypes(x, n), NEW day, NEW idx
  PROVE  /\ Pair(x, day, idx) \in Nat
         /\ Len(Content(x, Path("log", day, idx))) \in Nat /\ Len(Content(x, Path("cache", day, idx))) \in Nat
<1>1. \A p : Content(x, p) \in Seq(1..n)
  BY ContentType
<1>2. \A p : Len(Content(x, p)) \in Nat
  BY <1>1
<1> QED
  BY <1>2 DEF Pair

LEMMA NextIs ==
  ASSUME NEW n, NEW x, FileTypes(x, n), NEW day
  PROVE  \/ /\ MaxFileSize = 0 \/ \A q \in DOMAIN x.files : q.day # day
            /\ NextFileIndex(x, day) = 0
         \/ /\ MaxFileSize # 0
            /\ \E m \in Nat : /\ TopOfDay(x, day, m)
                              /\ NextFileIndex(x, day) = IF Pair(x, day, m) > MaxFileSize THEN m + 1 ELSE m
<1> DEFINE idxs == {p.idx : p \in {q \in DOMAIN x.files : q.day = day}}
<1>1. \A p \in DOMAIN x.files : p.idx \in Nat
  BY DEF FileTypes, Paths
<1>2. PICK b \in Nat : \A p \in DOMAIN x.files : p.idx <= b
  BY DEF FileTypes
<1>3. idxs \subseteq Nat /\ \A i \in idxs : i <= b
  BY <1>1, <1>2
<1>4. idxs # {} => Max(idxs) \in idxs /\ \A i \in idxs : i <= Max(idxs)
  <2> HIDE DEF idxs
  <2> QED
    BY <1>2, <1>3, MaxOfBounded
<1>5. NextFileIndex(x, day) =
        IF MaxFileSize = 0 \/ idxs = {} THEN 0
        ELSE IF Pair(x, day, Max(idxs)) > MaxFileSize THEN Max(idxs) + 1 ELSE Max(idxs)
  BY DEF NextFileIndex, Pair
<1>6. CASE MaxFileSize = 0 \/ idxs = {}
  BY <1>5, <1>6
<1>7. CASE MaxFileSize # 0 /\ idxs # {}
  <2> DEFINE m == Max(idxs)
  <2>1. m \in idxs /\ m \in Nat /\ \A i \in idxs : i <= m
    BY <1>3, <1>4, <1>7
  <2>2. TopOfDay(x, day, m)
    <3> HIDE DEF m
    <3> QED
      BY <2>1 DEF TopOfDay
  <2> HIDE DEF idxs
  <2>3. NextFileIndex(x, day) = IF Pair(x, day, m) > MaxFileSize THEN m + 1 ELSE m
    BY <1>5, <1>7
  <2> QED
    BY <1>7, <2>1, <2>2, <2>3
<1> QED
  BY <1>6, <1>7

\* y has lost files or blocks of x, and gained none.
Shrunk(x, y) ==
  /\ DOMAIN y.files \subseteq DOMAIN x.files
  /\ \A p \in DOMAIN y.files : y.files[p] = x.files[p]

LEMMA PairShrinks ==
  ASSUME NEW n, NEW x, FileTypes(x, n), NEW y, FileTypes(y, n), Shrunk(x, y), NEW day, NEW idx
  PROVE  Pair(y, day, idx) <= Pair(x, day, idx)
<1>1. ASSUME NEW p PROVE Len(Content(y, p)) <= Len(Content(x, p)) /\ Len(Content(x, p)) \in Nat /\ Len(Content(y, p)) \in Nat
  <2>1. Content(x, p) \in Seq(1..n) /\ Content(y, p) \in Seq(1..n)
    BY ContentType
  <2>2. Content(y, p) = Content(x, p) \/ Content(y, p) = <<>>
    BY DEF Shrunk, Content, Exists
  <2> QED
    BY <2>1, <2>2
<1> DEFINE a(z) == Len(Content(z, Path("log", day, idx)))
           b(z) == Len(Content(z, Path("cache", day, idx)))
<1>2. a(y) <= a(x) /\ b(y) <= b(x) /\ a(x) \in Nat /\ b(x) \in Nat /\ a(y) \in Nat /\ b(y) \in Nat
  BY <1>1
<1>3. Pair(x, day, idx) = a(x) + b(x) /\ Pair(y, day, idx) = a(y) + b(y)
  BY DEF Pair
<1> HIDE DEF a, b
<1> QED
  BY <1>2, <1>3

LEMMA NextShrinks ==
  ASSUME NEW n, NEW x, FileTypes(x, n), NEW y, FileTypes(y, n), Shrunk(x, y), NEW day
  PROVE  /\ NextFileIndex(y, day) \in Nat /\ NextFileIndex(x, day) \in Nat
         /\ NextFileIndex(y, day) <= NextFileIndex(x, day)
<1>1. \/ NextFileIndex(x, day) = 0 /\ (MaxFileSize = 0 \/ \A q \in DOMAIN x.files : q.day # day)
      \/ /\ MaxFileSize # 0
         /\ \E m \in Nat : /\ TopOfDay(x, day, m)
                           /\ NextFileIndex(x, day) = IF Pair(x, day, m) > MaxFileSize THEN m + 1 ELSE m
  BY NextIs
<1>2. \/ NextFileIndex(y, day) = 0
      \/ /\ MaxFileSize # 0
         /\ \E m \in Nat : /\ TopOfDay(y, day, m)
                           /\ NextFileIndex(y, day) = IF Pair(y, day, m) > MaxFileSize THEN m + 1 ELSE m
  BY NextIs
<1>3. NextFileIndex(x, day) \in Nat
  BY <1>1
<1>4. CASE NextFileIndex(y, day) = 0
  BY <1>3, <1>4
<1>5. ASSUME MaxFileSize # 0, NEW k \in Nat, TopOfDay(y, day, k),
             NextFileIndex(y, day) = IF Pair(y, day, k) > MaxFileSize THEN k + 1 ELSE k
      PROVE  NextFileIndex(y, day) \in Nat /\ NextFileIndex(y, day) <= NextFileIndex(x, day)
  <2>1. PICK q \in DOMAIN y.files : q.day = day /\ q.idx = k
    BY <1>5 DEF TopOfDay
  <2>2. q \in DOMAIN x.files
    BY <2>1 DEF Shrunk
  <2>3. PICK m \in Nat : /\ TopOfDay(x, day, m)
                         /\ NextFileIndex(x, day) = IF Pair(x, day, m) > MaxFileSize THEN m + 1 ELSE m
    BY <1>1, <1>5, <2>1, <2>2
  <2>4. k <= m
    BY <2>1, <2>2, <2>3 DEF TopOfDay
  <2>5. Pair(y, day, k) <= Pair(x, day, k) /\ Pair(y, day, k) \in Nat /\ Pair(x, day, k) \in Nat
    BY PairShrinks, PairType
  <2>6. MaxFileSize \in Nat
    BY LogFilesAssumption
  <2>7. CASE k = m
    BY <1>5, <2>3, <2>5, <2>6, <2>7
  <2>8. CASE k < m
    BY <1>5, <2>3, <2>8
  <2> QED
    BY <2>4, <2>7, <2>8
<1> QED
  BY <1>2, <1>3, <1>4, <1>5

\* What the index in a name means to a __Log2File: the cache file it chose has
\* the highest index of its day, or the next, from the choice to the move.
TopOK ==
  /\ io.last.time <= now
  /\ MaxFileSize = 0 => \A p \in DOMAIN io.files : p.idx = 0
  /\ job # Idle => job.cache.day = job.day
  /\ job.at = "cache" => NextFileIndex(io, job.day) <= job.cache.idx
  /\ job.at = "append" => \A p \in DOMAIN io.files : p.day = job.day => p.idx <= job.cache.idx

\* The inductive invariant.
TopInv == AsyncInv /\ (back = 0 => TopOK)

LEMMA TopFrame ==
  ASSUME AsyncInv, AsyncInv', TopOK, now <= now', written' = written, Shrunk(io, io'),
         io'.last = io.last \/ io'.last.time = 0, job' = job \/ job' = Idle
  PROVE  TopOK'
<1>1. now \in Nat /\ now' \in Nat /\ FileTypes(io, Len(written)) /\ FileTypes(io', Len(written))
  <2>1. now \in Nat /\ FileTypes(io, Len(written))
    BY TimesFacts
  <2>2. now' \in Nat /\ FileTypes(io', Len(written'))
    BY LogFilesAssumption DEF AsyncInv, TypesInv, Times
  <2> QED
    BY <2>1, <2>2
<1>2. io.last.time \in Nat
  BY <1>1, LogFilesAssumption DEF FileTypes, Times
<1>3. io'.last.time <= now'
  BY <1>1, <1>2 DEF TopOK
<1>4. MaxFileSize = 0 => \A p \in DOMAIN io'.files : p.idx = 0
  BY DEF TopOK, Shrunk
<1>5. job' # Idle => job'.cache.day = job'.day
  BY DEF TopOK
<1>6. ASSUME job'.at = "cache" PROVE NextFileIndex(io', job'.day) <= job'.cache.idx
  <2>1. job' = job /\ job.at # "idle"
    BY <1>6 DEF Idle
  <2>2. job.cache.idx \in Nat
    BY <2>1, JobAt DEF AsyncInv, CachePaths
  <2>3. NextFileIndex(io, job.day) <= job.cache.idx
    BY <1>6, <2>1 DEF TopOK
  <2>4. /\ NextFileIndex(io', job.day) \in Nat /\ NextFileIndex(io, job.day) \in Nat
        /\ NextFileIndex(io', job.day) <= NextFileIndex(io, job.day)
    BY <1>1, NextShrinks
  <2>5. NextFileIndex(io', job.day) <= job.cache.idx
    BY <2>2, <2>3, <2>4
  <2> QED
    BY <2>1, <2>5
<1>7. job'.at = "append" => \A p \in DOMAIN io'.files : p.day = job'.day => p.idx <= job'.cache.idx
  BY DEF TopOK, Shrunk, Idle
<1> QED
  BY <1>3, <1>4, <1>5, <1>6, <1>7 DEF TopOK

LEMMA Log2FileTop ==
  ASSUME AsyncInv, TopOK, Log2File
  PROVE  TopOK'
<1>1. /\ job'.at \in {"cache", "log"} /\ job' # Idle /\ job'.day = DayOf(now) /\ io' = io /\ now' = now
  BY Log2FileSets
<1>2. job'.cache = LogFileName(io, DayOf(now), "cache")
  BY DEF Log2File
<1>3. job'.cache.day = DayOf(now) /\ job'.cache.idx = NextFileIndex(io, DayOf(now))
  BY <1>2 DEF LogFileName, Path
<1>4. NextFileIndex(io, DayOf(now)) \in Nat
  BY TimesFacts, NextIsTop DEF TopOK
<1> QED
  BY <1>1, <1>3, <1>4 DEF TopOK

LEMMA WritingTop ==
  ASSUME AsyncInv, TopOK, Writing
  PROVE  TopOK'
<1> DEFINE P == OpenPath(WriteDir)
<1>1. TypesInv /\ job.at # "idle" /\ JobRests /\ JobGoesOn /\ job # Idle
  BY WritingIs, JobAt DEF AsyncInv
<1>2. job \in [at : {"cache", "append", "remove", "log", "fallback"}, rec : 1..Len(written),
               move : BOOLEAN, day : 0..DayOf(MaxTime), cache : CachePaths, cacheLogs : BOOLEAN]
  BY <1>1, JobAt
<1>3. /\ io'.last = OpenLast(WriteDir)
      /\ WritesNothing \/ WritesEmpty \/ WritesBlock
  BY AsyncWriting
<1>4. DOMAIN io'.files \subseteq DOMAIN io.files \cup {P}
  BY <1>3 DEF WritesNothing, WritesEmpty, WritesBlock, Put
<1>5. WriteDir \in {"cache", "log"} /\ io.last.time <= now
  BY DEF WriteDir, TopOK
<1>6. P.day = DayOf(now) /\ P.idx = NextFileIndex(io, DayOf(now))
  BY <1>5, WritesNow
<1>7. FileTypes(io, Len(written)) /\ now \in Nat /\ now' = now
  BY <1>1, TimesFacts DEF JobRests
<1>8. io'.last.time <= now'
  BY <1>3, <1>5, <1>7 DEF OpenLast
<1>9. ASSUME NEW day
      PROVE  /\ NextFileIndex(io, day) \in Nat
             /\ \A p \in DOMAIN io.files : p.day = day => p.idx <= NextFileIndex(io, day)
             /\ MaxFileSize = 0 => NextFileIndex(io, day) = 0
  BY <1>7, NextIsTop DEF TopOK
<1> HIDE DEF P
<1>10. MaxFileSize = 0 => \A p \in DOMAIN io'.files : p.idx = 0
  BY <1>4, <1>6, <1>9 DEF TopOK
<1>11. /\ job' = Idle \/ (job'.cache = job.cache /\ job'.day = job.day)
       /\ job'.at # "cache"
  BY <1>1, <1>2 DEF JobGoesOn, Idle
<1>12. ASSUME job'.at = "append", NEW p \in DOMAIN io'.files, p.day = job'.day
       PROVE  p.idx <= job'.cache.idx
  <2>1. job.at = "cache"
    <3>1. CASE WriteCache
      BY <3>1 DEF WriteCache
    <3>2. CASE WriteLog
      <4>1. job' = Idle \/ job' = [job EXCEPT !.at = "fallback"]
        BY <3>2 DEF WriteLog
      <4> QED
        BY <1>2, <1>12, <4>1 DEF Idle
    <3>3. CASE WriteFallback
      BY <1>12, <3>3 DEF WriteFallback, Idle
    <3> QED
      BY <3>1, <3>2, <3>3 DEF Writing
  <2>2. job'.cache = job.cache /\ job'.day = job.day
    BY <1>11, <1>12 DEF Idle
  <2>3. NextFileIndex(io, job.day) <= job.cache.idx /\ job.cache.idx \in Nat
    BY <1>2, <2>1 DEF TopOK, CachePaths
  <2>4. p.idx <= NextFileIndex(io, job.day) /\ p.idx \in Nat /\ NextFileIndex(io, job.day) \in Nat
    <3>1. CASE p \in DOMAIN io.files
      <4>1. p.idx <= NextFileIndex(io, job.day) /\ NextFileIndex(io, job.day) \in Nat
        BY <1>9, <1>12, <2>2, <3>1
      <4>2. p.idx \in Nat
        BY <3>1, TimesFacts
      <4> QED
        BY <4>1, <4>2
    <3>2. CASE p \notin DOMAIN io.files
      <4>1. p = P /\ DayOf(now) = job.day
        BY <1>4, <1>6, <1>12, <2>2, <3>2
      <4>2. p.idx = NextFileIndex(io, job.day) /\ NextFileIndex(io, job.day) \in Nat
        BY <1>6, <1>9, <4>1
      <4> QED
        BY <4>2
    <3> QED
      BY <3>1, <3>2
  <2> QED
    BY <2>2, <2>3, <2>4
<1> QED
  <2>1. job' # Idle => job'.cache.day = job'.day
    BY <1>1, <1>11 DEF TopOK
  <2> QED
    BY <1>8, <1>10, <1>11, <1>12, <2>1 DEF TopOK

LEMMA AppendCacheTop ==
  ASSUME AsyncInv, TopOK, AppendCache
  PROVE  TopOK'
<1>1. /\ job.at = "append" /\ JobRests /\ io'.last = io.last
      /\ \/ io' = io /\ job' = Idle
         \/ /\ job' = [job EXCEPT !.at = "remove"]
            /\ io' = io \/ Puts(job.cache, MoveTarget)
  BY AsyncAppendCache
<1>2. /\ job # Idle
      /\ job \in [at : {"cache", "append", "remove", "log", "fallback"}, rec : 1..Len(written),
                  move : BOOLEAN, day : 0..DayOf(MaxTime), cache : CachePaths, cacheLogs : BOOLEAN]
  BY <1>1, JobAt DEF AsyncInv
<1>3. /\ job' = Idle \/ (job'.cache = job.cache /\ job'.day = job.day)
      /\ job'.at \notin {"cache", "append"}
  BY <1>1, <1>2 DEF Idle
<1>4. MaxFileSize = 0 => MoveTarget.idx = 0
  <2>1. MoveTarget.idx = NextFileIndex(io, job.day)
    BY DEF MoveTarget, LogFileName, Path
  <2> QED
    BY <2>1, TimesFacts, NextIsTop DEF TopOK
<1>5. MaxFileSize = 0 => \A p \in DOMAIN io'.files : p.idx = 0
  BY <1>1, <1>4 DEF TopOK, Puts, Put
<1> QED
  BY <1>1, <1>2, <1>3, <1>5 DEF TopOK, JobRests

LEMMA MoverAppendTop ==
  ASSUME AsyncInv, TopOK, NEW p, MoverAppend(p)
  PROVE  TopOK'
<1>1. io'.last = io.last /\ (io' = io \/ Puts(p, LogPath(p))) /\ MoverRests
  BY AsyncMoverAppend DEF MoverAppend
<1>2. job = Idle /\ job' = job /\ now' = now
  BY <1>1, MoverAt DEF AsyncInv, MoverAppend, MoverRests
<1>3. MaxFileSize = 0 => \A q \in DOMAIN io'.files : q.idx = 0
  BY <1>1 DEF TopOK, Puts, Put, LogPath, Path
<1> QED
  BY <1>1, <1>2, <1>3 DEF TopOK, Idle

LEMMA TopStep ==
  ASSUME Modes = {"async"}, TopInv, [Next]_vars
  PROVE  TopInv'
<1>1. AsyncInv /\ AsyncInv' /\ TypesInv
  BY AsyncStep DEF TopInv, AsyncInv
<1>2. now \in Nat /\ now' \in Nat /\ back \in Nat /\ now <= now
  BY <1>1, LogFilesAssumption DEF AsyncInv, TypesInv, Times
<1>3. CASE ClockBack
  <2>1. back' = back + 1
    BY <1>3 DEF ClockBack
  <2> QED
    BY <1>1, <1>2, <2>1 DEF TopInv
<1>4. CASE ~ClockBack
  <2>1. back' = back
    BY <1>1, <1>4, AsyncCases DEF Next, vars, counts, Log2File, WriteCache, WriteLog, WriteFallback, AppendCache,
       RemoveCache, MoverStart, MoverEnd, MoverKeep, MoverAppend, MoverRemove, PrunerStart, PrunerEnd, PrunerCheck,
       PrunerRemove, PrunerRests, SetMode, Open, Close, Crash, Tick, CountFaults
  <2> SUFFICES ASSUME back = 0 PROVE TopOK'
    BY <1>1, <2>1 DEF TopInv
  <2>2. TopOK
    BY DEF TopInv
  <2>3. CASE Log2File BY <1>1, <2>2, <2>3, Log2FileTop
  <2>4. CASE Writing BY <1>1, <2>2, <2>4, WritingTop
  <2>5. CASE AppendCache BY <1>1, <2>2, <2>5, AppendCacheTop
  <2>6. CASE \E p : MoverAppend(p) BY <1>1, <2>2, <2>6, MoverAppendTop
  <2>7. CASE RemoveCache \/ MoverRemove \/ PrunerRemove
    <3>1. PICK p : io' = RemoveFile(io, p)
      BY <2>7 DEF RemoveCache, MoverRemove, PrunerRemove
    <3>2. Shrunk(io, io') /\ io'.last = io.last
      BY <1>1, <3>1, AsyncRemove DEF Takes, Removed, Shrunk
    <3>3. UNCHANGED <<now, written>> /\ (job' = job \/ job' = Idle)
      BY <2>7 DEF RemoveCache, MoverRemove, PrunerRemove, JobRests, MoverRests, PrunerRests
    <3> QED
      BY <1>1, <1>2, <2>2, <3>2, <3>3, TopFrame
  <2>8. CASE TurnsOver
    <3>1. io'.files = io.files /\ (io'.last = io.last \/ io'.last.time = 0)
      BY <1>1, <2>8, AsyncTurnsOver DEF NeverOpened
    <3>2. UNCHANGED <<now, written>> /\ (job' = job \/ job' = Idle)
      BY <2>8 DEF TurnsOver, Open, Close, Crash, ghosts
    <3>3. Shrunk(io, io')
      BY <3>1 DEF Shrunk
    <3> QED
      BY <1>1, <1>2, <2>2, <3>1, <3>2, <3>3, TopFrame
  <2>9. CASE Looks \/ Tick \/ UNCHANGED vars
    <3>1. io' = io /\ written' = written /\ job' = job
      BY <1>1, <2>9, LooksAt DEF Tick, vars, ghosts
    <3>2. now' = now \/ now' = now + 1
      BY <1>1, <2>9, LooksAt DEF Tick, vars
    <3>3. Shrunk(io, io') /\ now <= now'
      BY <1>2, <3>1, <3>2 DEF Shrunk
    <3> QED
      BY <1>1, <2>2, <3>1, <3>3, TopFrame
  <2> QED
    BY <1>1, <1>4, <2>3, <2>4, <2>5, <2>6, <2>7, <2>8, <2>9, AsyncCases DEF Quiet, Looks
<1> QED
  BY <1>3, <1>4

LEMMA TopInit ==
  ASSUME Modes = {"async"}, Init
  PROVE  TopInv
<1>1. AsyncInv
  BY AsyncInit
<1>2. TopOK
  BY DEF Init, TopOK, Idle, NeverOpened
<1> QED
  BY <1>1, <1>2 DEF TopInv

\* No file is too long, nor are the two files of a name together, those in src
\* aside: while a move is between its halves the blocks are there twice.
PairsFit(x, src) ==
  /\ \A p \in DOMAIN x.files : Len(x.files[p].recs) <= MaxFileSize + 1
  /\ \A day, idx : Path("cache", day, idx) \notin src => Pair(x, day, idx) <= MaxFileSize + 1

\* The inductive invariant.
SplitInv == TopInv /\ (~torn => PairsFit(io, Source))

\* The index that the next block of a day goes to has room for it.
LEMMA NextHasRoom ==
  ASSUME MaxFileSize > 0, NEW n, NEW x, FileTypes(x, n), NEW day
  PROVE  Pair(x, day, NextFileIndex(x, day)) <= MaxFileSize
<1> DEFINE i == NextFileIndex(x, day)
<1>1. MaxFileSize \in Nat /\ MaxFileSize # 0 /\ Pair(x, day, i) \in Nat
  BY LogFilesAssumption, PairType
<1>2. ASSUME \A q \in DOMAIN x.files : q.day = day => q.idx # i PROVE Pair(x, day, i) = 0
  <2>1. \A dir : Path(dir, day, i) \notin DOMAIN x.files
    BY <1>2 DEF Path
  <2> HIDE DEF i
  <2>2. Content(x, Path("log", day, i)) = <<>> /\ Content(x, Path("cache", day, i)) = <<>>
    BY <2>1 DEF Content, Exists
  <2> QED
    BY <2>2 DEF Pair
<1>3. CASE \A q \in DOMAIN x.files : q.day # day
  BY <1>1, <1>2, <1>3
<1>4. ASSUME NEW m \in Nat, TopOfDay(x, day, m), i = IF Pair(x, day, m) > MaxFileSize THEN m + 1 ELSE m
      PROVE  Pair(x, day, i) <= MaxFileSize
  <2>1. CASE Pair(x, day, m) > MaxFileSize
    <3>1. i = m + 1
      BY <1>4, <2>1
    <3>2. \A q \in DOMAIN x.files : q.day = day => q.idx <= m
      BY <1>4 DEF TopOfDay
    <3>3. \A q \in DOMAIN x.files : q.day = day => q.idx # i
      BY <3>1, <3>2
    <3> QED
      BY <1>1, <1>2, <3>3
  <2>2. CASE ~(Pair(x, day, m) > MaxFileSize)
    <3>1. i = m
      BY <1>4, <2>2
    <3>2. Pair(x, day, i) \in Nat
      BY PairType
    <3> HIDE DEF i
    <3> QED
      BY <1>1, <2>2, <3>1, <3>2
  <2> QED
    BY <2>1, <2>2
<1> QED
  BY <1>1, <1>3, <1>4, NextIs

LEMMA PutPair ==
  ASSUME NEW n, NEW x, FileTypes(x, n), NEW p \in Paths, NEW s \in Seq(1..n), NEW y, Put(x, y, p, s)
  PROVE  /\ Len(Content(y, p)) = Len(Content(x, p)) + Len(s)
         /\ \A q : q # p => Content(y, q) = Content(x, q)
         /\ \A day, idx : Pair(y, day, idx) =
              IF day = p.day /\ idx = p.idx THEN Pair(x, day, idx) + Len(s) ELSE Pair(x, day, idx)
<1>1. Len(Content(y, p)) = Len(Content(x, p)) + Len(s)
  <2>1. Content(x, p) \in Seq(1..n)
    BY ContentType
  <2>2. Content(y, p) = Content(x, p) \o s
    BY DEF Put, Content, Exists
  <2> QED
    BY <2>1, <2>2
<1>2. \A q : q # p => Content(y, q) = Content(x, q)
  BY DEF Put, Content, Exists
<1>3. p = Path(p.dir, p.day, p.idx) /\ p.dir \in {"cache", "log"}
  BY DEF Paths, Path
<1>4. ASSUME NEW day, NEW idx
      PROVE  Pair(y, day, idx) =
               IF day = p.day /\ idx = p.idx THEN Pair(x, day, idx) + Len(s) ELSE Pair(x, day, idx)
  <2> DEFINE l == Path("log", day, idx)
             c == Path("cache", day, idx)
             a == Len(Content(x, l))
             b == Len(Content(x, c))
  <2>1. l # c /\ l.day = day /\ l.idx = idx /\ c.day = day /\ c.idx = idx
    BY DEF Path
  <2>2. a \in Nat /\ b \in Nat /\ Len(s) \in Nat
    BY PairType
  <2>3. Pair(x, day, idx) = a + b
    BY DEF Pair
  <2>4. Pair(y, day, idx) = Len(Content(y, l)) + Len(Content(y, c))
    BY DEF Pair
  <2>5. CASE p = l
    <3>1. Len(Content(y, l)) = a + Len(s) /\ Len(Content(y, c)) = b /\ day = p.day /\ idx = p.idx
      BY <1>1, <1>2, <2>1, <2>5
    <3> HIDE DEF a, b, l, c
    <3> QED
      BY <2>2, <2>3, <2>4, <3>1
  <2>6. CASE p = c
    <3>1. Len(Content(y, c)) = b + Len(s) /\ Len(Content(y, l)) = a /\ day = p.day /\ idx = p.idx
      BY <1>1, <1>2, <2>1, <2>6
    <3> HIDE DEF a, b, l, c
    <3> QED
      BY <2>2, <2>3, <2>4, <3>1
  <2>7. CASE p # l /\ p # c
    <3>1. ~(day = p.day /\ idx = p.idx)
      BY <1>3, <2>7
    <3>2. Len(Content(y, c)) = b /\ Len(Content(y, l)) = a
      BY <1>2, <2>7
    <3> HIDE DEF a, b, l, c
    <3> QED
      BY <2>3, <2>4, <3>1, <3>2
  <2> QED
    BY <2>5, <2>6, <2>7
<1> QED
  BY <1>1, <1>2, <1>4

\* A file is not longer than its pair.
LEMMA FileInPair ==
  ASSUME NEW n, NEW x, FileTypes(x, n), NEW p \in DOMAIN x.files
  PROVE  Len(x.files[p].recs) \in Nat /\ Len(x.files[p].recs) <= Pair(x, p.day, p.idx)
<1>1. p \in Paths
  BY DEF FileTypes
<1>2. p = Path("log", p.day, p.idx) \/ p = Path("cache", p.day, p.idx)
  BY <1>1 DEF Paths, Path
<1> DEFINE a == Len(Content(x, Path("log", p.day, p.idx)))
           b == Len(Content(x, Path("cache", p.day, p.idx)))
<1>3. a \in Nat /\ b \in Nat /\ Pair(x, p.day, p.idx) = a + b
  BY PairType DEF Pair
<1>4. Len(x.files[p].recs) = a \/ Len(x.files[p].recs) = b
  BY <1>2 DEF Content, Exists
<1> HIDE DEF a, b
<1> QED
  BY <1>3, <1>4

LEMMA PairsAreEnough ==
  ASSUME MaxFileSize \in Nat, NEW n, NEW x, FileTypes(x, n),
         \A day, idx : Pair(x, day, idx) <= MaxFileSize + 1
  PROVE  \A src : PairsFit(x, src)
<1>1. ASSUME NEW p \in DOMAIN x.files PROVE Len(x.files[p].recs) <= MaxFileSize + 1
  <2>1. Len(x.files[p].recs) \in Nat /\ Len(x.files[p].recs) <= Pair(x, p.day, p.idx)
    BY FileInPair
  <2>2. Pair(x, p.day, p.idx) \in Nat /\ Pair(x, p.day, p.idx) <= MaxFileSize + 1
    BY PairType
  <2> QED
    BY <2>1, <2>2
<1> QED
  BY <1>1 DEF PairsFit

LEMMA WritingSplit ==
  ASSUME MaxFileSize > 0, AsyncInv, TopOK, PairsFit(io, {}), AsyncInv', written' = written, Writing
  PROVE  PairsFit(io', {})
<1> DEFINE P == OpenPath(WriteDir)
           n == Len(written)
<1>1. /\ FileTypes(io, n) /\ FileTypes(io', n) /\ MaxFileSize \in Nat
  BY LogFilesAssumption DEF AsyncInv, TypesInv
<1>2. WriteDir \in {"cache", "log"} /\ io.last.time <= now
  BY DEF WriteDir, TopOK
<1>3. P.day = DayOf(now) /\ P.idx = NextFileIndex(io, DayOf(now)) /\ P \in Paths
  BY <1>2, WritesNow
<1>4. WritesNothing \/ WritesEmpty \/ WritesBlock
  BY AsyncWriting
<1>5. job.rec \in 1..n
  <2>1. job.at # "idle" /\ TypesInv
    BY WritingIs DEF AsyncInv
  <2> QED
    BY <2>1, JobAt
<1> HIDE DEF P
<1>6. ASSUME NEW s \in Seq(1..n), Len(s) \in {0, 1}, Put(io, io', P, s)
      PROVE  PairsFit(io', {})
  <2>1. \A day, idx : Pair(io', day, idx) =
          IF day = P.day /\ idx = P.idx THEN Pair(io, day, idx) + Len(s) ELSE Pair(io, day, idx)
    BY <1>1, <1>3, <1>6, PutPair
  <2>2. ASSUME NEW day, NEW idx PROVE Pair(io', day, idx) <= MaxFileSize + 1
    <3>1. Pair(io, day, idx) \in Nat /\ Pair(io, day, idx) <= MaxFileSize + 1
      BY <1>1, PairType DEF PairsFit
    <3>2. day = P.day /\ idx = P.idx => Pair(io, day, idx) <= MaxFileSize
      BY <1>1, <1>3, NextHasRoom
    <3>3. CASE day = P.day /\ idx = P.idx
      <4>1. Pair(io', day, idx) = Pair(io, day, idx) + Len(s)
        BY <2>1, <3>3
      <4>2. Pair(io, day, idx) <= MaxFileSize
        BY <3>2, <3>3
      <4>3. PICK k \in {0, 1} : Len(s) = k
        BY <1>6
      <4>4. Pair(io', day, idx) = Pair(io, day, idx) + k
        BY <4>1, <4>3
      <4>5. \A a, m \in Nat : \A b : a <= m /\ b = a + k => b <= m + 1
        OBVIOUS
      <4> QED
        BY <1>1, <3>1, <4>2, <4>4, <4>5
    <3>4. CASE ~(day = P.day /\ idx = P.idx)
      <4>1. Pair(io', day, idx) = Pair(io, day, idx)
        BY <2>1, <3>4
      <4> QED
        BY <3>1, <4>1
    <3> QED
      BY <3>3, <3>4
  <2> QED
    BY <1>1, <2>2, PairsAreEnough
<1>7. CASE WritesNothing
  BY <1>7 DEF WritesNothing, PairsFit, Pair, Content, Exists
<1>8. CASE WritesEmpty
  <2>1. Len(<<>>) = 0 /\ <<>> \in Seq(1..n)
    OBVIOUS
  <2>2. Put(io, io', P, <<>>)
    BY <1>8 DEF WritesEmpty, P
  <2> QED
    BY <1>6, <2>1, <2>2
<1>9. CASE WritesBlock
  <2>1. Len(<<job.rec>>) = 1 /\ <<job.rec>> \in Seq(1..n)
    BY <1>5
  <2>2. Put(io, io', P, <<job.rec>>)
    BY <1>9 DEF WritesBlock, P
  <2> QED
    BY <1>6, <2>1, <2>2
<1> QED
  BY <1>4, <1>7, <1>8, <1>9

\* The blocks of cache file c are appended to the log file of day c.day and
\* index idx, which has no cache file beside it but perhaps c.
LEMMA CopyFits ==
  ASSUME MaxFileSize \in Nat, NEW n, FileTypes(io, n), FileTypes(io', n), PairsFit(io, {}),
         NEW c \in CachePaths, NEW idx \in Nat, Puts(c, Path("log", c.day, idx)),
         idx # c.idx => Pair(io, c.day, idx) = 0
  PROVE  PairsFit(io', {c})
<1> DEFINE M == Path("log", c.day, idx)
           s == Content(io, c)
<1>1. M \in Paths /\ M.day = c.day /\ M.idx = idx
  BY DEF CachePaths, Paths, Path
<1>2. s \in Seq(1..n) /\ Put(io, io', M, s)
  BY ContentType DEF Puts
<1>3. c = Path("cache", c.day, c.idx)
  BY DEF CachePaths, Path
<1>4. Len(s) \in Nat /\ Len(s) <= MaxFileSize + 1
  <2>1. c \in DOMAIN io.files /\ s = io.files[c].recs
    BY DEF Puts, Content, Exists
  <2> QED
    BY <1>2, <2>1 DEF PairsFit
<1>5. Pair(io, c.day, c.idx) = Len(Content(io, Path("log", c.day, c.idx))) + Len(s)
  BY <1>3 DEF Pair
<1>6. ASSUME NEW d, NEW i PROVE Pair(io, d, i) \in Nat /\ Pair(io, d, i) <= MaxFileSize + 1
  BY PairType DEF PairsFit
<1>7. /\ Len(Content(io', M)) = Len(Content(io, M)) + Len(s)
      /\ \A q : q # M => Content(io', q) = Content(io, q)
      /\ \A d, i : Pair(io', d, i) =
           IF d = M.day /\ i = M.idx THEN Pair(io, d, i) + Len(s) ELSE Pair(io, d, i)
  <2> HIDE DEF M, s
  <2> QED
    BY <1>1, <1>2, PutPair
<1>8. Len(Content(io, M)) \in Nat /\ Len(Content(io, Path("log", c.day, c.idx))) \in Nat
  BY PairType
<1>9. idx = c.idx => M = Path("log", c.day, c.idx)
  OBVIOUS
<1>10. idx # c.idx => Len(Content(io, M)) = 0
  <2>1. Pair(io, c.day, idx) = Len(Content(io, M)) + Len(Content(io, Path("cache", c.day, idx)))
    BY DEF Pair
  <2>2. Len(Content(io, Path("cache", c.day, idx))) \in Nat
    BY PairType
  <2> HIDE DEF M
  <2> QED
    BY <1>8, <2>1, <2>2
<1> HIDE DEF M, s
<1>11. Len(Content(io', M)) <= MaxFileSize + 1
  <2>1. CASE idx = c.idx
    <3>1. Pair(io, c.day, c.idx) <= MaxFileSize + 1
      BY <1>6
    <3> QED
      BY <1>4, <1>5, <1>7, <1>8, <1>9, <2>1, <3>1
  <2>2. CASE idx # c.idx
    BY <1>4, <1>7, <1>10, <2>2
  <2> QED
    BY <2>1, <2>2
<1>12. ASSUME NEW p \in DOMAIN io'.files PROVE Len(io'.files[p].recs) <= MaxFileSize + 1
  <2>1. CASE p = M
    BY <1>11, <1>12, <2>1 DEF Content, Exists
  <2>2. CASE p # M
    BY <1>2, <1>12, <2>2 DEF Put, PairsFit
  <2> QED
    BY <2>1, <2>2
<1>13. ASSUME NEW d, NEW i, Path("cache", d, i) # c PROVE Pair(io', d, i) <= MaxFileSize + 1
  <2>1. CASE d = M.day /\ i = M.idx
    <3>1. idx # c.idx
      BY <1>1, <1>3, <1>13, <2>1
    <3>2. Pair(io', d, i) = Pair(io, d, i) + Len(s) /\ Pair(io, d, i) = 0
      BY <1>1, <1>7, <2>1, <3>1
    <3> QED
      BY <1>4, <3>2
  <2>2. CASE ~(d = M.day /\ i = M.idx)
    <3>1. Pair(io', d, i) = Pair(io, d, i)
      BY <1>7, <2>2
    <3> QED
      BY <1>6, <3>1
  <2> QED
    BY <2>1, <2>2
<1> QED
  BY <1>12, <1>13 DEF PairsFit

LEMMA AppendCacheSplit ==
  ASSUME MaxFileSize > 0, AsyncInv, TopOK, PairsFit(io, {}), AsyncInv', AppendCache
  PROVE  PairsFit(io', Source')
<1>1. /\ job.at = "append" /\ JobRests
      /\ \/ io' = io
         \/ /\ job' = [job EXCEPT !.at = "remove"]
            /\ Puts(job.cache, MoveTarget)
  BY AsyncAppendCache
<1>2. /\ job # Idle
      /\ job \in [at : {"cache", "append", "remove", "log", "fallback"}, rec : 1..Len(written),
                  move : BOOLEAN, day : 0..DayOf(MaxTime), cache : CachePaths, cacheLogs : BOOLEAN]
  BY <1>1, JobAt DEF AsyncInv
<1>3. FileTypes(io, Len(written)) /\ FileTypes(io', Len(written)) /\ MaxFileSize \in Nat
  BY <1>1, LogFilesAssumption DEF AsyncInv, TypesInv, JobRests
<1>4. CASE io' = io
  BY <1>4 DEF PairsFit
<1>5. CASE job' = [job EXCEPT !.at = "remove"] /\ Puts(job.cache, MoveTarget)
  <2> DEFINE c == job.cache
             i == NextFileIndex(io, job.day)
  <2>1. Source' = {c}
    BY <1>2, <1>5 DEF Source
  <2>2. c \in CachePaths /\ c.day = job.day /\ c.idx \in Nat /\ c \in DOMAIN io.files
    BY <1>2, <1>5 DEF TopOK, CachePaths, Puts
  <2>3. MoveTarget = Path("log", c.day, i)
    BY <2>2 DEF MoveTarget, LogFileName
  <2>4. \A q \in DOMAIN io.files : q.day = job.day => q.idx <= c.idx /\ q.idx \in Nat
    BY <1>1, <1>3 DEF TopOK, FileTypes, Paths
  <2>5. i \in Nat /\ (i # c.idx => Pair(io, job.day, i) = 0)
    <3>1. \E m \in Nat : /\ TopOfDay(io, job.day, m)
                         /\ i = IF Pair(io, job.day, m) > MaxFileSize THEN m + 1 ELSE m
      BY <1>3, <2>2, NextIs
    <3>2. PICK m \in Nat : /\ TopOfDay(io, job.day, m)
                           /\ i = IF Pair(io, job.day, m) > MaxFileSize THEN m + 1 ELSE m
      BY <3>1
    <3>3. m = c.idx
      <4>1. c.idx <= m
        BY <2>2, <3>2 DEF TopOfDay
      <4>2. PICK q \in DOMAIN io.files : q.day = job.day /\ q.idx = m
        BY <3>2 DEF TopOfDay
      <4>3. m <= c.idx
        BY <2>4, <4>2
      <4> QED
        BY <2>2, <4>1, <4>3
    <3> HIDE DEF c
    <3>4. i \in Nat /\ (i # c.idx => i = m + 1)
      BY <3>2, <3>3
    <3>5. ASSUME i = m + 1 PROVE Pair(io, job.day, i) = 0
      <4>1. \A q \in DOMAIN io.files : q.day = job.day => q.idx # i
        BY <2>4, <3>3, <3>5
      <4>2. \A dir : Path(dir, job.day, i) \notin DOMAIN io.files
        BY <4>1 DEF Path
      <4> HIDE DEF i
      <4>3. Content(io, Path("log", job.day, i)) = <<>> /\ Content(io, Path("cache", job.day, i)) = <<>>
        BY <4>2 DEF Content, Exists
      <4> QED
        BY <4>3 DEF Pair
    <3> QED
      BY <3>4, <3>5
  <2>6. Puts(c, Path("log", c.day, i))
    BY <1>5, <2>3
  <2> HIDE DEF c, i
  <2>7. PairsFit(io', {c})
    BY <1>3, <2>2, <2>5, <2>6, CopyFits
  <2> QED
    BY <2>1, <2>7
<1> QED
  BY <1>1, <1>4, <1>5

LEMMA MoverAppendSplit ==
  ASSUME MaxFileSize > 0, AsyncInv, PairsFit(io, {}), AsyncInv', NEW p, MoverAppend(p)
  PROVE  PairsFit(io', Source')
<1>1. /\ io' = io \/ Puts(p, LogPath(p))
      /\ MoverRests /\ mover.at = "scan" /\ p \in mover.todo
  BY AsyncMoverAppend DEF MoverAppend
<1>2. job = Idle /\ p \in CachePaths
  BY <1>1, MoverAt DEF AsyncInv
<1>3. FileTypes(io, Len(written)) /\ FileTypes(io', Len(written)) /\ MaxFileSize \in Nat
  BY <1>1, LogFilesAssumption DEF AsyncInv, TypesInv, MoverRests
<1>4. CASE io' = io
  BY <1>4 DEF PairsFit
<1>5. CASE Puts(p, LogPath(p)) /\ io' # io
  <2>1. Source' = {p}
    <3>1. \E ok : /\ io' # io => ok
                  /\ mover' = IF ok THEN [at |-> "remove", todo |-> mover.todo \ {p},
                                          start |-> mover.start, path |-> p] ELSE Idle
      BY DEF MoverAppend
    <3>2. mover'.at = "remove" /\ mover'.path = p
      BY <1>5, <3>1
    <3> QED
      BY <1>1, <1>2, <3>2 DEF Source, MoverRests, Idle
  <2>2. Puts(p, Path("log", p.day, p.idx)) /\ p.idx \in Nat
    BY <1>2, <1>5 DEF LogPath, CachePaths
  <2>3. PairsFit(io', {p})
    BY <1>2, <1>3, <2>2, CopyFits
  <2> QED
    BY <2>1, <2>3
<1> QED
  BY <1>1, <1>4, <1>5

\* A step that takes files away fits as well, and when what is taken away is
\* the source of a move, nothing is there twice any more.
LEMMA RemoveFits ==
  ASSUME MaxFileSize \in Nat, NEW n, FileTypes(io, n), FileTypes(io', n), Shrunk(io, io'),
         NEW src, PairsFit(io, src), NEW src2, \A c \in src \ src2 : c \notin DOMAIN io'.files
  PROVE  PairsFit(io', src2)
<1>1. \A p \in DOMAIN io'.files : Len(io'.files[p].recs) <= MaxFileSize + 1
  BY DEF PairsFit, Shrunk
<1>2. ASSUME NEW d, NEW i, Path("cache", d, i) \notin src2 PROVE Pair(io', d, i) <= MaxFileSize + 1
  <2>1. CASE Path("cache", d, i) \notin src
    <3>1. Pair(io, d, i) <= MaxFileSize + 1 /\ Pair(io', d, i) <= Pair(io, d, i)
      BY <2>1, PairShrinks DEF PairsFit
    <3>2. Pair(io, d, i) \in Nat /\ Pair(io', d, i) \in Nat
      BY PairType
    <3> QED
      BY <3>1, <3>2
  <2>2. CASE Path("cache", d, i) \in src
    <3> DEFINE l == Path("log", d, i)
    <3>1. Content(io', Path("cache", d, i)) = <<>>
      BY <1>2, <2>2 DEF Content, Exists
    <3>2. Pair(io', d, i) = Len(Content(io', l)) /\ Len(Content(io', l)) \in Nat
      BY <3>1, PairType DEF Pair
    <3>3. Len(Content(io', l)) <= MaxFileSize + 1
      <4>1. CASE l \in DOMAIN io'.files
        BY <1>1, <4>1 DEF Content, Exists
      <4>2. CASE l \notin DOMAIN io'.files
        BY <4>2 DEF Content, Exists
      <4> QED
        BY <4>1, <4>2
    <3> QED
      BY <3>2, <3>3
  <2> QED
    BY <2>1, <2>2
<1> QED
  BY <1>1, <1>2 DEF PairsFit

LEMMA RemoveSplit ==
  ASSUME MaxFileSize > 0, AsyncInv, PairsFit(io, Source), AsyncInv', RemoveCache \/ MoverRemove \/ PrunerRemove
  PROVE  PairsFit(io', Source')
<1>1. UNCHANGED written
  BY DEF RemoveCache, MoverRemove, PrunerRemove, JobRests, MoverRests, PrunerRests
<1>2. FileTypes(io, Len(written)) /\ FileTypes(io', Len(written)) /\ MaxFileSize \in Nat
  BY <1>1, LogFilesAssumption DEF AsyncInv, TypesInv
<1>3. PICK p : /\ io' = RemoveFile(io, p)
               /\ \/ job.at = "remove" /\ p = job.cache /\ job' = Idle /\ mover' = mover
                  \/ mover.at = "remove" /\ p = mover.path /\ mover'.at = "scan" /\ job' = job
                  \/ job' = job /\ mover' = mover
  BY DEF RemoveCache, MoverRemove, PrunerRemove, JobRests, MoverRests, PrunerRests
<1>4. /\ DOMAIN io'.files = DOMAIN io.files \ {p}
      /\ \A q \in DOMAIN io'.files : io'.files[q] = io.files[q]
  BY <1>3, AsyncRemove DEF Takes, Removed
<1>5. Shrunk(io, io')
  BY <1>4 DEF Shrunk
<1>6. job.at = "remove" => mover = Idle
  BY JobAt DEF AsyncInv
<1>7. Source \ Source' \subseteq {p}
  <2>1. CASE job.at = "remove" /\ p = job.cache /\ job' = Idle /\ mover' = mover
    BY <1>6, <2>1 DEF Source, Idle
  <2>2. CASE mover.at = "remove" /\ p = mover.path /\ mover'.at = "scan" /\ job' = job
    BY <1>6, <2>2 DEF Source, Idle
  <2>3. CASE job' = job /\ mover' = mover
    BY <2>3 DEF Source
  <2> QED
    BY <1>3, <2>1, <2>2, <2>3
<1>8. \A c \in Source \ Source' : c \notin DOMAIN io'.files
  BY <1>4, <1>7
<1> QED
  BY <1>2, <1>5, <1>8, RemoveFits

LEMMA SplitFrame ==
  ASSUME PairsFit(io, Source), io'.files = io.files, Source' = Source
  PROVE  PairsFit(io', Source')
BY DEF PairsFit, Pair, Content, Exists

LEMMA SplitStep ==
  ASSUME Modes = {"async"}, MaxBack = 0, MaxFileSize > 0, SplitInv, [Next]_vars
  PROVE  SplitInv'
<1>1. TopInv /\ TopInv' /\ AsyncInv /\ AsyncInv' /\ TypesInv
  BY TopStep DEF SplitInv, TopInv, AsyncInv
<1>2. back = 0 /\ TopOK
  <2>1. back \in 0..MaxBack
    BY <1>1 DEF TypesInv
  <2>2. back = 0
    BY <2>1
  <2> QED
    BY <1>1, <2>2 DEF TopInv
<1>3. torn => torn'
  BY <1>1, AsyncCases DEF Next, vars, ghosts, Log2File, WriteCache, WriteLog, WriteFallback, AppendCache,
     RemoveCache, JobRests, MoverStart, MoverEnd, MoverKeep, MoverAppend, MoverRemove, MoverRests, PrunerStart,
     PrunerEnd, PrunerCheck, PrunerRemove, PrunerRests, SetMode, Open, Close, Crash, Tick, ClockBack
<1> SUFFICES ASSUME ~torn' PROVE PairsFit(io', Source')
  BY <1>1 DEF SplitInv
<1>4. ~torn /\ PairsFit(io, Source)
  BY <1>3 DEF SplitInv
<1>5. CASE Writing
  <2>1. /\ job.at \in {"cache", "log", "fallback"} /\ JobRests /\ job'.at # "remove"
    <3>1. job.at \in {"cache", "log", "fallback"}
      BY <1>5 DEF Writing, WriteCache, WriteLog, WriteFallback
    <3>2. JobRests /\ job \in [at : {"cache", "append", "remove", "log", "fallback"}, rec : 1..Len(written),
                  move : BOOLEAN, day : 0..DayOf(MaxTime), cache : CachePaths, cacheLogs : BOOLEAN]
      BY <1>1, <1>5, <3>1, WritingIs, JobAt
    <3>3. job' \in {Idle, [job EXCEPT !.at = "log"], [job EXCEPT !.at = "append"], [job EXCEPT !.at = "fallback"]}
      BY <1>5 DEF Writing, WriteCache, WriteLog, WriteFallback
    <3>4. job'.at # "remove"
      BY <3>2, <3>3 DEF Idle
    <3> QED
      BY <3>1, <3>2, <3>4
  <2>2. Source = {} /\ Source' = {} /\ written' = written
    BY <1>1, <2>1, JobSource DEF JobRests
  <2> QED
    BY <1>1, <1>2, <1>4, <1>5, <2>2, WritingSplit
<1>6. CASE AppendCache
  <2>1. job.at = "append"
    BY <1>6 DEF AppendCache
  <2>2. Source = {}
    BY <1>1, <2>1, MoverQuiet, NoSource
  <2> QED
    BY <1>1, <1>2, <1>4, <1>6, <2>2, AppendCacheSplit
<1>7. CASE \E p : MoverAppend(p)
  <2>1. job = Idle /\ mover.at = "scan"
    BY <1>1, <1>7, MoverAt DEF MoverAppend
  <2>2. Source = {}
    BY <2>1, NoSource DEF Idle
  <2> QED
    BY <1>1, <1>4, <1>7, <2>2, MoverAppendSplit
<1>8. CASE RemoveCache \/ MoverRemove \/ PrunerRemove
  BY <1>1, <1>4, <1>8, RemoveSplit
<1>9. CASE TurnsOver
  <2>1. io'.files = io.files
    BY <1>1, <1>9, AsyncTurnsOver
  <2>2. Source' = Source
    <3>1. CASE Open \/ Close
      BY <3>1 DEF Open, Close, Source
    <3>2. CASE Crash
      <4>1. job.at # "remove" /\ mover.at # "remove" /\ job' = Idle /\ mover' = Idle
        BY <3>2 DEF Crash
      <4> QED
        BY <4>1, NoSource, NoSourceAfter DEF Idle
    <3> QED
      BY <1>9, <3>1, <3>2 DEF TurnsOver
  <2> QED
    BY <1>4, <2>1, <2>2, SplitFrame
<1>10. CASE Quiet
  <2>1. io' = io
    BY <1>10, QuietIo
  <2>2. Source' = Source
    <3>1. CASE Log2File
      <4>1. job = Idle /\ mover = Idle /\ mover' = mover /\ job'.at \in {"cache", "log"}
        BY <3>1, Log2FileSets DEF Log2File
      <4> QED
        BY <4>1, NoSource, NoSourceAfter DEF Idle
    <3>2. CASE MoverStart \/ MoverEnd \/ (\E p : MoverKeep(p))
      <4>1. mover.at # "remove" /\ mover'.at # "remove" /\ job' = job
        <5>1. CASE MoverStart \/ MoverEnd
          BY <5>1 DEF MoverStart, MoverEnd, MoverRests, Idle
        <5>2. CASE \E p : MoverKeep(p)
          <6>1. mover.at = "scan" /\ job' = job /\ \E p : mover' = [mover EXCEPT !.todo = @ \ {p}]
            BY <5>2 DEF MoverKeep, MoverRests
          <6>2. mover \in [at : {"scan"}, todo : SUBSET CachePaths, start : Times]
            BY <1>1, <6>1, MoverAt
          <6> QED
            BY <6>1, <6>2
        <5> QED
          BY <3>2, <5>1, <5>2
      <4> QED
        BY <4>1 DEF Source
    <3>3. CASE (\E dir \in {"cache", "log"} : PrunerStart(dir)) \/ PrunerEnd \/ (\E p : PrunerCheck(p))
               \/ Tick \/ ClockBack \/ UNCHANGED vars
      BY <3>3 DEF PrunerStart, PrunerEnd, PrunerCheck, PrunerRests, Tick, ClockBack, vars, Source
    <3> QED
      BY <1>10, <3>1, <3>2, <3>3 DEF Quiet
  <2> QED
    BY <1>4, <2>1, <2>2, SplitFrame
<1> QED
  BY <1>1, <1>5, <1>6, <1>7, <1>8, <1>9, <1>10, AsyncCases

\* With max_file_size_ set, __MakeLogFileNamePrefix lets a file grow over it by
\* at most the block that crossed it, whatever __AppendFile merges: the two files
\* of a name are measured together.
THEOREM LogFilesSplitBounded ==
  ASSUME Modes = {"async"}, MaxBack = 0
  PROVE  Spec => []SplitBounded
<1>1. CASE MaxFileSize > 0
  <2>1. Init => SplitInv
    <3> SUFFICES ASSUME Init PROVE SplitInv
      OBVIOUS
    <3>1. TopInv /\ io.files = <<>> /\ MaxFileSize \in Nat
      BY TopInit, LogFilesAssumption DEF Init
    <3>2. \A p : Content(io, p) = <<>>
      BY <3>1 DEF Content, Exists
    <3>3. \A d, i : Pair(io, d, i) = 0
      BY <3>2 DEF Pair
    <3>4. PairsFit(io, Source)
      BY <3>1, <3>3 DEF PairsFit
    <3> QED
      BY <3>1, <3>4 DEF SplitInv
  <2>2. SplitInv /\ [Next]_vars => SplitInv'
    BY <1>1, SplitStep
  <2>3. SplitInv => SplitBounded
    BY DEF SplitInv, SplitBounded, PairsFit
  <2> QED
    BY <2>1, <2>2, <2>3, PTL DEF Spec
<1>2. CASE ~(MaxFileSize > 0)
  <2>1. SplitBounded
    BY <1>2 DEF SplitBounded
  <2> QED
    BY <2>1, PTL
<1> QED
  BY <1>1, <1>2

-----------------------------------------------------------------------------
(* ListShowsAll. A log file with a cache file of the same name holds only  *)
(* what that one holds (TwinsOK).                                          *)

\* A log file that has a cache file of the same name beside it holds nothing
\* else.
TwinsOK ==
  \A p \in DOMAIN io.files : p.dir = "log" /\ Exists(io, Path("cache", p.day, p.idx)) =>
    Range(io.files[p].recs) \subseteq Range(io.files[Path("cache", p.day, p.idx)].recs)

\* A __Log2File does not begin a second file of a name.
BeginsNoTwin ==
  LET log == LogFileName(io, DayOf(now), "log")
      cache == LogFileName(io, DayOf(now), "cache") IN
  /\ job.at = "cache" => Exists(io, cache) \/ ~Exists(io, log)
  /\ job.at = "log" => ~Exists(io, cache)

\* The cache file of the name of p.
Twin(p) == Path("cache", p.day, p.idx)

LEMMA PathIs ==
  ASSUME NEW p \in Paths
  PROVE  p = Path(p.dir, p.day, p.idx) /\ p.dir \in {"cache", "log"}
BY DEF Paths, Path

\* Blocks at the end of file p: in the log directory, its twin holds them; in
\* the cache directory, it is not begun beside a log file.
LEMMA TwinsPut ==
  ASSUME NEW n, FileTypes(io, n), TwinsOK, NEW p \in Paths, NEW s \in Seq(1..n), Put(io, io', p, s),
         p.dir = "log" /\ Exists(io, Twin(p)) => Range(s) \subseteq Range(io.files[Twin(p)].recs),
         p.dir = "cache" => Exists(io, p) \/ ~Exists(io, LogPath(p))
  PROVE  TwinsOK'
<1>1. DOMAIN io.files \subseteq Paths
  BY DEF FileTypes
<1>2. Range(io'.files[p].recs) = Range(Content(io, p)) \cup Range(s)
  <2>1. Content(io, p) \in Seq(1..n)
    BY ContentType
  <2> QED
    BY <2>1, RangeConcat DEF Put
<1>3. \A q \in DOMAIN io'.files : q # p => q \in DOMAIN io.files /\ io'.files[q] = io.files[q]
  BY DEF Put
<1> SUFFICES ASSUME NEW q \in DOMAIN io'.files, q.dir = "log", Twin(q) \in DOMAIN io'.files
             PROVE  Range(io'.files[q].recs) \subseteq Range(io'.files[Twin(q)].recs)
  BY DEF TwinsOK, Exists, Twin
<1>4. Twin(q).dir = "cache" /\ Twin(q).day = q.day /\ Twin(q).idx = q.idx
  BY DEF Twin, Path
<1>5. q \in DOMAIN io.files /\ Exists(io, Twin(q)) => Range(io.files[q].recs) \subseteq Range(io.files[Twin(q)].recs)
  BY DEF TwinsOK, Twin
<1>6. CASE q = p
  <2>1. Twin(p) \in DOMAIN io.files /\ io'.files[Twin(p)] = io.files[Twin(p)]
    BY <1>3, <1>4, <1>6
  <2>2. Range(Content(io, p)) \subseteq Range(io.files[Twin(p)].recs)
    <3>1. CASE p \in DOMAIN io.files
      BY <1>5, <1>6, <2>1, <3>1 DEF Content, Exists
    <3>2. CASE p \notin DOMAIN io.files
      BY <3>2, EmptySeqFacts DEF Content, Exists
    <3> QED
      BY <3>1, <3>2
  <2>3. Range(s) \subseteq Range(io.files[Twin(p)].recs)
    BY <1>6, <2>1 DEF Exists
  <2> QED
    BY <1>2, <1>6, <2>1, <2>2, <2>3
<1>7. CASE q # p /\ Twin(q) = p
  <2>1. q \in DOMAIN io.files /\ io'.files[q] = io.files[q] /\ q \in Paths
    BY <1>1, <1>3, <1>7
  <2>2. q = LogPath(p) /\ p.dir = "cache"
    BY <1>4, <1>7, <2>1, PathIs DEF LogPath
  <2>3. Exists(io, p)
    BY <2>1, <2>2 DEF Exists
  <2>4. Range(io.files[q].recs) \subseteq Range(Content(io, p))
    BY <1>5, <1>7, <2>1, <2>3 DEF Content, Exists
  <2> QED
    BY <1>2, <1>7, <2>1, <2>4
<1>8. CASE q # p /\ Twin(q) # p
  BY <1>3, <1>5, <1>8 DEF Exists
<1> QED
  BY <1>6, <1>7, <1>8

\* Files that shrink lose twins, and get none.
LEMMA TwinsShrink ==
  ASSUME TwinsOK, Shrunk(io, io')
  PROVE  TwinsOK'
BY DEF TwinsOK, Shrunk, Exists

\* Where a block goes: no file of the name is begun in the other directory.
LEMMA WritesBesideNone ==
  ASSUME Faults \subseteq {"append"}, TimesInv, back = 0, BeginsNoTwin, Writing, NEW P, P = OpenPath(WriteDir)
  PROVE  /\ job.at \in {"cache", "log"} /\ job.rec \in 1..Len(written)
         /\ P \in Paths /\ P = Path(job.at, DayOf(now), NextFileIndex(io, DayOf(now)))
         /\ Put(io, io', P, <<job.rec>>)
         /\ P.dir = "log" => ~Exists(io, Twin(P))
         /\ P.dir = "cache" => Exists(io, P) \/ ~Exists(io, LogPath(P))
<1> DEFINE i == NextFileIndex(io, DayOf(now))
<1>1. AsyncInv /\ TypesInv /\ JobDated
  BY DEF TimesInv, AsyncInv, Dates
<1>2. job.at # "idle"
  BY <1>1, WritingIs
<1>3. job # Idle /\ job.rec \in 1..Len(written)
  BY <1>1, <1>2, JobAt
<1>4. job.at # "fallback"
  BY <1>1, <1>3 DEF JobDated
<1>5. job.at \in {"cache", "log"} /\ WritesBlock
  BY <1>1, <1>4, SureWriting
<1>6. WriteDir = job.at
  BY <1>5 DEF WriteDir
<1>7. P = LogFileName(io, DayOf(now), job.at) /\ P \in Paths
  BY <1>5, <1>6, WritesToday
<1>8. P = Path(job.at, DayOf(now), i)
  BY <1>7 DEF LogFileName
<1>9. /\ LogFileName(io, DayOf(now), "log") = Path("log", DayOf(now), i)
      /\ LogFileName(io, DayOf(now), "cache") = Path("cache", DayOf(now), i)
  BY DEF LogFileName
<1>10. P.dir = job.at /\ LogPath(P) = Path("log", DayOf(now), i) /\ Twin(P) = Path("cache", DayOf(now), i)
  BY <1>8 DEF Path, LogPath, Twin
<1>11. P.dir = "log" => ~Exists(io, Twin(P))
  BY <1>9, <1>10 DEF BeginsNoTwin
<1>12. P.dir = "cache" => Exists(io, P) \/ ~Exists(io, LogPath(P))
  BY <1>8, <1>9, <1>10 DEF BeginsNoTwin
<1> QED
  BY <1>3, <1>5, <1>7, <1>8, <1>11, <1>12 DEF WritesBlock

LEMMA WritingTwins ==
  ASSUME Faults \subseteq {"append"}, TimesInv, back = 0, TwinsOK, BeginsNoTwin, Writing
  PROVE  TwinsOK'
<1>1. PICK P : P = OpenPath(WriteDir)
  OBVIOUS
<1>2. FileTypes(io, Len(written))
  BY DEF TimesInv, AsyncInv, TypesInv
<1>3. /\ job.rec \in 1..Len(written) /\ P \in Paths /\ Put(io, io', P, <<job.rec>>)
      /\ P.dir = "log" => ~Exists(io, Twin(P))
      /\ P.dir = "cache" => Exists(io, P) \/ ~Exists(io, LogPath(P))
  BY <1>1, WritesBesideNone
<1>4. <<job.rec>> \in Seq(1..Len(written))
  BY <1>3
<1> QED
  BY <1>2, <1>3, <1>4, TwinsPut

LEMMA MoverAppendTwins ==
  ASSUME AsyncInv, TwinsOK, NEW p, MoverAppend(p)
  PROVE  TwinsOK'
<1>1. io' = io \/ Puts(p, LogPath(p))
  BY AsyncMoverAppend
<1>2. mover.at = "scan" /\ p \in mover.todo
  BY DEF MoverAppend
<1>3. p \in CachePaths
  BY <1>2, MoverAt DEF AsyncInv
<1>4. FileTypes(io, Len(written))
  BY DEF AsyncInv, TypesInv
<1>5. CASE io' = io
  BY <1>5 DEF TwinsOK
<1>6. CASE Puts(p, LogPath(p))
  <2>1. LogPath(p) \in Paths /\ LogPath(p).dir = "log"
    BY <1>3, LogPathType
  <2>2. Twin(LogPath(p)) = p
    BY <1>3 DEF CachePaths, LogPath, Twin, Path
  <2>3. Content(io, p) \in Seq(1..Len(written)) /\ Content(io, p) = io.files[p].recs
    BY <1>4, <1>6, ContentType DEF Puts, Content, Exists
  <2> QED
    BY <1>4, <1>6, <2>1, <2>2, <2>3, TwinsPut DEF Puts
<1> QED
  BY <1>1, <1>5, <1>6

\* __MoveOldFiles of __Log2File appends to the log file of the name, or to a new
\* one of the next index; there is no later one.
LEMMA MoveTargetIs ==
  ASSUME AsyncInv, TopOK, AppendCache, Puts(job.cache, MoveTarget)
  PROVE  /\ job.cache \in CachePaths /\ job.cache \in DOMAIN io.files
         /\ \A q \in DOMAIN io.files : q.day = job.cache.day => q.idx <= job.cache.idx
         /\ \E i \in Nat : /\ i = job.cache.idx \/ i = job.cache.idx + 1
                          /\ MoveTarget = Path("log", job.cache.day, i)
<1> DEFINE c == job.cache
           i == NextFileIndex(io, job.day)
<1>1. job.at = "append"
  BY AsyncAppendCache
<1>2. /\ job # Idle
      /\ job \in [at : {"cache", "append", "remove", "log", "fallback"}, rec : 1..Len(written),
                  move : BOOLEAN, day : 0..DayOf(MaxTime), cache : CachePaths, cacheLogs : BOOLEAN]
  BY <1>1, JobAt DEF AsyncInv
<1>3. FileTypes(io, Len(written))
  BY DEF AsyncInv, TypesInv
<1>4. c \in CachePaths /\ c.day = job.day /\ c.idx \in Nat /\ c \in DOMAIN io.files
  BY <1>2 DEF TopOK, CachePaths, Puts
<1>5. \A q \in DOMAIN io.files : q.day = job.day => q.idx <= c.idx /\ q.idx \in Nat
  BY <1>1, <1>3 DEF TopOK, FileTypes, Paths
<1>6. \/ MaxFileSize = 0 /\ i = 0
      \/ \E m \in Nat : TopOfDay(io, job.day, m) /\ (i = m \/ i = m + 1)
  <2>1. \/ (MaxFileSize = 0 \/ \A q \in DOMAIN io.files : q.day # job.day) /\ i = 0
        \/ \E m \in Nat : /\ TopOfDay(io, job.day, m)
                          /\ i = IF Pair(io, job.day, m) > MaxFileSize THEN m + 1 ELSE m
    BY <1>3, NextIs
  <2> HIDE DEF i
  <2> QED
    BY <1>4, <2>1
<1>7. i \in Nat /\ (i = c.idx \/ i = c.idx + 1)
  <2>1. CASE MaxFileSize = 0 /\ i = 0
    BY <1>4, <2>1 DEF TopOK
  <2>2. CASE \E m \in Nat : TopOfDay(io, job.day, m) /\ (i = m \/ i = m + 1)
    <3>1. PICK m \in Nat : TopOfDay(io, job.day, m) /\ (i = m \/ i = m + 1)
      BY <2>2
    <3>2. c.idx <= m
      BY <1>4, <3>1 DEF TopOfDay
    <3>3. PICK q \in DOMAIN io.files : q.day = job.day /\ q.idx = m
      BY <3>1 DEF TopOfDay
    <3>4. m <= c.idx
      BY <1>5, <3>3
    <3>5. m = c.idx
      BY <1>4, <3>2, <3>4
    <3> HIDE DEF c, i
    <3> QED
      BY <3>1, <3>5
  <2> QED
    BY <1>6, <2>1, <2>2
<1>8. MoveTarget = Path("log", c.day, i)
  BY <1>4 DEF MoveTarget, LogFileName
<1> HIDE DEF i
<1> QED
  BY <1>4, <1>5, <1>7, <1>8

LEMMA AppendCacheTwins ==
  ASSUME AsyncInv, TopOK, TwinsOK, AppendCache
  PROVE  TwinsOK'
<1>1. io' = io \/ Puts(job.cache, MoveTarget)
  BY AsyncAppendCache
<1>2. FileTypes(io, Len(written))
  BY DEF AsyncInv, TypesInv
<1>3. CASE io' = io
  BY <1>3 DEF TwinsOK
<1>4. CASE Puts(job.cache, MoveTarget)
  <2> DEFINE c == job.cache
             s == Content(io, c)
  <2>1. /\ c \in CachePaths /\ c \in DOMAIN io.files
        /\ \A q \in DOMAIN io.files : q.day = c.day => q.idx <= c.idx
    BY <1>4, MoveTargetIs
  <2>2. PICK i \in Nat : (i = c.idx \/ i = c.idx + 1) /\ MoveTarget = Path("log", c.day, i)
    BY <1>4, MoveTargetIs
  <2>3. /\ MoveTarget \in Paths /\ MoveTarget.dir = "log" /\ Twin(MoveTarget) = Path("cache", c.day, i)
        /\ c = Path("cache", c.day, c.idx) /\ c.idx \in Nat
    BY <2>1, <2>2 DEF CachePaths, Paths, Path, Twin
  <2>4. Exists(io, Twin(MoveTarget)) => Twin(MoveTarget) = c
    <3> SUFFICES ASSUME Path("cache", c.day, i) \in DOMAIN io.files PROVE i = c.idx
      BY <2>3 DEF Exists
    <3>1. i <= c.idx
      BY <2>1 DEF Path
    <3> QED
      BY <2>2, <2>3, <3>1
  <2>5. s \in Seq(1..Len(written)) /\ s = io.files[c].recs /\ Put(io, io', MoveTarget, s)
    BY <1>2, <1>4, <2>1, ContentType DEF Puts, Content, Exists
  <2> HIDE DEF c, s
  <2> QED
    BY <1>2, <2>3, <2>4, <2>5, TwinsPut
<1> QED
  BY <1>1, <1>3, <1>4

\* The choice of __Log2File, by what is there.
LEMMA Log2FileBegins ==
  ASSUME Log2File
  PROVE  BeginsNoTwin'
<1>1. io' = io /\ now' = now
  BY Log2FileSets
<1>2. /\ job'.at = "cache" => Exists(io, LogFileName(io, DayOf(now), "cache"))
                              \/ ~Exists(io, LogFileName(io, DayOf(now), "log"))
      /\ job'.at = "log" => ~Exists(io, LogFileName(io, DayOf(now), "cache"))
  BY DEF Log2File, CacheLogs
<1> QED
  BY <1>1, <1>2 DEF BeginsNoTwin

\* The files of today stay as they are.
LEMMA BeginsSame ==
  ASSUME BeginsNoTwin, job' = job, now' = now, AsyncInv,
         \A p : p.day = DayOf(now) => (p \in DOMAIN io.files <=> p \in DOMAIN io'.files),
         \A p \in DOMAIN io.files : p.day = DayOf(now) => io.files[p] = io'.files[p]
  PROVE  BeginsNoTwin'
<1>1. NextFileIndex(io', DayOf(now)) = NextFileIndex(io, DayOf(now))
  BY NextByDay
<1>2. \A dir : LogFileName(io', DayOf(now), dir) = LogFileName(io, DayOf(now), dir)
               /\ LogFileName(io, DayOf(now), dir).day = DayOf(now)
  BY <1>1 DEF LogFileName, Path
<1>3. \A dir : Exists(io', LogFileName(io', DayOf(now), dir)) <=> Exists(io, LogFileName(io, DayOf(now), dir))
  BY <1>2 DEF Exists
<1> QED
  BY <1>3 DEF BeginsNoTwin

\* No file is of a day to come.
LEMMA DaysUpToNow ==
  ASSUME TimesInv, back = 0, NEW p \in DOMAIN io.files
  PROVE  p.day \in Nat /\ p.day <= DayOf(now)
<1>1. io.files[p].mtime \in Nat /\ p.day \in Nat /\ now \in Nat
  BY TimesFacts DEF TimesInv
<1>2. io.files[p].mtime <= now /\ p.day <= DayOf(io.files[p].mtime)
  BY DEF TimesInv, Dates, Dated
<1>3. DayOf(io.files[p].mtime) \in Nat /\ DayOf(io.files[p].mtime) <= DayOf(now) /\ DayOf(now) \in Nat
  BY <1>1, <1>2, DayOfMono
<1> QED
  BY <1>1, <1>2, <1>3

\* A new day has no files yet.
LEMMA TickBegins ==
  ASSUME TimesInv, back = 0, BeginsNoTwin, Tick
  PROVE  BeginsNoTwin'
<1>1. now' = now + 1 /\ UNCHANGED <<io, job>>
  BY DEF Tick
<1>2. AsyncInv /\ now \in Nat /\ now' \in Nat /\ DayOf(now) \in Nat
      /\ DayOf(now') \in Nat /\ DayOf(now) <= DayOf(now')
  <2>1. AsyncInv /\ now \in Nat
    BY TimesFacts DEF TimesInv
  <2>2. now' \in Nat /\ now <= now'
    BY <1>1, <2>1
  <2> QED
    BY <2>1, <2>2, DayOfMono
<1>3. CASE DayOf(now') = DayOf(now)
  BY <1>1, <1>3 DEF BeginsNoTwin
<1>4. CASE DayOf(now') # DayOf(now)
  <2>1. ASSUME NEW p \in DOMAIN io.files PROVE p.day # DayOf(now')
    <3>1. p.day \in Nat /\ p.day <= DayOf(now)
      BY DaysUpToNow
    <3> QED
      BY <1>2, <1>4, <3>1
  <2>2. \A dir : ~Exists(io, LogFileName(io, DayOf(now'), dir))
    BY <2>1 DEF Exists, LogFileName, Path
  <2> QED
    BY <1>1, <2>2 DEF BeginsNoTwin
<1> QED
  BY <1>3, <1>4

LEMMA PrunerRemoveBegins ==
  ASSUME TimesInv, back = 0, PassOK, BeginsNoTwin, PrunerRemove
  PROVE  BeginsNoTwin'
<1> DEFINE path == pruner.path
<1>1. AsyncInv /\ DayOf(now) \in Nat
  BY TimesFacts DEF TimesInv
<1>2. pruner # Idle /\ pruner.at = "remove" /\ io' = RemoveFile(io, path) /\ UNCHANGED <<job, now>>
  BY DEF PrunerRemove, PrunerRests, Idle
<1>3. /\ DOMAIN io'.files = DOMAIN io.files \ {path}
      /\ \A q \in DOMAIN io'.files : io'.files[q] = io.files[q]
  BY <1>1, <1>2, AsyncRemove DEF Takes, Removed
<1>4. path \in DOMAIN io.files => path.day < DayOf(now)
  BY <1>2 DEF PassOK, Condemned, Exists
<1>5. path \in DOMAIN io.files => path.day # DayOf(now)
  BY <1>1, <1>4
<1> HIDE DEF path
<1>6. \A p : p.day = DayOf(now) => (p \in DOMAIN io.files <=> p \in DOMAIN io'.files)
  BY <1>3, <1>5
<1>7. \A p \in DOMAIN io.files : p.day = DayOf(now) => io.files[p] = io'.files[p]
  BY <1>3, <1>5
<1> QED
  BY <1>1, <1>2, <1>6, <1>7, BeginsSame

\* The inductive invariant.
ShowsInv == PruneInv /\ TopInv /\ (back = 0 => TwinsOK /\ BeginsNoTwin)

\* Steps after which no __Log2File is about to write, or that leave all alone.
LEMMA BeginsRests ==
  ASSUME BeginsNoTwin, job'.at \notin {"cache", "log"} \/ (job' = job /\ now' = now /\ io'.files = io.files)
  PROVE  BeginsNoTwin'
<1>1. CASE job'.at \notin {"cache", "log"}
  BY <1>1 DEF BeginsNoTwin
<1>2. CASE job' = job /\ now' = now /\ io'.files = io.files
  <2>1. \A day, dir : LogFileName(io', day, dir) = LogFileName(io, day, dir)
    BY <1>2, NextByFiles
  <2> QED
    BY <1>2, <2>1 DEF BeginsNoTwin, Exists
<1> QED
  BY <1>1, <1>2

LEMMA ShowsStep ==
  ASSUME Modes = {"async"}, Faults \subseteq {"append"}, ShowsInv, [Next]_vars
  PROVE  ShowsInv'
<1>1. PruneInv /\ PruneInv' /\ TopInv /\ TopInv' /\ TimesInv /\ AsyncInv /\ TypesInv
  BY PruneStep, TopStep DEF ShowsInv, PruneInv, TimesInv, AsyncInv
<1>2. back' = 0 => back = 0
  <2>1. back' = back \/ back' = back + 1
    BY AsyncCases, <1>1 DEF Next, vars, counts, Log2File, WriteCache, WriteLog, WriteFallback, AppendCache, RemoveCache,
       MoverStart, MoverEnd, MoverKeep, MoverAppend, MoverRemove, PrunerStart, PrunerEnd, PrunerCheck,
       PrunerRemove, PrunerRests, SetMode, Open, Close, Crash, Tick, ClockBack, CountFaults
  <2>2. back \in Nat
    BY <1>1, LogFilesAssumption DEF TypesInv
  <2> QED
    BY <2>1, <2>2
<1> SUFFICES ASSUME back' = 0 PROVE TwinsOK' /\ BeginsNoTwin'
  BY <1>1 DEF ShowsInv
<1>3. back = 0 /\ TwinsOK /\ BeginsNoTwin /\ PassOK /\ TopOK /\ back \in Nat
  BY <1>2 DEF ShowsInv, PruneInv, TopInv
<1>4. Shrunk(io, io') => TwinsOK'
  BY <1>3, TwinsShrink
<1>5. io'.files = io.files => Shrunk(io, io')
  BY DEF Shrunk
<1>6. CASE Log2File
  <2>1. io' = io
    BY <1>6, Log2FileSets
  <2> QED
    BY <1>4, <1>5, <1>6, <2>1, Log2FileBegins
<1>7. CASE Writing
  <2>1. job.at # "idle" /\ JobGoesOn
    BY <1>1, <1>7, WritingIs
  <2>2. /\ job \in [at : {"cache", "append", "remove", "log", "fallback"}, rec : 1..Len(written),
                    move : BOOLEAN, day : 0..DayOf(MaxTime), cache : CachePaths, cacheLogs : BOOLEAN]
        /\ job # Idle
    BY <1>1, <2>1, JobAt
  <2>3. job.at # "fallback"
    BY <1>1, <1>3, <2>2 DEF TimesInv, Dates, JobDated
  <2>4. job' = Idle \/ job' = [job EXCEPT !.at = "append"]
    BY <1>1, <1>7, <2>3, SureWriting
  <2>5. job'.at \notin {"cache", "log"}
    BY <2>2, <2>4 DEF Idle
  <2> QED
    BY <1>1, <1>3, <1>7, <2>5, WritingTwins, BeginsRests
<1>8. CASE AppendCache
  <2>1. /\ job.at = "append" /\ (job' = Idle \/ job' = [job EXCEPT !.at = "remove"])
    BY <1>1, <1>8, AsyncAppendCache
  <2>2. job \in [at : {"cache", "append", "remove", "log", "fallback"}, rec : 1..Len(written),
                 move : BOOLEAN, day : 0..DayOf(MaxTime), cache : CachePaths, cacheLogs : BOOLEAN]
    BY <1>1, <2>1, JobAt
  <2>3. job'.at \notin {"cache", "log"}
    BY <2>1, <2>2 DEF Idle
  <2> QED
    BY <1>1, <1>3, <1>8, <2>3, AppendCacheTwins, BeginsRests
<1>9. CASE RemoveCache
  <2>1. io' = RemoveFile(io, job.cache) /\ job' = Idle
    BY <1>9 DEF RemoveCache
  <2>2. Shrunk(io, io')
    BY <1>1, <2>1, AsyncRemove DEF Takes, Removed, Shrunk
  <2>3. job'.at \notin {"cache", "log"}
    BY <2>1 DEF Idle
  <2> QED
    BY <1>3, <1>4, <2>2, <2>3, BeginsRests
<1>10. CASE MoverRemove
  <2>1. io' = RemoveFile(io, mover.path) /\ job' = job /\ mover.at = "remove"
    BY <1>10 DEF MoverRemove, MoverRests
  <2>2. Shrunk(io, io')
    BY <1>1, <2>1, AsyncRemove DEF Takes, Removed, Shrunk
  <2>3. job'.at \notin {"cache", "log"}
    BY <1>1, <2>1, MoverAt DEF Idle
  <2> QED
    BY <1>3, <1>4, <2>2, <2>3, BeginsRests
<1>11. CASE \E p : MoverAppend(p)
  <2>1. TwinsOK'
    BY <1>1, <1>3, <1>11, MoverAppendTwins
  <2>2. job' = job /\ mover.at = "scan"
    BY <1>11 DEF MoverAppend, MoverRests
  <2>3. job'.at \notin {"cache", "log"}
    BY <1>1, <2>2, MoverAt DEF Idle
  <2> QED
    BY <1>3, <2>1, <2>3, BeginsRests
<1>12. CASE PrunerRemove
  <2>1. io' = RemoveFile(io, pruner.path)
    BY <1>12 DEF PrunerRemove
  <2>2. Shrunk(io, io')
    BY <1>1, <2>1, AsyncRemove DEF Takes, Removed, Shrunk
  <2> QED
    BY <1>1, <1>3, <1>4, <1>12, <2>2, PrunerRemoveBegins
<1>13. CASE TurnsOver
  <2>1. io'.files = io.files
    BY <1>1, <1>13, AsyncTurnsOver
  <2>2. now' = now /\ (job' = job \/ job' = Idle)
    BY <1>13 DEF TurnsOver, Open, Close, Crash
  <2>3. job' = job \/ job'.at \notin {"cache", "log"}
    BY <2>2 DEF Idle
  <2> QED
    BY <1>3, <1>4, <1>5, <2>1, <2>2, <2>3, BeginsRests
<1>14. CASE Looks
  <2>1. io' = io /\ UNCHANGED <<now, job>>
    BY <1>1, <1>14, LooksAt
  <2> QED
    BY <1>3, <1>4, <1>5, <2>1, BeginsRests
<1>15. CASE Tick
  <2>1. io' = io
    BY <1>15 DEF Tick
  <2> QED
    BY <1>1, <1>3, <1>4, <1>5, <1>15, <2>1, TickBegins
<1>16. CASE ClockBack
  <2>1. back' = back + 1
    BY <1>16 DEF ClockBack
  <2> QED
    BY <1>3, <2>1
<1>17. CASE UNCHANGED vars
  <2>1. io' = io /\ UNCHANGED <<now, job>>
    BY <1>17 DEF vars
  <2> QED
    BY <1>3, <1>4, <1>5, <2>1, BeginsRests
<1> QED
  BY <1>1, <1>6, <1>7, <1>8, <1>9, <1>10, <1>11, <1>12, <1>13, <1>14, <1>15, <1>16, <1>17, AsyncCases DEF Quiet, Looks

LEMMA ShowsInit ==
  ASSUME Modes = {"async"}, Init
  PROVE  ShowsInv
<1>1. PruneInv /\ TopInv
  BY PruneInit, TopInit
<1>2. TwinsOK /\ BeginsNoTwin
  BY DEF Init, TwinsOK, BeginsNoTwin, Idle
<1> QED
  BY <1>1, <1>2 DEF ShowsInv

\* A file that is not shown has its blocks in the file that is.
LEMMA TwinsShow ==
  ASSUME ShowsInv
  PROVE  ListShowsAll
<1> SUFFICES ASSUME back = 0, NEW p \in DOMAIN io.files, NEW r \in Range(io.files[p].recs)
             PROVE  \E q \in Shown : r \in Range(io.files[q].recs)
  BY DEF ListShowsAll, OnDisk
<1>1. FileTypes(io, Len(written)) /\ TwinsOK
  BY DEF ShowsInv, TopInv, AsyncInv, TypesInv
<1>2. p \in Paths
  BY <1>1 DEF FileTypes
<1>3. CASE p \in Shown
  BY <1>3
<1>4. CASE p \notin Shown
  <2>1. p.dir = "log" /\ Exists(io, [p EXCEPT !.dir = "cache"])
    BY <1>2, <1>4 DEF Shown, Paths
  <2>2. [p EXCEPT !.dir = "cache"] = Twin(p)
    BY <1>2 DEF Paths, Twin, Path
  <2>3. Twin(p) \in Shown
    BY <2>1, <2>2 DEF Shown, Exists, Twin, Path
  <2>4. r \in Range(io.files[Twin(p)].recs)
    BY <1>1, <2>1, <2>2 DEF TwinsOK, Twin
  <2> QED
    BY <2>3, <2>4
<1> QED
  BY <1>3, <1>4

\* Leaving out the log file of a name that is in the cache directory too,
\* listLogFiles hides no block: __CacheLogs does not begin a cache file beside a
\* log file, and __Log2File writes to no log file beside a cache file.
THEOREM LogFilesListShowsAll ==
  ASSUME Modes = {"async"}, Faults \subseteq {"append"}
  PROVE  Spec => []ListShowsAll
<1>1. Init => ShowsInv
  BY ShowsInit
<1>2. ShowsInv /\ [Next]_vars => ShowsInv'
  BY ShowsStep
<1>3. ShowsInv => ListShowsAll
  BY TwinsShow
<1> QED
  BY <1>1, <1>2, <1>3, PTL DEF Spec

-----------------------------------------------------------------------------
(* InOrder. Read one file after the other, a number that is smaller than   *)
(* one before it has been read already (FilesOrdered); removing files      *)
(* cannot change that.                                                     *)

\* A smaller number after a larger one is a copy.
OrderedOver(s, D) == \A i, j \in D : i < j /\ s[j] < s[i] => \E k \in D : k < i /\ s[k] = s[j]
\* The whole sequence.
InFileOrder(s) == OrderedOver(s, DOMAIN s)

\* So it is from a file that is read to a file that is read later.
Leads(s, t) == \A a \in Range(s), b \in Range(t) : b < a => b \in Range(s)

\* Within a file and between any two.
FilesOrdered ==
  /\ \A p \in DOMAIN io.files : InFileOrder(io.files[p].recs)
  /\ \A p, q \in DOMAIN io.files : Before(p, q) => Leads(io.files[p].recs, io.files[q].recs)

\* A block that is yet to be written is the last.
CarriedNew ==
  job.at \in {"cache", "log"} =>
    job.rec = Len(written) /\ \A p \in DOMAIN io.files : \A r \in Range(io.files[p].recs) : r < job.rec

LEMMA EmptyOrder ==
  ASSUME NEW t
  PROVE  InFileOrder(<<>>) /\ Leads(<<>>, t)
BY EmptySeqFacts DEF InFileOrder, OrderedOver, Leads

LEMMA OneInOrder ==
  ASSUME NEW n \in Nat, NEW r \in 1..n
  PROVE  InFileOrder(<<r>>) /\ Range(<<r>>) = {r} /\ <<r>> \in Seq(1..n)
BY DEF InFileOrder, OrderedOver, Range

LEMMA JoinedOrder ==
  ASSUME NEW n \in Nat, NEW s \in Seq(1..n), NEW t \in Seq(1..n), InFileOrder(s), InFileOrder(t), Leads(s, t)
  PROVE  InFileOrder(s \o t)
<1> DEFINE u == s \o t
<1>1. PICK l \in Nat, m \in Nat : l = Len(s) /\ m = Len(t)
  OBVIOUS
<1>2. DOMAIN s = 1..l /\ DOMAIN t = 1..m /\ DOMAIN u = 1..(l + m)
  BY <1>1
<1>3. \A i \in 1..(l + m) : u[i] = IF i <= l THEN s[i] ELSE t[i - l]
  BY <1>1
<1>4. (\A i \in 1..l : s[i] \in Nat) /\ (\A i \in 1..m : t[i] \in Nat)
  BY <1>1
<1>5. Range(s) = {s[i] : i \in 1..l} /\ Range(t) = {t[i] : i \in 1..m}
  BY <1>2 DEF Range
<1> HIDE DEF u
<1>6. OrderedOver(s, 1..l) /\ OrderedOver(t, 1..m)
  BY <1>2, Zenon DEF InFileOrder
<1>7. OrderedOver(u, 1..(l + m)) => InFileOrder(u)
  BY <1>2, Zenon DEF InFileOrder
<1> SUFFICES ASSUME NEW i \in 1..(l + m), NEW j \in 1..(l + m), i < j, u[j] < u[i]
             PROVE  \E k \in 1..(l + m) : k < i /\ u[k] = u[j]
  BY <1>7 DEF u, OrderedOver
<1>8. CASE j <= l
  <2>1. i \in 1..l /\ j \in 1..l /\ s[j] < s[i]
    BY <1>3, <1>8
  <2>2. PICK k \in 1..l : k < i /\ s[k] = s[j]
    BY <1>6, <2>1 DEF OrderedOver
  <2> QED
    BY <1>3, <1>8, <2>2
<1>9. CASE l < i
  <2>1. i - l \in 1..m /\ j - l \in 1..m /\ i - l < j - l
    BY <1>9
  <2>2. t[j - l] < t[i - l]
    BY <1>3, <1>9
  <2>3. PICK k \in 1..m : k < i - l /\ t[k] = t[j - l]
    BY <1>6, <2>1, <2>2 DEF OrderedOver
  <2>4. k + l \in 1..(l + m) /\ k + l < i /\ (k + l) - l = k /\ ~(k + l <= l)
    BY <2>3
  <2>5. u[k + l] = t[k] /\ u[j] = t[j - l]
    BY <1>3, <1>9, <2>4
  <2> QED
    BY <2>3, <2>4, <2>5
<1>10. CASE i <= l /\ l < j
  <2>1. i \in 1..l /\ j - l \in 1..m /\ u[i] = s[i] /\ u[j] = t[j - l]
    BY <1>3, <1>10
  <2>2. t[j - l] \in Range(s)
    BY <1>5, <2>1 DEF Leads
  <2>3. PICK h \in 1..l : s[h] = t[j - l]
    BY <1>5, <2>2
  <2>4. h # i /\ s[h] < s[i]
    BY <1>4, <2>1, <2>3
  <2>5. CASE h < i
    BY <1>3, <2>1, <2>3, <2>5
  <2>6. CASE i < h
    <3>1. PICK k \in 1..l : k < i /\ s[k] = s[h]
      BY <1>6, <2>1, <2>4, <2>6 DEF OrderedOver
    <3> QED
      BY <1>3, <2>1, <2>3, <3>1
  <2> QED
    BY <2>4, <2>5, <2>6
<1> QED
  BY <1>8, <1>9, <1>10

LEMMA BeforeOrder ==
  ASSUME NEW p \in Paths, NEW q \in Paths
  PROVE  ~(Before(p, q) /\ Before(q, p)) /\ ~Before(p, p)
BY DEF Before, Paths

\* The newest block goes to the end of the file that is read last.
LEMMA WriteOrdered ==
  ASSUME NEW n \in Nat, FileTypes(io, n), FilesOrdered, NEW p \in Paths, NEW rec \in 1..n,
         Put(io, io', p, <<rec>>), \A q \in DOMAIN io.files : ~Before(p, q),
         \A q \in DOMAIN io.files : \A r \in Range(io.files[q].recs) : r < rec
  PROVE  FilesOrdered'
<1> DEFINE s == Content(io, p)
<1>1. s \in Seq(1..n) /\ InFileOrder(<<rec>>) /\ Range(<<rec>>) = {rec} /\ <<rec>> \in Seq(1..n)
  BY ContentType, OneInOrder
<1>2. io'.files[p].recs = s \o <<rec>>
  BY DEF Put
<1>3. Range(io'.files[p].recs) = Range(s) \cup {rec}
  <2> DEFINE t == <<rec>>
  <2>1. t \in Seq(1..n) /\ Range(t) = {rec} /\ io'.files[p].recs = s \o t
    BY <1>1, <1>2
  <2> HIDE DEF s, t
  <2>2. Range(s \o t) = Range(s) \cup Range(t)
    BY <1>1, <2>1, RangeConcat
  <2> QED
    BY <2>1, <2>2
<1>4. \A q \in DOMAIN io'.files : q # p => q \in DOMAIN io.files /\ io'.files[q] = io.files[q]
  BY DEF Put
<1>5. ASSUME NEW q \in DOMAIN io.files, NEW r \in Range(io.files[q].recs) PROVE r < rec /\ r \in Nat /\ ~(rec < r)
  <2>1. io.files[q] \in [recs : Seq(1..n), mtime : Times]
    BY DEF FileTypes
  <2>2. io.files[q].recs \in Seq(1..n)
    BY <2>1
  <2>3. r \in 1..n
    BY <2>2, RangeType
  <2> QED
    BY <2>3
<1>6. InFileOrder(s) /\ Leads(s, <<rec>>)
  <2>1. CASE p \in DOMAIN io.files
    <3>1. s = io.files[p].recs
      BY <2>1 DEF Content, Exists
    <3> QED
      BY <1>1, <1>5, <2>1, <3>1 DEF FilesOrdered, Leads
  <2>2. CASE p \notin DOMAIN io.files
    BY <2>2, EmptyOrder DEF Content, Exists
  <2> QED
    BY <2>1, <2>2
<1>7. InFileOrder(io'.files[p].recs)
  BY <1>1, <1>2, <1>6, JoinedOrder
<1>8. ASSUME NEW a \in DOMAIN io'.files, NEW b \in DOMAIN io'.files, Before(a, b)
      PROVE  Leads(io'.files[a].recs, io'.files[b].recs)
  <2>1. p \in Paths /\ ~Before(p, p)
    BY BeforeOrder
  <2>2. a # p
    BY <1>4, <1>8, <2>1
  <2>3. a \in DOMAIN io.files /\ io'.files[a] = io.files[a]
    BY <1>4, <2>2
  <2>4. CASE b # p
    BY <1>4, <1>8, <2>3, <2>4 DEF FilesOrdered
  <2>5. CASE b = p
    <3> SUFFICES ASSUME NEW x \in Range(io.files[a].recs), NEW y \in Range(io'.files[b].recs), y < x
                 PROVE  y \in Range(io.files[a].recs)
      BY <2>3 DEF Leads
    <3>1. y # rec
      BY <1>5, <2>3
    <3>2. y \in Range(s)
      BY <1>3, <2>5, <3>1
    <3>3. p \in DOMAIN io.files /\ s = io.files[p].recs
      BY <3>2, EmptySeqFacts DEF Content, Exists
    <3>4. Leads(io.files[a].recs, io.files[p].recs)
      BY <1>8, <2>3, <2>5, <3>3 DEF FilesOrdered
    <3> QED
      BY <3>2, <3>3, <3>4 DEF Leads
  <2> QED
    BY <2>4, <2>5
<1>9. \A q \in DOMAIN io'.files : InFileOrder(io'.files[q].recs)
  BY <1>4, <1>7 DEF FilesOrdered
<1> QED
  BY <1>8, <1>9 DEF FilesOrdered

\* The blocks of cache file c are appended to log file m, which is read right
\* before c or right after it.
LEMMA CopyOrdered ==
  ASSUME NEW n \in Nat, FileTypes(io, n), FilesOrdered, NEW c \in DOMAIN io.files, NEW m \in Paths, m # c,
         Put(io, io', m, io.files[c].recs),
         Exists(io, m) => Before(m, c) /\ Range(io.files[m].recs) \subseteq Range(io.files[c].recs),
         \A q \in DOMAIN io.files : q # m /\ q # c =>
           (Before(q, m) => Before(q, c)) /\ (Before(m, q) => Before(c, q))
  PROVE  FilesOrdered'
<1> DEFINE s == Content(io, m)
           t == io.files[c].recs
<1>1. s \in Seq(1..n) /\ t \in Seq(1..n) /\ io'.files[m].recs = s \o t
  <2>1. io.files[c] \in [recs : Seq(1..n), mtime : Times]
    BY DEF FileTypes
  <2>2. t \in Seq(1..n)
    BY <2>1
  <2> QED
    BY <2>2, ContentType DEF Put
<1>2. InFileOrder(s) /\ Leads(s, t) /\ Range(s) \subseteq Range(t)
  <2>1. CASE m \in DOMAIN io.files
    BY <2>1 DEF FilesOrdered, Content, Exists
  <2>2. CASE m \notin DOMAIN io.files
    BY <2>2, EmptyOrder, EmptySeqFacts DEF Content, Exists
  <2> QED
    BY <2>1, <2>2
<1>3. InFileOrder(t)
  BY DEF FilesOrdered
<1> HIDE DEF s
<1>4. InFileOrder(io'.files[m].recs) /\ Range(io'.files[m].recs) = Range(t)
  <2> HIDE DEF t
  <2>1. InFileOrder(s \o t)
    BY <1>1, <1>2, <1>3, JoinedOrder
  <2>2. Range(s \o t) = Range(s) \cup Range(t)
    BY <1>1, RangeConcat
  <2> QED
    BY <1>1, <1>2, <2>1, <2>2
<1>5. /\ \A q \in DOMAIN io'.files : q # m => q \in DOMAIN io.files /\ io'.files[q] = io.files[q]
      /\ c \in DOMAIN io'.files /\ io'.files[c] = io.files[c]
  BY DEF Put
<1>6. ASSUME NEW a \in DOMAIN io'.files, NEW b \in DOMAIN io'.files, Before(a, b)
      PROVE  Leads(io'.files[a].recs, io'.files[b].recs)
  <2>1. ~Before(m, m)
    BY BeforeOrder
  <2>2. CASE a # m /\ b # m
    BY <1>5, <1>6, <2>2 DEF FilesOrdered
  <2>3. CASE a # m /\ b = m
    <3>1. CASE a = c
      BY <1>4, <1>5, <2>3, <3>1 DEF Leads
    <3>2. CASE a # c
      <4>1. Leads(io.files[a].recs, t) /\ io'.files[a] = io.files[a]
        BY <1>5, <1>6, <2>3, <3>2 DEF FilesOrdered
      <4> QED
        BY <1>4, <2>3, <4>1 DEF Leads
    <3> QED
      BY <3>1, <3>2
  <2>4. CASE a = m /\ b # m
    <3>1. CASE b = c
      BY <1>4, <1>5, <2>4, <3>1 DEF Leads
    <3>2. CASE b # c
      <4>1. Leads(t, io.files[b].recs) /\ io'.files[b] = io.files[b]
        BY <1>5, <1>6, <2>4, <3>2 DEF FilesOrdered
      <4> QED
        BY <1>4, <2>4, <4>1 DEF Leads
    <3> QED
      BY <3>1, <3>2
  <2> QED
    BY <1>6, <2>1, <2>2, <2>3, <2>4
<1>7. \A q \in DOMAIN io'.files : InFileOrder(io'.files[q].recs)
  BY <1>4, <1>5 DEF FilesOrdered
<1> QED
  BY <1>6, <1>7 DEF FilesOrdered

\* Files that go leave the others in order.
LEMMA ShrunkOrdered ==
  ASSUME FilesOrdered, Shrunk(io, io')
  PROVE  FilesOrdered'
BY DEF FilesOrdered, Shrunk

LEMMA WritingOrdered ==
  ASSUME Faults \subseteq {"append"}, TimesInv, back = 0, BeginsNoTwin, FilesOrdered, CarriedNew, Writing
  PROVE  FilesOrdered'
<1>1. PICK P : P = OpenPath(WriteDir)
  OBVIOUS
<1>2. AsyncInv /\ FileTypes(io, Len(written)) /\ Len(written) \in Nat /\ DayOf(now) \in Nat
  BY TimesFacts DEF TimesInv
<1>3. /\ job.at \in {"cache", "log"} /\ job.rec \in 1..Len(written)
      /\ P \in Paths /\ P = Path(job.at, DayOf(now), NextFileIndex(io, DayOf(now)))
      /\ Put(io, io', P, <<job.rec>>)
      /\ P.dir = "log" => ~Exists(io, Twin(P))
  BY <1>1, WritesBesideNone
<1>4. P.day = DayOf(now) /\ P.idx = NextFileIndex(io, DayOf(now)) /\ P.idx \in Nat
  BY <1>3 DEF Path, Paths
<1>5. ASSUME NEW q \in DOMAIN io.files PROVE ~Before(P, q)
  <2>1. q \in Paths /\ q.day \in Nat /\ q.idx \in Nat /\ q.day <= DayOf(now)
    BY <1>2, TimesFacts, DaysUpToNow
  <2>2. q.day = P.day => q.idx <= P.idx
    BY <1>2, <1>4, NextIsTop, DatedIndex
  <2>3. P.dir = "log" /\ q.day = P.day /\ q.idx = P.idx => q.dir # "cache"
    <3> SUFFICES ASSUME P.dir = "log", q.day = P.day, q.idx = P.idx, q.dir = "cache" PROVE FALSE
      OBVIOUS
    <3>1. q = Twin(P)
      BY <2>1, PathIs DEF Twin
    <3> QED
      BY <1>3, <3>1 DEF Exists
  <2> QED
    BY <1>2, <1>4, <2>1, <2>2, <2>3 DEF Before
<1>6. \A q \in DOMAIN io.files : \A r \in Range(io.files[q].recs) : r < job.rec
  BY <1>3 DEF CarriedNew
<1> QED
  BY <1>2, <1>3, <1>5, <1>6, WriteOrdered

\* The log file that cache file c is moved to is read right before c, or is a
\* new one of the next index, after which there is none of that day.
LEMMA MoveOrdered ==
  ASSUME AsyncInv, TwinsOK, FilesOrdered, NEW c \in CachePaths, NEW i \in Nat, Puts(c, Path("log", c.day, i)),
         \/ i = c.idx
         \/ i = c.idx + 1 /\ \A q \in DOMAIN io.files : q.day = c.day => q.idx <= c.idx
  PROVE  FilesOrdered'
<1> DEFINE m == Path("log", c.day, i)
<1>1. FileTypes(io, Len(written)) /\ Len(written) \in Nat
  BY TimesFacts
<1>2. /\ c \in Paths /\ c.dir = "cache" /\ c.day \in Nat /\ c.idx \in Nat /\ c \in DOMAIN io.files
  BY DEF CachePaths, Paths, Puts
<1>3. m \in Paths /\ m.dir = "log" /\ m.day = c.day /\ m.idx = i /\ m # c
  BY DEF CachePaths, Paths, Path
<1>4. Put(io, io', m, io.files[c].recs)
  BY DEF Puts, Content, Exists
<1> HIDE DEF m
<1>5. ASSUME Exists(io, m)
      PROVE  Before(m, c) /\ Range(io.files[m].recs) \subseteq Range(io.files[c].recs)
  <2>1. m \in DOMAIN io.files
    BY <1>5 DEF Exists
  <2>2. i = c.idx
    <3> SUFFICES ASSUME i = c.idx + 1, i <= c.idx PROVE FALSE
      BY <1>3, <2>1
    <3> QED
      BY <1>2
  <2>3. Path("cache", m.day, m.idx) = c
    BY <1>2, <1>3, <2>2, PathIs
  <2> QED
    BY <1>2, <1>3, <2>1, <2>2, <2>3 DEF Before, TwinsOK, Exists
<1>6. ASSUME NEW q \in DOMAIN io.files, q # m, q # c
      PROVE  (Before(q, m) => Before(q, c)) /\ (Before(m, q) => Before(c, q))
  <2>1. q \in Paths /\ q.day \in Nat /\ q.idx \in Nat
    BY TimesFacts
  <2>2. q.dir \in {"cache", "log"} /\ q = Path(q.dir, q.day, q.idx) /\ c = Path("cache", c.day, c.idx)
        /\ m = Path("log", c.day, i)
    BY <1>2, <2>1, PathIs DEF m
  <2>3. /\ q.dir = "cache" /\ q.day = c.day => q.idx # c.idx
        /\ q.dir = "log" /\ q.day = c.day => q.idx # i
    BY <1>6, <2>2
  <2>4. CASE i = c.idx
    BY <1>2, <1>3, <2>1, <2>2, <2>3, <2>4 DEF Before
  <2>5. CASE i = c.idx + 1 /\ (q.day = c.day => q.idx <= c.idx)
    BY <1>2, <1>3, <2>1, <2>2, <2>3, <2>5 DEF Before
  <2> QED
    BY <2>4, <2>5
<1> QED
  BY <1>1, <1>2, <1>3, <1>4, <1>5, <1>6, CopyOrdered

LEMMA AppendCacheOrdered ==
  ASSUME AsyncInv, TopOK, TwinsOK, FilesOrdered, AppendCache
  PROVE  FilesOrdered'
<1>1. io' = io \/ Puts(job.cache, MoveTarget)
  BY AsyncAppendCache
<1>2. CASE io' = io
  BY <1>2 DEF FilesOrdered
<1>3. CASE Puts(job.cache, MoveTarget)
  <2>1. /\ job.cache \in CachePaths
        /\ \A q \in DOMAIN io.files : q.day = job.cache.day => q.idx <= job.cache.idx
    BY <1>3, MoveTargetIs
  <2>2. PICK i \in Nat : /\ i = job.cache.idx \/ i = job.cache.idx + 1
                         /\ MoveTarget = Path("log", job.cache.day, i)
    BY <1>3, MoveTargetIs
  <2> QED
    BY <1>3, <2>1, <2>2, MoveOrdered
<1> QED
  BY <1>1, <1>2, <1>3

LEMMA MoverAppendOrdered ==
  ASSUME AsyncInv, TwinsOK, FilesOrdered, NEW p, MoverAppend(p)
  PROVE  FilesOrdered'
<1>1. io' = io \/ Puts(p, LogPath(p))
  BY AsyncMoverAppend
<1>2. mover.at = "scan" /\ p \in mover.todo
  BY DEF MoverAppend
<1>3. p \in CachePaths /\ p.idx \in Nat
  BY <1>2, MoverAt DEF AsyncInv, CachePaths
<1>4. CASE io' = io
  BY <1>4 DEF FilesOrdered
<1>5. CASE Puts(p, LogPath(p))
  BY <1>3, <1>5, MoveOrdered DEF LogPath
<1> QED
  BY <1>1, <1>4, <1>5

\* Steps after which no __Log2File is about to write, or that let files shrink.
LEMMA CarriedRests ==
  ASSUME CarriedNew,
         job'.at \notin {"cache", "log"} \/ (job' = job /\ written' = written /\ Shrunk(io, io'))
  PROVE  CarriedNew'
BY DEF CarriedNew, Shrunk

LEMMA Log2FileCarries ==
  ASSUME AsyncInv, Log2File
  PROVE  CarriedNew'
<1>1. io' = io /\ written' = Append(written, now)
  BY Log2FileSets
<1>2. job'.rec = Len(written) + 1
  BY DEF Log2File
<1>3. Len(written) \in Nat /\ Len(written') = Len(written) + 1
  BY <1>1, TimesFacts
<1>4. \A p \in DOMAIN io.files : \A r \in Range(io.files[p].recs) : r \in 1..Len(written)
  BY TimesFacts
<1>5. PICK n \in Nat : n = Len(written)
  BY <1>3
<1>6. \A r \in 1..n : r < n + 1
  OBVIOUS
<1> QED
  BY <1>1, <1>2, <1>3, <1>4, <1>5, <1>6 DEF CarriedNew

\* The inductive invariant.
OrderInv == ShowsInv /\ (back = 0 => FilesOrdered /\ CarriedNew)

LEMMA OrderStep ==
  ASSUME Modes = {"async"}, Faults \subseteq {"append"}, OrderInv, [Next]_vars
  PROVE  OrderInv'
<1>1. ShowsInv /\ ShowsInv' /\ PruneInv /\ TopInv /\ TimesInv /\ AsyncInv /\ TypesInv
  BY ShowsStep DEF OrderInv, ShowsInv, PruneInv, TimesInv, AsyncInv
<1>2. back' = 0 => back = 0
  <2>1. back' = back \/ back' = back + 1
    BY AsyncCases, <1>1 DEF Next, vars, counts, Log2File, WriteCache, WriteLog, WriteFallback, AppendCache, RemoveCache,
       MoverStart, MoverEnd, MoverKeep, MoverAppend, MoverRemove, PrunerStart, PrunerEnd, PrunerCheck,
       PrunerRemove, PrunerRests, SetMode, Open, Close, Crash, Tick, ClockBack, CountFaults
  <2>2. back \in Nat
    BY <1>1, LogFilesAssumption DEF TypesInv
  <2> QED
    BY <2>1, <2>2
<1> SUFFICES ASSUME back' = 0 PROVE FilesOrdered' /\ CarriedNew'
  BY <1>1 DEF OrderInv
<1>3. back = 0 /\ FilesOrdered /\ CarriedNew /\ TwinsOK /\ BeginsNoTwin /\ TopOK /\ back \in Nat
  BY <1>2 DEF OrderInv, ShowsInv, TopInv
<1>4. CASE Log2File
  <2>1. io' = io
    BY <1>4, Log2FileSets
  <2> QED
    BY <1>1, <1>3, <1>4, <2>1, Log2FileCarries DEF FilesOrdered
<1>5. CASE Writing
  <2>1. job.at # "idle" /\ TypesInv
    BY <1>1, <1>5, WritingIs
  <2>2. /\ job \in [at : {"cache", "append", "remove", "log", "fallback"}, rec : 1..Len(written),
                    move : BOOLEAN, day : 0..DayOf(MaxTime), cache : CachePaths, cacheLogs : BOOLEAN]
        /\ job # Idle
    BY <2>1, JobAt
  <2>3. job.at # "fallback"
    BY <1>1, <1>3, <2>2 DEF TimesInv, Dates, JobDated
  <2>4. job' = Idle \/ job' = [job EXCEPT !.at = "append"]
    BY <1>1, <1>5, <2>3, SureWriting
  <2>5. job'.at \notin {"cache", "log"}
    BY <2>2, <2>4 DEF Idle
  <2> QED
    BY <1>1, <1>3, <1>5, <2>5, WritingOrdered, CarriedRests
<1>6. CASE AppendCache
  <2>1. job.at = "append" /\ (job' = Idle \/ job' = [job EXCEPT !.at = "remove"])
    BY <1>1, <1>6, AsyncAppendCache
  <2>2. job \in [at : {"cache", "append", "remove", "log", "fallback"}, rec : 1..Len(written),
                 move : BOOLEAN, day : 0..DayOf(MaxTime), cache : CachePaths, cacheLogs : BOOLEAN]
    BY <1>1, <2>1, JobAt
  <2>3. job'.at \notin {"cache", "log"}
    BY <2>1, <2>2 DEF Idle
  <2> QED
    BY <1>1, <1>3, <1>6, <2>3, AppendCacheOrdered, CarriedRests
<1>7. CASE \E p : MoverAppend(p)
  <2>1. FilesOrdered'
    BY <1>1, <1>3, <1>7, MoverAppendOrdered
  <2>2. job' = job /\ mover.at = "scan"
    BY <1>7 DEF MoverAppend, MoverRests
  <2>3. job'.at \notin {"cache", "log"}
    BY <1>1, <2>2, MoverAt DEF Idle
  <2> QED
    BY <1>3, <2>1, <2>3, CarriedRests
<1>8. CASE RemoveCache \/ MoverRemove \/ PrunerRemove
  <2>1. PICK p : io' = RemoveFile(io, p)
    BY <1>8 DEF RemoveCache, MoverRemove, PrunerRemove
  <2>2. Shrunk(io, io')
    BY <1>1, <2>1, AsyncRemove DEF Takes, Removed, Shrunk
  <2>3. written' = written /\ (job' = job \/ job' = Idle)
    BY <1>8 DEF RemoveCache, MoverRemove, PrunerRemove, JobRests, MoverRests, PrunerRests
  <2>4. job' = job \/ job'.at \notin {"cache", "log"}
    BY <2>3 DEF Idle
  <2> QED
    BY <1>3, <2>2, <2>3, <2>4, ShrunkOrdered, CarriedRests
<1>9. CASE TurnsOver
  <2>1. io'.files = io.files
    BY <1>1, <1>9, AsyncTurnsOver
  <2>2. written' = written /\ (job' = job \/ job' = Idle)
    BY <1>9 DEF TurnsOver, Open, Close, Crash, ghosts
  <2>3. job' = job \/ job'.at \notin {"cache", "log"}
    BY <2>2 DEF Idle
  <2>4. Shrunk(io, io')
    BY <2>1 DEF Shrunk
  <2> QED
    BY <1>3, <2>2, <2>3, <2>4, ShrunkOrdered, CarriedRests
<1>10. CASE Looks \/ Tick \/ UNCHANGED vars
  <2>1. io' = io /\ written' = written /\ job' = job
    BY <1>1, <1>10, LooksAt DEF Tick, vars, ghosts
  <2>2. Shrunk(io, io')
    BY <2>1 DEF Shrunk
  <2> QED
    BY <1>3, <2>1, <2>2, ShrunkOrdered, CarriedRests
<1>11. CASE ClockBack
  <2>1. back' = back + 1
    BY <1>11 DEF ClockBack
  <2> QED
    BY <1>3, <2>1
<1> QED
  BY <1>1, <1>4, <1>5, <1>6, <1>7, <1>8, <1>9, <1>10, <1>11, AsyncCases DEF Quiet, Looks

LEMMA OrderInit ==
  ASSUME Modes = {"async"}, Init
  PROVE  OrderInv
<1>1. ShowsInv
  BY ShowsInit
<1>2. FilesOrdered /\ CarriedNew
  BY DEF Init, FilesOrdered, CarriedNew, Idle
<1> QED
  BY <1>1, <1>2 DEF OrderInv

\* A smaller number that is read later has been read before.
LEMMA OrderIsSeen ==
  ASSUME OrderInv, back = 0,
         NEW p \in DOMAIN io.files, NEW i \in DOMAIN io.files[p].recs,
         NEW q \in DOMAIN io.files, NEW j \in DOMAIN io.files[q].recs,
         Before(p, q) \/ (p = q /\ i < j), io.files[p].recs[i] > io.files[q].recs[j]
  PROVE  \E k \in DOMAIN io.files[p].recs : k < i /\ io.files[p].recs[k] = io.files[q].recs[j]
<1> DEFINE s == io.files[p].recs
           b == io.files[q].recs[j]
<1>1. FileTypes(io, Len(written)) /\ FilesOrdered
  BY DEF OrderInv, ShowsInv, TopInv, AsyncInv, TypesInv
<1>2. s \in Seq(1..Len(written)) /\ io.files[q].recs \in Seq(1..Len(written))
  <2>1. \A f \in DOMAIN io.files : io.files[f] \in [recs : Seq(1..Len(written)), mtime : Times]
    BY <1>1 DEF FileTypes
  <2> QED
    BY <2>1
<1>3. s[i] \in Nat /\ b \in Nat /\ i \in Nat /\ j \in Nat /\ DOMAIN s \subseteq Nat
  <2>1. ASSUME NEW n \in Nat, NEW t \in Seq(1..n), NEW h \in DOMAIN t PROVE h \in Nat /\ t[h] \in Nat
    <3>1. DOMAIN t = 1..Len(t) /\ Len(t) \in Nat /\ t[h] \in 1..n
      OBVIOUS
    <3> QED
      BY <3>1
  <2>2. Len(written) \in Nat
    BY TimesFacts DEF OrderInv, ShowsInv, TopInv
  <2> QED
    BY <1>2, <2>1, <2>2
<1>4. b < s[i]
  BY <1>3
<1>5. OrderedOver(s, DOMAIN s)
  BY <1>1 DEF FilesOrdered, InFileOrder
<1>6. CASE p = q /\ i < j
  BY <1>4, <1>5, <1>6 DEF OrderedOver
<1>7. CASE Before(p, q)
  <2>1. Leads(s, io.files[q].recs)
    BY <1>1, <1>7 DEF FilesOrdered
  <2>2. s[i] \in Range(s) /\ b \in Range(io.files[q].recs)
    BY DEF Range
  <2>3. b \in Range(s)
    BY <1>4, <2>1, <2>2 DEF Leads
  <2>4. PICK h \in DOMAIN s : s[h] = b
    BY <2>3 DEF Range
  <2> HIDE DEF s, b
  <2>5. h # i
    BY <1>3, <1>4, <2>4
  <2>6. CASE h < i
    BY <2>4, <2>6 DEF s, b
  <2>7. CASE i < h
    <3>1. PICK k \in DOMAIN s : k < i /\ s[k] = s[h]
      BY <1>4, <1>5, <2>4, <2>7 DEF OrderedOver, s
    <3> QED
      BY <2>4, <3>1 DEF s, b
  <2> QED
    BY <1>3, <2>4, <2>5, <2>6, <2>7
<1> QED
  BY <1>6, <1>7

LEMMA OrderIsRead ==
  ASSUME OrderInv
  PROVE  InOrder
<1> SUFFICES ASSUME back = 0, NEW x \in Places, NEW y \in Places, ReadBefore(x, y), BlockAt(x) > BlockAt(y)
             PROVE  \E z \in Places : ReadBefore(z, x) /\ BlockAt(z) = BlockAt(y)
  BY Zenon DEF InOrder
<1>1. /\ x[1] \in DOMAIN io.files /\ x[2] \in DOMAIN io.files[x[1]].recs
      /\ y[1] \in DOMAIN io.files /\ y[2] \in DOMAIN io.files[y[1]].recs
  BY DEF Places
<1>2. PICK p, i : p = x[1] /\ i = x[2]
  OBVIOUS
<1>3. PICK q, j : q = y[1] /\ j = y[2]
  OBVIOUS
<1>4. /\ Before(p, q) \/ (p = q /\ i < j)
      /\ io.files[p].recs[i] > io.files[q].recs[j]
      /\ BlockAt(y) = io.files[q].recs[j]
  BY <1>2, <1>3 DEF ReadBefore, BlockAt
<1>5. PICK k \in DOMAIN io.files[p].recs : k < i /\ io.files[p].recs[k] = io.files[q].recs[j]
  BY <1>1, <1>2, <1>3, <1>4, OrderIsSeen
<1>6. <<p, k>> \in Places /\ <<p, k>>[1] = p /\ <<p, k>>[2] = k
  BY <1>1, <1>2 DEF Places
<1>7. ReadBefore(<<p, k>>, x) /\ BlockAt(<<p, k>>) = BlockAt(y)
  BY <1>2, <1>4, <1>5, <1>6 DEF ReadBefore, BlockAt
<1> QED
  BY <1>6, <1>7

\* Read by day, index and directory, the blocks come in the order of their
\* writing, copies left by a crash aside: no midnight, size split, __AppendFile or
\* __DelTimeoutFile brings them out of it, by a clock that was not set back.
THEOREM LogFilesInOrder ==
  ASSUME Modes = {"async"}, Faults \subseteq {"append"}
  PROVE  Spec => []InOrder
<1>1. Init => OrderInv
  BY OrderInit
<1>2. OrderInv /\ [Next]_vars => OrderInv'
  BY OrderStep
<1>3. OrderInv => InOrder
  BY OrderIsRead
<1> QED
  BY <1>1, <1>2, <1>3, PTL DEF Spec
=============================================================================
