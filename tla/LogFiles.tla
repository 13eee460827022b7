------------------------------ MODULE LogFiles ------------------------------
(***************************************************************************)
(* Where XloggerAppender puts the blocks it writes: one file per day, and  *)
(* per size if files are split, in the cache directory or in the log       *)
(* directory.  __Log2File writes, falls back from one directory to the     *)
(* other and may move the cache file of the day; two kinds of delayed      *)
(* threads move old cache files and prune both directories.  The clock of  *)
(* the device may be set back, file operations may fail and the process    *)
(* may die between two steps.                                              *)
(*                                                                         *)
(* mutex_log_file_ is held by __Log2File and by __MoveOldFiles,            *)
(* sg_mutex_dir_attr by __MoveOldFiles, __DelTimeoutFile and Open: who     *)
(* holds which can be read off job, mover and pruner.                      *)
(***************************************************************************)
EXTENDS Naturals, SequencesExt

CONSTANTS
  None,          \* the null FILE*
  DayLen,        \* clock units in a day
  CacheDays,     \* the values of config_.cache_days_ the application uses
  MaxAlive,      \* max_alive_time_, in clock units
  MaxFileSize,   \* max_file_size_, in records; 0 does not split
  Modes,         \* the TAppenderMode values the application uses
  Roomy,         \* what the 1 GB test of __CacheLogs may say
  Faults,        \* which of "open", "write", "append" may fail
  MaxTime, MaxBack, MaxWrites, MaxFaults, MaxStarts   \* bounds

ASSUME LogFilesAssumption ==
  /\ DayLen \in Nat \ {0}
  /\ CacheDays \subseteq Nat /\ CacheDays # {}
  /\ MaxAlive \in Nat /\ MaxAlive >= DayLen
  /\ MaxFileSize \in Nat
  /\ Modes \subseteq {"sync", "async"} /\ Modes # {}
  /\ Roomy \subseteq BOOLEAN /\ Roomy # {}
  /\ Faults \subseteq {"open", "write", "append"}
  /\ {MaxTime, MaxBack, MaxWrites, MaxFaults, MaxStarts} \subseteq Nat
  /\ LET paths == [dir : {"cache", "log"}, day : Nat, idx : Nat]
     IN None \notin paths \cup [path : paths, linked : BOOLEAN, opened : Nat, buf : Seq(Nat)]

VARIABLES
  now,           \* the clock of the device
  up,            \* there is an open appender
  mode,          \* config_.mode_
  cache_days_,
  io,            \* the files, logfile_, what the last open left behind, and the
                 \* blocks stdio gave to a file after its contents were moved
  job,           \* the __Log2File in progress
  armed,         \* the delayed threads still in their delay
  mover,         \* the __MoveOldFiles in progress
  pruner,        \* the __DelTimeoutFile in progress
  written,       \* for each block so far, when __Log2File was called for it
  pruned, failed, crashed,   \* blocks that went each of these ways
  torn,          \* a crash came between the two halves of a move
  back, faults, starts     \* counters of the bounded events

config == <<up, mode, cache_days_>>
counts == <<back, faults, starts>>
ghosts == <<written, pruned, failed, crashed, torn>>
vars   == <<now, config, io, job, armed, mover, pruner, ghosts, counts>>

Idle == [at |-> "idle"]

Path(dir, day, idx) == [dir |-> dir, day |-> day, idx |-> idx]
DayOf(t) == t \div DayLen

-----------------------------------------------------------------------------
(* Files and the open handle.                                              *)

Exists(x, p) == p \in DOMAIN x.files
Content(x, p) == IF Exists(x, p) THEN x.files[p].recs ELSE <<>>

\* Puts blocks at the end of file p, creating it if need be.
AppendTo(x, p, recs) ==
  [x EXCEPT !.files =
     [q \in DOMAIN x.files \cup {p} |->
        IF q = p THEN [recs |-> Content(x, p) \o recs, mtime |-> now] ELSE x.files[q]]]

\* fopen(p, "ab")
Touch(x, p) == IF Exists(x, p) THEN x ELSE AppendTo(x, p, <<>>)

\* Unlinks p. A handle on it goes on writing to a file without a name.
RemoveFile(x, p) ==
  [x EXCEPT !.files = Restrict(@, DOMAIN @ \ {p}),
            !.handle = IF @ # None /\ @.path = p THEN [@ EXCEPT !.linked = FALSE] ELSE @]

\* stdio hands its buffer to the system.
Drain(x) ==
  IF x.handle = None \/ x.handle.buf = <<>> THEN x
  ELSE [(IF x.handle.linked THEN AppendTo(x, x.handle.path, x.handle.buf)
         ELSE [x EXCEPT !.late = @ \cup Range(x.handle.buf)]) EXCEPT !.handle.buf = <<>>]

CloseLogFile(x) == [Drain(x) EXCEPT !.handle = None]

\* Variant: the names are sorted the other way round.
NextFileIndexOfFirst(x, day) ==
  LET idxs == {p.idx : p \in {q \in DOMAIN x.files : q.day = day}}
      i    == Min(idxs)
      size == Len(Content(x, Path("log", day, i))) + Len(Content(x, Path("cache", day, i)))
  IN IF MaxFileSize = 0 \/ idxs = {} THEN 0
     ELSE IF size > MaxFileSize THEN i + 1 ELSE i

\* The highest index in either directory, or the next one when the two files
\* of that index together are too long.
NextFileIndex(x, day) ==
  LET idxs == {p.idx : p \in {q \in DOMAIN x.files : q.day = day}}
      i    == Max(idxs)
      size == Len(Content(x, Path("log", day, i))) + Len(Content(x, Path("cache", day, i)))
  IN IF MaxFileSize = 0 \/ idxs = {} THEN 0
     ELSE IF size > MaxFileSize THEN i + 1 ELSE i

LogFileName(x, day, dir) == Path(dir, day, NextFileIndex(x, day))

\* Variant: no special case for a clock that was set back.
OpenLogFileByClock(dir, ok) ==
  LET closed == CloseLogFile(io)
      path   == LogFileName(closed, DayOf(now), dir)
  IN IF ~ok THEN [closed EXCEPT !.last = [time |-> now, path |-> path]]
     ELSE [Touch(closed, path) EXCEPT
             !.handle = [path |-> path, linked |-> TRUE, opened |-> now, buf |-> <<>>],
             !.last = [time |-> now, path |-> path]]

\* __OpenLogFile: a file opened today stays open, in whichever directory it
\* is; if the clock is before the last open, that file is opened again.
OpenLogFile(dir, ok) ==
  LET closed == CloseLogFile(io)
      behind == now < io.last.time
      path   == IF behind THEN io.last.path ELSE LogFileName(closed, DayOf(now), dir)
      opened == IF ok THEN [Touch(closed, path) EXCEPT
                       !.handle = [path |-> path, linked |-> TRUE, opened |-> now,
                                   buf |-> <<>>]]
                ELSE closed
  IN IF io.handle # None /\ DayOf(io.handle.opened) = DayOf(now) THEN io
     ELSE IF behind THEN opened
     ELSE [opened EXCEPT !.last = [time |-> now, path |-> path]]

\* __WriteFile, and in async mode __CloseLogFile. In sync mode stdio may have
\* handed on its buffer before it takes the block. A failed write leaves an
\* error block, which is no block of the application's.
WriteFile(x, rec, ok, spills) ==
  LET y == IF spills THEN Drain(x) ELSE x
      z == IF ok THEN [y EXCEPT !.handle.buf = Append(@, rec)] ELSE y
  IN IF mode = "async" THEN CloseLogFile(z) ELSE z

\* What stdio holds.
Unwritten == IF io.handle = None THEN {} ELSE Range(io.handle.buf)

-----------------------------------------------------------------------------
(* Failures of file operations, at most MaxFaults of them.                 *)

MayFail(kind) == IF kind \in Faults /\ faults < MaxFaults THEN BOOLEAN ELSE {TRUE}
Failed(oks) == Cardinality({i \in DOMAIN oks : ~oks[i]})
CountFaults(oks) ==
  /\ faults + Failed(oks) <= MaxFaults
  /\ faults' = faults + Failed(oks)
  /\ UNCHANGED <<back, starts>>

-----------------------------------------------------------------------------
(* __Log2File.                                                             *)

\* Variant: __CacheLogs does not look for a log file of the day.
CacheLogsAlways(roomy) == cache_days_ > 0 /\ roomy

\* __CacheLogs
CacheLogs(roomy) ==
  /\ cache_days_ > 0
  /\ ~Exists(io, LogFileName(io, DayOf(now), "log"))
  /\ roomy

\* Variant: a cache file of the day does not matter.
Log2FileIgnoresCache ==
  /\ up /\ job = Idle /\ mover = Idle
  /\ Len(written) < MaxWrites
  /\ written' = Append(written, now)
  /\ \E roomy \in Roomy, move \in {FALSE, mode = "async"} :
       job' = [at |-> IF CacheLogs(roomy) THEN "cache" ELSE "log",
               rec |-> Len(written) + 1, move |-> move, day |-> DayOf(now),
               cache |-> LogFileName(io, DayOf(now), "cache"), cacheLogs |-> CacheLogs(roomy)]
  /\ UNCHANGED <<now, config, io, armed, mover, pruner, pruned, failed, crashed, torn, counts>>

\* The choice of the directory. Only the writer thread, which runs in async
\* mode, asks for a move.
Log2File ==
  /\ up /\ job = Idle /\ mover = Idle
  /\ Len(written) < MaxWrites
  /\ written' = Append(written, now)
  /\ \E roomy \in Roomy, move \in {FALSE, mode = "async"} :
       LET cache == LogFileName(io, DayOf(now), "cache") IN
       job' = [at |-> IF CacheLogs(roomy) \/ Exists(io, cache) THEN "cache" ELSE "log",
               rec |-> Len(written) + 1, move |-> move, day |-> DayOf(now),
               cache |-> cache, cacheLogs |-> CacheLogs(roomy)]
  /\ UNCHANGED <<now, config, io, armed, mover, pruner, pruned, failed, crashed, torn, counts>>

JobRests == UNCHANGED <<now, config, armed, mover, pruner, written, pruned, crashed, torn>>

\* Nobody looks whether the write into the cache file succeeded.
WriteCache ==
  /\ job.at = "cache"
  /\ \E openOk \in MayFail("open"), writeOk \in MayFail("write"), spills \in {FALSE, mode = "sync"} :
       LET x == OpenLogFile("cache", openOk) IN
       IF x.handle = None
       THEN /\ io' = x
            /\ job' = [job EXCEPT !.at = "log"]
            /\ CountFaults(<<openOk>>)
            /\ UNCHANGED failed
       ELSE /\ io' = WriteFile(x, job.rec, writeOk, spills)
            /\ job' = IF job.cacheLogs \/ ~job.move THEN Idle ELSE [job EXCEPT !.at = "append"]
            /\ failed' = IF writeOk THEN failed ELSE failed \cup {job.rec}
            /\ CountFaults(<<writeOk>>)
  /\ JobRests

\* The move of the day's cache file, first half: __AppendFile, which fails
\* if there is no source and does nothing if it is empty. In sync mode what
\* stdio still holds reaches the cache file only when that was copied.
AppendCache ==
  /\ job.at = "append"
  /\ \E ok \in MayFail("append") :
       LET log == LogFileName(io, job.day, "log")
           x   == IF Content(io, job.cache) = <<>> THEN io
                  ELSE AppendTo(io, log, Content(io, job.cache))
           moved == ok /\ Exists(io, job.cache)
           after == IF io.handle # None /\ io.handle.path = job.cache THEN Unwritten ELSE {}
       IN /\ io' = IF ~moved THEN io
                   ELSE IF mode = "sync" THEN CloseLogFile([x EXCEPT !.late = @ \cup after]) ELSE x
          /\ job' = IF moved THEN [job EXCEPT !.at = "remove"] ELSE Idle
          /\ CountFaults(<<ok>>)
  /\ UNCHANGED failed
  /\ JobRests

\* Second half.
RemoveCache ==
  /\ job.at = "remove"
  /\ io' = RemoveFile(io, job.cache)
  /\ job' = Idle
  /\ UNCHANGED <<failed, counts>>
  /\ JobRests

\* The log directory, when there is nothing to cache.
WriteLog ==
  /\ job.at = "log"
  /\ \E openOk \in MayFail("open"), writeOk \in MayFail("write"), spills \in {FALSE, mode = "sync"} :
       LET x == OpenLogFile("log", openOk) IN
       /\ io' = IF x.handle = None THEN x
                ELSE IF writeOk THEN WriteFile(x, job.rec, TRUE, spills) ELSE CloseLogFile(x)
       /\ job' = IF x.handle # None /\ writeOk THEN Idle ELSE [job EXCEPT !.at = "fallback"]
       /\ CountFaults(IF x.handle = None THEN <<openOk>> ELSE <<writeOk>>)
  /\ UNCHANGED failed
  /\ JobRests

\* The cache directory again, if that failed. There is no third try.
WriteFallback ==
  /\ job.at = "fallback"
  /\ \E openOk \in MayFail("open"), writeOk \in MayFail("write"), spills \in {FALSE, mode = "sync"} :
       LET x  == OpenLogFile("cache", openOk)
           ok == x.handle # None /\ writeOk
       IN /\ io' = IF x.handle = None THEN x ELSE WriteFile(x, job.rec, writeOk, spills)
          /\ failed' = IF ok THEN failed ELSE failed \cup {job.rec}
          /\ CountFaults(IF x.handle = None THEN <<openOk>> ELSE <<writeOk>>)
  /\ job' = Idle
  /\ JobRests

-----------------------------------------------------------------------------
(* __MoveOldFiles, which holds both mutexes from beginning to end.         *)

FilesIn(dir) == {p \in DOMAIN io.files : p.dir = dir}
MoverRests == UNCHANGED <<now, config, job, pruner, written, pruned, failed, crashed, torn>>

\* Variant: the pass does not wait for a __Log2File in progress.
MoverStartNoFileLock ==
  /\ up /\ "move" \in armed
  /\ mover = Idle /\ pruner = Idle
  /\ armed' = armed \ {"move"}
  /\ mover' = [at |-> "scan", todo |-> FilesIn("cache"), start |-> now]
  /\ UNCHANGED <<io, counts>>
  /\ MoverRests

\* Variant: the pass does not wait for a __DelTimeoutFile in progress.
MoverStartNoDirLock ==
  /\ up /\ "move" \in armed
  /\ mover = Idle /\ job = Idle
  /\ armed' = armed \ {"move"}
  /\ mover' = [at |-> "scan", todo |-> FilesIn("cache"), start |-> now]
  /\ UNCHANGED <<io, counts>>
  /\ MoverRests

MoverStart ==
  /\ up /\ "move" \in armed
  /\ mover = Idle /\ pruner = Idle /\ job = Idle
  /\ armed' = armed \ {"move"}
  /\ mover' = [at |-> "scan", todo |-> FilesIn("cache"), start |-> now]
  /\ UNCHANGED <<io, counts>>
  /\ MoverRests

\* A file with an mtime of this very second or later does not stay.
Stays(p) ==
  LET mtime == io.files[p].mtime
  IN cache_days_ > 0 /\ mover.start > mtime /\ mover.start - mtime < cache_days_ * DayLen

MoverKeep(p) ==
  /\ mover.at = "scan" /\ p \in mover.todo
  /\ Stays(p)
  /\ mover' = [mover EXCEPT !.todo = @ \ {p}]
  /\ UNCHANGED <<io, armed, counts>>
  /\ MoverRests

\* Variant: a failed __AppendFile does not end the pass.
MoverAppendUnchecked(p) ==
  /\ mover.at = "scan" /\ p \in mover.todo
  /\ ~Stays(p)
  /\ \E ok \in MayFail("append") :
       /\ io' = IF ok /\ Content(io, p) # <<>>
                THEN AppendTo(io, Path("log", p.day, p.idx), Content(io, p)) ELSE io
       /\ mover' = [at |-> "remove", todo |-> mover.todo \ {p}, start |-> mover.start, path |-> p]
       /\ CountFaults(<<ok>>)
  /\ UNCHANGED armed
  /\ MoverRests

\* A failure ends the pass.
MoverAppend(p) ==
  /\ mover.at = "scan" /\ p \in mover.todo
  /\ ~Stays(p)
  /\ \E ok \in MayFail("append") :
       /\ io' = IF ok /\ Content(io, p) # <<>>
                THEN AppendTo(io, Path("log", p.day, p.idx), Content(io, p)) ELSE io
       /\ mover' = IF ok THEN [at |-> "remove", todo |-> mover.todo \ {p},
                               start |-> mover.start, path |-> p]
                   ELSE Idle
       /\ CountFaults(<<ok>>)
  /\ UNCHANGED armed
  /\ MoverRests

MoverRemove ==
  /\ mover.at = "remove"
  /\ io' = RemoveFile(io, mover.path)
  /\ mover' = [at |-> "scan", todo |-> mover.todo, start |-> mover.start]
  /\ UNCHANGED <<armed, counts>>
  /\ MoverRests

MoverEnd ==
  /\ mover.at = "scan" /\ mover.todo = {}
  /\ mover' = Idle
  /\ UNCHANGED <<io, armed, counts>>
  /\ MoverRests

-----------------------------------------------------------------------------
(* __DelTimeoutFile, which holds sg_mutex_dir_attr only.                   *)

PrunerRests == UNCHANGED <<now, config, job, mover, written, failed, crashed, torn, counts>>

PrunerStart(dir) ==
  /\ up /\ dir \in armed
  /\ pruner = Idle /\ mover = Idle
  /\ armed' = armed \ {dir}
  /\ pruner' = [at |-> "scan", dir |-> dir, todo |-> FilesIn(dir), start |-> now]
  /\ UNCHANGED <<io, pruned>>
  /\ PrunerRests

\* last_write_time of a file that is gone is -1: boost is built without
\* exceptions.
Expired(p) ==
  \/ ~Exists(io, p)
  \/ /\ pruner.start > io.files[p].mtime
     /\ pruner.start - io.files[p].mtime > MaxAlive

PrunerCheck(p) ==
  /\ pruner.at = "scan" /\ p \in pruner.todo
  /\ pruner' = IF Expired(p)
               THEN [at |-> "remove", dir |-> pruner.dir, todo |-> pruner.todo \ {p},
                     start |-> pruner.start, path |-> p]
               ELSE [pruner EXCEPT !.todo = @ \ {p}]
  /\ UNCHANGED <<io, armed, pruned>>
  /\ PrunerRests

PrunerRemove ==
  /\ pruner.at = "remove"
  /\ pruned' = pruned \cup Range(Content(io, pruner.path))
  /\ io' = RemoveFile(io, pruner.path)
  /\ pruner' = [at |-> "scan", dir |-> pruner.dir, todo |-> pruner.todo, start |-> pruner.start]
  /\ UNCHANGED armed
  /\ PrunerRests

PrunerEnd ==
  /\ pruner.at = "scan" /\ pruner.todo = {}
  /\ pruner' = Idle
  /\ UNCHANGED <<io, armed, pruned>>
  /\ PrunerRests

-----------------------------------------------------------------------------
(* The appender's life and the clock.                                      *)

NeverOpened == [time |-> 0, path |-> None]

\* Open creates an XloggerAppender under sg_mutex_dir_attr and arms its
\* delayed threads.
Open ==
  /\ ~up /\ starts < MaxStarts
  /\ mover = Idle /\ pruner = Idle
  /\ up' = TRUE
  /\ mode' \in Modes
  /\ cache_days_' \in CacheDays
  /\ io' = [io EXCEPT !.last = NeverOpened]
  /\ armed' = {"move", "cache", "log"}
  /\ starts' = starts + 1
  /\ UNCHANGED <<now, job, mover, pruner, ghosts, back, faults>>

SetMode(m) ==
  /\ up /\ mode' = m /\ mode # m
  /\ UNCHANGED <<now, up, cache_days_, io, job, armed, mover, pruner, ghosts, counts>>

\* Close cancels what is still in its delay; its last block is written by
\* then. A pruning that has begun goes on.
Close ==
  /\ up /\ job = Idle /\ mover = Idle
  /\ up' = FALSE
  /\ armed' = {}
  /\ io' = CloseLogFile(io)
  /\ UNCHANGED <<now, mode, cache_days_, job, mover, pruner, ghosts, counts>>

Carried == IF job.at \in {"cache", "log", "fallback"} THEN {job.rec} ELSE {}

Crash ==
  /\ up
  /\ up' = FALSE
  /\ io' = [io EXCEPT !.handle = None]
  /\ job' = Idle /\ mover' = Idle /\ pruner' = Idle
  /\ armed' = {}
  /\ crashed' = crashed \cup Carried \cup Unwritten
  /\ torn' = (torn \/ "remove" \in {job.at, mover.at})
  /\ UNCHANGED <<now, mode, cache_days_, written, pruned, failed, counts>>

\* A __Log2File lasts at most one unit of time.
Tick ==
  /\ now < MaxTime
  /\ job # Idle => now = written[job.rec]
  /\ now' = now + 1
  /\ UNCHANGED <<config, io, job, armed, mover, pruner, ghosts, counts>>

ClockBack ==
  /\ back < MaxBack
  /\ now' \in 0..(now - 1)
  /\ back' = back + 1
  /\ UNCHANGED <<config, io, job, armed, mover, pruner, ghosts, faults, starts>>

Init ==
  /\ now = 0
  /\ up = FALSE
  /\ mode \in Modes
  /\ cache_days_ \in CacheDays
  /\ io = [files |-> <<>>, handle |-> None, last |-> NeverOpened, late |-> {}]
  /\ job = Idle /\ mover = Idle /\ pruner = Idle
  /\ armed = {}
  /\ written = <<>>
  /\ pruned = {} /\ failed = {} /\ crashed = {}
  /\ torn = FALSE
  /\ back = 0 /\ faults = 0 /\ starts = 0

Next ==
  \/ Log2File \/ WriteCache \/ AppendCache \/ RemoveCache \/ WriteLog \/ WriteFallback
  \/ MoverStart \/ MoverRemove \/ MoverEnd
  \/ PrunerRemove \/ PrunerEnd
  \/ \E dir \in {"cache", "log"} : PrunerStart(dir)
  \/ \E p \in DOMAIN io.files : MoverKeep(p) \/ MoverAppend(p)
  \/ pruner.at = "scan" /\ \E p \in pruner.todo : PrunerCheck(p)
  \/ \E m \in Modes : SetMode(m)
  \/ Open \/ Close \/ Crash \/ Tick \/ ClockBack

Spec == Init /\ [][Next]_vars

-----------------------------------------------------------------------------
(* Properties.                                                             *)

Records == 1..MaxWrites
Times == 0..MaxTime
Paths == [dir : {"cache", "log"}, day : 0..DayOf(MaxTime), idx : Nat]
Blocks == Seq(Records)

\* Types of all variables, and who excludes whom: mutex_log_file_ keeps
\* __Log2File and __MoveOldFiles apart, sg_mutex_dir_attr the two delayed jobs.
TypeOK ==
  /\ now \in Times /\ up \in BOOLEAN
  /\ mode \in Modes /\ cache_days_ \in CacheDays
  /\ DOMAIN io.files \subseteq Paths
  /\ \A p \in DOMAIN io.files : io.files[p] \in [recs : Blocks, mtime : Times]
  /\ io.handle \in [path : Paths, linked : BOOLEAN, opened : Times, buf : Blocks] \cup {None}
  /\ io.late \subseteq 1..Len(written)
  /\ io.last \in [time : Times, path : Paths \cup {None}]
  /\ \/ job = Idle
     \/ job \in [at : {"cache", "append", "remove", "log", "fallback"}, rec : Records,
                 move : BOOLEAN, day : 0..DayOf(MaxTime), cache : Paths, cacheLogs : BOOLEAN]
  /\ armed \subseteq {"move", "cache", "log"}
  /\ job = Idle \/ mover = Idle
  /\ mover = Idle \/ pruner = Idle
  /\ mover = Idle \/ (mover.todo \subseteq Paths /\ mover.start \in Times)
  /\ pruner = Idle \/ (pruner.todo \subseteq Paths /\ pruner.start \in Times)
  /\ written \in Seq(Times) /\ Len(written) <= MaxWrites
  /\ \A S \in {pruned, failed, crashed} : S \subseteq 1..Len(written)
  /\ torn \in BOOLEAN
  /\ back \in 0..MaxBack /\ faults \in 0..MaxFaults /\ starts \in 0..MaxStarts

OnDisk == UNION {Range(io.files[p].recs) : p \in DOMAIN io.files}

\* A block given to __Log2File is in the hands of its thread, in a file or on
\* its way into one, or it was pruned, lost to a crash or refused by the disk:
\* the fall-backs and the moves of __Log2File and __MoveOldFiles lose nothing,
\* with one exception. Sync mode leaves the file open, and what stdio hands on
\* after the file was copied or removed goes down with it.
NothingVanishes ==
  \A r \in 1..Len(written) :
    r \in Carried \cup OnDisk \cup Unwritten \cup io.late \cup pruned \cup failed \cup crashed

\* Where a block is stored: each file and position.
Copies(r) == UNION {{<<p, i>> : i \in {k \in DOMAIN io.files[p].recs : io.files[p].recs[k] = r}} :
                      p \in DOMAIN io.files}
Moving == "remove" \in {job.at, mover.at}

\* A block is stored twice only while a file is being moved or if a crash cut
\* a move in two (__AppendFile, then remove): no fall-back and no move of one
\* thread beside another's repeats it.
OnlyCrashDuplicates == ~torn /\ ~Moving => \A r \in 1..Len(written) : Cardinality(Copies(r)) <= 1

\* A reader puts the files together by day and index, and the file in the log
\* directory before the one in the cache directory.
Before(p, q) ==
  \/ p.day < q.day
  \/ p.day = q.day /\ p.idx < q.idx
  \/ p.day = q.day /\ p.idx = q.idx /\ p.dir = "log" /\ q.dir = "cache"

\* The places of the blocks in the files, and the order they are read in.
Places == UNION {{p} \X DOMAIN io.files[p].recs : p \in DOMAIN io.files}
BlockAt(x) == io.files[x[1]].recs[x[2]]
ReadBefore(x, y) == Before(x[1], y[1]) \/ (x[1] = y[1] /\ x[2] < y[2])

\* Unless the clock was set back, the blocks read in that order come in the
\* order of their writing, copies left by a crash aside: neither midnight
\* between two readings of the clock nor a move nor a new index disturbs it.
InOrder ==
  back = 0 =>
  \A x, y \in Places : ReadBefore(x, y) /\ BlockAt(x) > BlockAt(y) =>
    \E z \in Places : ReadBefore(z, x) /\ BlockAt(z) = BlockAt(y)

\* No block goes to a file of an earlier day than a block before it, even if
\* the clock is set back at any moment, as long as the process lives:
\* __OpenLogFile opens last_file_path_ again.
DaysInOrder ==
  back = 0 \/ starts <= 1 =>
  \A p, q \in DOMAIN io.files : p.day < q.day =>
    \A r \in Range(io.files[p].recs), t \in Range(io.files[q].recs) : r < t

\* With max_file_size_ set and in async mode, a file is over it by at most the
\* block that crossed it, although two files of a name are merged when one is
\* moved; blocks that a crash left twice are beyond that. In sync mode the file
\* stays open all day and nothing asks for its size.
SplitBounded ==
  MaxFileSize > 0 /\ ~torn => \A p \in DOMAIN io.files : Len(io.files[p].recs) <= MaxFileSize + 1

\* A pruning pass tests a file and removes it later without mutex_log_file_;
\* it never destroys a block that is younger than max_alive_time_, by a clock
\* that was not set back.
PruneSparesFresh ==
  [][back = 0 => \A r \in pruned' \ pruned : now - written[r] > MaxAlive]_vars

\* listLogFiles shows one file per name, the one in the cache directory if
\* there are two: between moves that hides no block, unless the clock was set back and a
\* day got a second file of the same name.
Shown == {p \in DOMAIN io.files : p.dir = "cache" \/ ~Exists(io, [p EXCEPT !.dir = "cache"])}
ListShowsAll == back = 0 /\ ~Moving => OnDisk \subseteq UNION {Range(io.files[p].recs) : p \in Shown}
=============================================================================
