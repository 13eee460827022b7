# A formal model of xlog_plugin and its mars-xlog core

The repository is a Flutter plugin for logging. Its Dart, Kotlin and Swift parts
forward calls to the C++ appender of Tencent's mars-xlog
(`src/native/mars/xlog`), which buffers log lines in a memory-mapped block,
writes the blocks to one file per day and can rebuild what a dead process left
in the mapping. Almost everything that is hard about the program is in that
appender: threads that share a block and a file with two mutexes, four unlocked
flags and a lossy notification, and a process that may die at any step. This
directory holds TLA+ modules of it, the TLC configurations that check them and
proofs that TLAPS checks.

## 1. The system

| Component | State | Operations | Modelled in |
|---|---|---|---|
| Appender pipeline (`appender.cc`, `xlogger_appender.h`) | `config_.mode_`, `log_close_`, `log_buff_`, the mapping, the writer thread, two mutexes, a condition variable | Open, Write, Flush, FlushSync, SetMode, Close, the writer thread's loop | `XloggerAppender`, `LogStore` (abstract) |
| Log files (`appender.cc` 424-919) | log and cache directory, open `FILE*`, time of opening, last path | `__Log2File`, `__OpenLogFile`, `__MoveOldFiles`, `__DelTimeoutFile`, size split | `LogFiles`; one append-only file in `XloggerAppender` |
| Log block (`log_base_buffer.cc`, `log_crypt.cc`) | header (sequence number, hours, length), payload, plain rest of the encryption | Write, synchronous Write, Flush, recovery of a block (`__Fix`) | `LogBlock`; a record in `XloggerAppender` |
| Period search (`GetPeriodLogs`), Dart decoder (`xlog_decoder.dart`), decoder scripts (`crypt/*.py`) | none, read a file | resynchronising scans | `XlogReaders`, checked on the files of `LogBlock` |
| Default appender (end of `appender.cc`) | pointer, guard, a mutex; per thread a recursion counter and a recursion report | `appender_open`, `appender_close`, exit handler, `xlogger_appender` | `DefaultAppender` |
| Instance registry (`xlogger_interface.cc`, `xlogger_category.cc`) | map of instances, a mutex, delayed deletions | new, get, release, flush all, calls through an instance pointer | `InstanceRegistry` |
| Delayed threads (`comm/unix/thread`) | reference-counted runnable, cancel flag, timed condition | start, start_after, cancel_after, join, destructor | `CommThread`; what the writer thread needs also in `XloggerAppender` |
| Dart API, Kotlin/Swift/JNI glue, logger front end, formatting, console, dump | next to none | forward, format, print | not modelled |
| boost, zstd, OpenSSL, rapidjson, googletest, the rest of mars, the example app | | | vendored, unreached or a demonstration: not modelled |

How they interact: the plugin calls `appender_open`, `Write`, `FlushSync` and
`appender_close` from platform threads. Every logging thread calls `Write` and
shares the block with the writer thread and with callers of `FlushSync` under
`mutex_buffer_async_`; whoever takes the block away writes it under
`mutex_log_file_`; between the two locks the block is in one thread's hands
only. The threads signal each other with a condition variable whose
notification is lost when nobody waits. The delayed threads work on the same
files minutes after `Open`. The mapping is the only channel between a dead
process and its successor.

What makes each part correct:

- pipeline: no record lost or stored twice by a hand-over, whatever interleaves;
  order in the file; a flush and a close that do what their callers rely on; no
  record forgotten in the block; Close comes to its end;
- files: no record disappears in a move, a prune or a failed write, and a record
  is in the file of its day;
- block: what is recovered after a crash is what had been written, as far as
  the code promises it;
- search and decoders: the scans find the blocks, and lose none because of what
  is in a payload;
- default appender, registry and threads: nothing is used after it was freed,
  nothing is open twice, what is released is deleted, a cancelled job does not
  run, a nested call does not silence its thread.

`PROJECT.json` lists the hazards with the line at which each bites and the
properties that watch it.

## 2. The core: `XloggerAppender`

The module has one action per critical section and one per unlocked access, in
the order of the code. `pc[t]` says where a thread is.

| Code | Actions |
|---|---|
| `Write` | `WriteEnter` (test of `log_close_`), `WriteDispatch` (read of `mode_`), then `WriteAsync` or `WriteAsyncRefused`, or `WriteSync` and `WriteSyncFile` |
| `Flush` | `Flush` |
| `FlushSync` | `FlushSync` (test of the mode), `FlushSyncTake` or `FlushSyncClosed`, `FlushSyncFile`, `FlushSyncReturn` |
| `SetMode` | `SetModeStore`, `SetModeStart` |
| `__AsyncLogThread` | `AsyncTake` or `AsyncNoBuffer`, `AsyncFile`, `AsyncCheck`, `AsyncWait`, `AsyncTimeout` |
| `Open` | `Open` (map the block, take and clear what is in it), `OpenStart`, `OpenFile`, then a `Write` |
| `Close` | a `Write` (`Close`), `CloseSet`, `CloseNotify`, `CloseJoin`, `CloseWipe`, `CloseFile` |
| the process dies | `Crash` |

State: `block` is the mapped block and the heap block, `log_buff_` says which
of them the appender uses; `chunk[t]` is the `AutoBuffer` thread `t` carries;
`fbuf` is what was `fwrite`n and is still in stdio, `file` what the system has;
`s_seq` is the static counter of `__GetSeq`. The variables `lostInCrash`,
`lostInClose`, `owedFlush`, `owedClose`,
`parked` and `heaped` are history: no action
reads them.

What is abstracted, and why that is sound for the properties:

- A record is the number of the write that accepted it; its text, level and
  length are left out. Lengths are counted in records, so the thresholds
  (one third, four fifths, full) are small numbers in the right order.
- Both mutexes guard sections without blocking calls or access to anything the
  other one guards, except `__Log2File`, which does all its file work under
  `mutex_log_file_`; each section is one step.
- A tip (`WriteTips2File`, the "length >= 4/5" line) is not a record: it is what
  takes a record's place. The two tips around a recovered block are left out.
- The header lines of `Open` are one `Write`.
- In sync mode nothing flushes `logfile_`, so any prefix of what stdio holds may
  reach the system at any write: `Log2File` chooses it.
- A thread that uses `log_buff_` after `Close` deleted it has undefined
  behaviour; the model's outcome is the crash (`WriteSync` is not enabled,
  `Crash` is).
- A `Close`d appender is not opened again: `appender_open` makes a new object.
- Files never fail to open or write here; that is in `LogFiles`.

`LogStore` is the abstract promise: accepted records are pending, then stored,
and can be lost only in a step that takes the appender down. `Promise` in
`XloggerAppender` is the refinement mapping.

### Runs

All runs of this directory switch off the deadlock check: every program here
comes to its end, after `Close` or with the bounds used up.

| Run | Checks | What it shows |
|---|---|---|
| `AppenderLive` | `TypeOK`, `CloseKeepsParked`, `FlushSyncEmptiesBuffer`, `BufferServed`, `Drained`, `CloseTerminates` | A thread that logs, one that flushes and changes the mode at will, the writer thread and `Close`. `Close` destroys nothing that was pending when it set `log_close_`, provided that the writer thread's last flush was still ahead of it; a `FlushSync` past its critical section has left nothing in the block that was pending when it was called; a block with records in it always has a writer thread; under fairness every record in the block, the header line of `Open` and the mark line of `Close` included, reaches the file (in sync mode the stdio buffer) unless `Close` wipes it, and `Close` ends, although notifications get lost. |
| `AppenderLives` | `ExactlyOnce`, `FileInOrder`, `MissingIsReal`, `ImplementsLogStore` | Three lives of the process in either mode, with a crash anywhere, also during recovery, and the fall-back to the heap: each accepted record is in one place and the appender refines `LogStore`. As long as the mapping was found, blocks are in order and the decoder reports missing numbers only if a crash or `Close` destroyed records. |
| `FlushSyncReturnsEarly` | `FlushSyncCompletes` violated | `FlushSync` returns while the writer thread still carries an older block; the API's comment promises that the write is complete. |
| `CloseDropsRecords` | `CloseFlushes` violated | The complement of `CloseKeepsParked`: the writer thread is between its flush and its test of `log_close_`, leaves without another flush, and `Close` wipes the block. |

After a life on the heap (`heaped`, a history variable), a block in the mapped file
can be older than blocks in the log file, and neither order nor the report of
missing numbers can be expected.
Nor with callers of `FlushSync`: two blocks may swap places on their way to the
file, which is why `AppenderLives` has none. The theorem `ExactlyOnceCorrect` has
them.

Bounds. One writer, one caller and the writer thread are the three that can
hold a block at once; further writers share the block with the first only under
the mutex. `NotifyAt`, `TipAt`, `BlockMax` are 2 and 3 records, so a
block meets each threshold in the few writes there are: `Open` and `Close` write
besides the application's `MaxWrites`. `SeqMod = 3` makes the counter wrap on the
third block. Two crashes (`MaxRestarts`) are needed for a heap episode between two
recoveries, and for a recovered block behind a recovered block. `BufferServed`
needs one mode-changing thread: with two, one stores sync between the other's
test for async and its start of the writer thread, and a record may be left in
a block nobody flushes until the next change or `Close`.

Fairness (`FairSpec`): weak fairness of each thread that is inside an
operation, which is what a preemptive scheduler gives, and of the writer
thread's `wait`, which is timed (15 minutes, `appender.cc` line 955). No thread
is obliged to call anything. Without the timeout `Drained` fails (the mutant of
that property): notifications are not enough.

## 3. `LogFiles`

Where the blocks go. The module stands beside the pipeline: `Log2File` of
`XloggerAppender`, one atomic append there, is here the call that takes several
steps, each of which may fail or be the last one of the process.

| Code | Actions |
|---|---|
| `__Log2File` | `Log2File` (takes `mutex_log_file_`, chooses the directory), `WriteCache`, `AppendCache`, `RemoveCache`, `WriteLog`, `WriteFallback` |
| `__MoveOldFiles` | `MoverStart`, `MoverKeep`, `MoverAppend`, `MoverRemove`, `MoverEnd` |
| `__DelTimeoutFile` | `PrunerStart`, `PrunerCheck`, `PrunerRemove`, `PrunerEnd` |
| `Open`, `Close`, `SetMode` as far as files are concerned | `Open`, `Close`, `SetMode` |
| environment | `Crash`, `Tick`, `ClockBack` |

State: `io.files` maps a path (directory, day, index) to its blocks and mtime;
`io.handle` is `logfile_` with the time of opening, the stdio buffer and whether
the path still names the file; `io.last` is `last_time_` and
`last_file_path_`; `io.late` is history: the blocks that stdio handed to a file
after it had been copied or unlinked. `job`, `mover` and `pruner` are the three
calls that may be in progress and show who holds which mutex; `armed` are the
delayed threads still in their delay. `written`, `pruned`, `failed`, `crashed` and
`torn` are history too.

What is abstracted: a block is a number and sizes count blocks; a day has
`DayLen` units and one clock serves `gettimeofday`, `time` and mtimes; the 1 GB test may say
anything; the delays of two and three minutes are any time. There is a cache
directory (the plugin always names one), one name prefix, and file names parse
to what they were made from. The error block of a failed write and the line
about a jump of the clock are no blocks of the application. `last_write_time`
returns -1 for a missing file, because boost is built without exceptions
(`operations.cpp` 1325): `Expired` has that case.

| Run | Checks | What it shows |
|---|---|---|
| `FilesFaults` | `TypeOK`, `NothingVanishes`, `OnlyCrashDuplicates` | Both modes, a failing open, write or append, crashes, two starts and midnight: the mutexes exclude whom they should; a block is in a hand, in a file, pruned, crashed or refused, or went to a file that a move had taken away in sync mode, and no other way; only a crash between append and remove stores a block twice. |
| `FilesSplit` | `SplitBounded`, `InOrder` | `max_file_size_` set, five blocks over midnight, moves between indices: no file exceeds its limit by more than a block, reading order is writing order. |
| `FilesPrune` | `DaysInOrder`, `ListShowsAll`, `PruneSparesFresh` | Two starts over two days, the clock may be set back once and at any moment, also in the middle of `__Log2File`: while the process lives, later blocks never go to an earlier day's file. With a steady clock, a prune pass between any two steps destroys only what is older than `max_alive_time_`, and `listLogFiles` hides nothing. |
| `ListHidesFile` | `ListShowsAll` violated | One failed open: the block goes to the other directory, and of two files of one name the list shows one. |

Bounds. `DayLen = 2` has a time before and a time at midnight; `MaxTime` 2 and 3
give two days, and 3 is more than `MaxAlive = 2`, one day, the least the setter
accepts, so a file can outlive it. `CacheDays` has the value without
caching and one day. One fault is what each fall-back is for; two blocks make
a pair to lose, repeat or reorder, and five are two full files and one more. A
`__Log2File` is assumed to last at most one unit of time (`Tick`): with a
call that stalls for days, `PruneSparesFresh` would be false. `MaxStarts = 2`
gives a second process what the first left behind. All is safety: no fairness
is assumed.

What the properties leave out, because the code does not promise it:

- In sync mode `logfile_` stays open, so a move takes the file away under it
  and what stdio holds, and what is written until the day changes, is lost:
  `io.late`. `NothingVanishes` shows that this is the only way.
- `InOrder`, `ListShowsAll` and `PruneSparesFresh` need a clock that is not set
  back: a call that chose the log directory by one reading can open the next
  day's log file beside a cache file of that day by another, and ages are wrong.
- In sync mode `PruneSparesFresh` and `SplitBounded` are false (TLC finds both when
  `Modes` has `"sync"`), which is why `FilesPrune` and `FilesSplit` are async. Stdio keeps
  fresh blocks back, so the file's mtime looks old; the pass may find it too old, the next
  open or `Close` writes the blocks out, and the pass removes them. And the file
  stays open all day, so nothing asks for its size.
- With failing opens the two directories may have files of one name: `ListHidesFile`.
- After a second start `last_time_` is 0 and a clock that was set back opens an
  earlier day's file.
- Pruning knows `max_alive_time_` and not `cache_days_`; a cache file with an
  mtime of the current second is moved at once.

Not modelled: a write error that shows only at `fclose`, a copy cut in two by
a crash, and a move of a closed appender that goes on beside its successor with
another `mutex_log_file_`.

## 4. `LogBlock` and `XlogReaders`

One `LogBaseBuffer`, store by store, and what becomes of its blocks. `LogBlock`
produces files; `XlogReaders` says what three readers make of a file. A file is
a sequence of cells; a header has four (magic, begin hour, end hour, length),
the end mark has one.

| Code | Definitions |
|---|---|
| `LogBaseBuffer::Write` into the mapping | `WriteCompress` (with `__Reset`), `WriteCrypt`, `WriteLen` |
| `CryptAsyncLog` | `Rest`, `Whole`, `Encrypted` |
| `LogBaseBuffer::Flush`, `__Flush`, `__Clear` | `FlushEmpty`, or `FlushHour`, `FlushTail`, `FlushClear`; then `FileWrite`, the caller's `__Log2File` |
| the synchronous `Write` | `WriteSync` |
| constructor and `__Fix` | `Init`, `Fix` |
| the process dies; an hour or a day passes | `Crash`, `Tick` |
| `_isGoodBlock`, `_findStart`, `decodeBytes` (Dart) | `IsGoodBlock`, `BlocksFrom`, `DartBlocks` |
| `GetLogStartPos`, `ParseFile` (script) | `ScriptStarts`, `ScriptBlocks` |
| `GetPeriodLogs` | `IsPeriodBlock`, `PeriodBlocks`, `BeginHour`, `EndHour`, `PeriodStep`, `PeriodLogs` |

A write compresses behind the end of the block, then encrypts from the first
cell that was left plain on and counts the new cells in the header last. The
process may die between any two stores and in the middle of a copy
(`at = "dying"`: the crash is all that can follow). What is in the mapping then,
`Fix` takes for a block if it begins with a magic.

Abstractions: what compression yields is any sequence of cells, encryption adds a
number to a cell, so that a cell encrypted twice or not at all is told apart;
magics are alike; sequence number and key of the header do not matter for
finding blocks (the sequence number is in `XloggerAppender`). `memset` is taken
to clear upwards. That a compressor holds output back until its end, and what
inflate does with a stream cut short, is not modelled: `given` is what the
compressor has put out.

| Run | Checks | What it shows |
|---|---|---|
| `LogBlock` | `TypeOK`, `RoomForTailer`, `CommittedIsReadable`, `LossStartsAtTear`, `PortReadsAsMuch`, `PeriodIsExact` | With encryption and without, a crash between any two stores or in the middle of a file write, payload that looks like a header, two hours and a midnight: a decoder reads out of a block in the file the payload of the completed writes, and the readers find the blocks they should. |

- `CommittedIsReadable`: a decoder, which decrypts all but the synchronous blocks
  (`Read`), reads exactly what the completed writes gave. That is why the new cells are
  encrypted first and counted last: in the other order (the property's mutant) a crash
  leaves a counted block plain, which a decoder would decrypt to garbage. There is one
  exception that the property states. With encryption the cells of the last,
  incomplete group are re-encrypted together with the cells of the next write; a
  crash between that and the store of the length leaves them encrypted in a
  place where the decoder expects plain ones, up to seven bytes.
- `LossStartsAtTear`: neither payload nor a chance magic brings a decoder out of
  step; only a torn block does, and then the scan may take payload for a
  header and skip good blocks behind it.
- `PortReadsAsMuch`: the Dart port starts at the first good block, the script at
  the first good block that is followed by another one or the end. The port
  reads all the script reads, as long as nothing that is no whole block passes for
  one before the script's start. It takes two crashes in one file to see that a
  weaker premise does not do: behind a whole block come a torn one and a second torn
  one, which with the cells behind it passes for a block; the script starts
  behind all that, at a block which the port has jumped over.
- `PeriodIsExact`: the search ends exactly behind the last block with records of the
  hours asked for, and begins at the first. It begins earlier if a block begins
  in an earlier hour than its predecessor, which a remark of the appender itself
  (`WriteTips2File`, past the block in the mapping) can bring about. The loop of
  `GetPeriodLogs` is a function over the cells of the file: what it knows when it has
  gone beyond a cell.

Bounds: `Sizes = {2}` and `Tea = 3` let two writes straddle a group; a block of
`BlockMax = 9` is full after two writes, the third is cut off; `Bytes = {0, 9}`
are the end mark and the magic, the two values that can mislead a reader.
`MaxTicks = 2`, an hour that begins and then a midnight, has blocks within an hour,
across hours and across midnight. One crash is enough for a recovered block and for
a torn one; a second crash, on the way of a recovered block to the file or behind a
first tear, is in reach of the proofs only.

## 5. `CommThread`

`Thread` of `comm/unix/thread/thread.h`: the reference-counted
`RunnableReference`, its `SpinLock`, the pthreads and the condition of a delayed
start.

| Code | Actions |
|---|---|
| `start`, `start_after` | `StartNow`, `StartAfter`, `StartFails` (`pthread_create` returns an error) |
| `cancel_after` | `CancelFlag`, `CancelNotify` |
| `join` | `JoinMark` (under `splock`), `JoinRead` (`tid()` after the unlock), `JoinReturn` |
| `~Thread` | `Destroy` |
| `start_routine`, `start_routine_after`, `init`, `cleanup` | `RoutineInit`, `RoutineTest`, `RoutineCas`, `RoutinePark`, `RoutineTimeout`, `RoutineWoken`, `RoutineTest2`, `RoutineRun`, `RoutineCleanup` |

An operation under `splock` is one step, except `cancel_after`, because the
routine reads the flag without the lock, and `join`, which gives the lock up.
`Condition::wait` is three steps (test of `anyway_notify_`, then the wait, then
the reset), and a notification between the first two is lost. `doomed`, `reaped`
and `spoiled` are history.

| Run | Checks | What it shows |
|---|---|---|
| `CommThread` | `TypeOK`, `DeletedUnreachable`, `OneRoutine`, `ReapedOnce`, `NoneLeftBehind`, `CancelHolds`, `DeletedAtLast` | Two threads start, cancel and join one object that may be destroyed when no call is under way. |

`ReapedOnce` and `NoneLeftBehind` have a premise, `~spoiled`, that excludes two
executions in which the code does go wrong: a `start` between the unlock of `join`
and its `pthread_join`, and a `pthread_create` that fails (the old pthread is detached,
`tid` is not reset and detached again later). The logger does not do the first:
only `Close` joins. Both conditions are met in the runs, outside the premise.

Bounds: three pthreads are an earlier, a current and a later one; a failure fits
between any two. Fairness (`FairSpec`): whoever is inside a call or a routine is
scheduled, delays and jobs end.

## 6. `DefaultAppender`

The process-wide appender is reached through `sg_default_appender` behind
`sg_release_guard`; only `appender_close` takes `sg_mutex`.

| Code | Actions |
|---|---|
| `xlogger_appender` and `Write` | `Log` (test of the guard), `Follow` (the pointer, then `log_close_`; `Refuse`), `Finish` (one of `GiveUp`, `KeepReport`, `Store`) |
| `appender_open` | `OpenTest`, `OpenAgain`, `OpenNew`, `OpenPublish`, `OpenGuard` |
| `appender_close` | `CloseTest`, `GuardDown`, `CloseSet`, `CloseWipe`, `CloseRelease` |
| exit handler | `ExitTest`, `GuardDown`, `CloseSet`, `CloseWipe`, `ExitDone` |
| `Release`, five seconds later | `Release` |

`frames[w]` is the stack of calls a thread is in: the write callback of one may log
again. `crash` is the thread that used a null or dead pointer; nothing happens
after that.

| Run | Checks | What it shows |
|---|---|---|
| `DefaultAppender` | `TypeOK`, `FailsOnlyWhenClosed`, `OneOpen`, `Balanced`, `OutermostIsStored` | Two threads open and close, one logs with nested calls, `exit()` comes at any time. |

What the properties state precisely, and what they except, is how far the code's
few locks reach:

- A log call fails only if a whole `appender_close` falls between its test of the
  guard and its use of the pointer, a gap of two instructions. It does not
  fail because an appender is deleted under it: `DelayRelease` returns at once
  for an appender that is closed, so `appender_close` never frees one. That is
  a leak, and what makes late callers safe.
- A thread with a recursion report to write uses `log_buff_` without a test and
  fails if `Close` was quicker.
- A second `appender_open` fails beside an `appender_close`, and after the exit
  handler, which leaves the pointer to a closed appender.
- Two overlapping calls of `appender_open` create two appenders on the same mapping
  and files (`overlap`); the first is never closed. The plugin calls it from
  one thread.
- The exit handler does not take `sg_mutex` either: an appender can be opened
  while it closes the one before.
- Beyond ten levels of nesting `Write` returns without giving the counter back.
  From then on the thread's outermost calls count as nested ones and every
  other record of it is replaced by a report.
- Text of a nested call that goes into the report stands behind the NULs
  of a buffer that is written as a C string, so it is lost (`appender.cc` 204,
  211). Texts are not modelled.

Bounds: `MaxRec = 2` and `MaxDepth = 3` reach the limit and go beyond it, four
calls let the thread log again after that; two appenders are an old and a new
one. No fairness is assumed.

## 7. `InstanceRegistry`

| Code | Actions |
|---|---|
| `NewXloggerInstance`, `GetXloggerInstance` | `New`, `Get` |
| `ReleaseXloggerInstance` | `ReleaseClose`, `ReleaseErase`, under one mutex |
| `FlushAll` | `FlushAll`, `FlushAllOne`, `FlushAllEnd`, under the same |
| calls through an instance pointer | `Call`, `CallCategory`, `CallAppender`, `CallEnd` |
| maintenance jobs, delayed deletions, time | `JobStart`, `JobEnd`, `FreeApp`, `FreeCat`, `Tick` |

| Run | Checks | What it shows |
|---|---|---|
| `InstanceRegistry` | `TypeOK`, `GraceProtects`, `MapIsOpen`, `FreedAtLast` | Two threads create, look up, use, flush and release the instances of two names. |

The appender and the category of a released instance are deleted five seconds later,
by two threads nobody cancels. What that protects is `GraceProtects`: a call that
began before the release, a maintenance job that the release came too late to
cancel, and `FlushAll`. A call that begins on a pointer kept beyond the release is
not protected. The assumption behind it, that a call and a job last less than five
seconds, is in the constants (`MaxOp`, `MaxJob < Grace`) and in the guard of
`Tick`; a `Write` that is held up by a slow disk for longer, or a job that moves
many large files, breaks it.

Fairness (`FairSpec`): calls, jobs and deletions go on, and time passes. Bounds:
`Grace = 2` with `MaxOp = MaxJob = 1` is the least that satisfies the
assumption; two instances are the old and the new one of a name.

## 8. Proofs

Eight modules hold theorems, all for every value of the constants that satisfies the
module's named assumption. They state every safety property that a passing run
checks.

The assumptions are `AppenderAssumption`, `ThreadAssumption`, `RegistryAssumption`,
`DefaultAssumption`, `BlockAssumption` and `LogFilesAssumption`: bounds and thresholds
are natural numbers, the named threads are different, in the registry calls and jobs
are shorter than the delay, a block is longer than a header and an end cell, a
day has a length, `max_alive_time_` is a day at least, and `None` is neither a path nor
a `FILE*`. TLC checked each invariant below on the small instances before it was
proved.

**`XloggerAppenderProofs`** proves `TypeCorrect` (`TypeOK`), `ExactlyOnceCorrect`
(`ExactlyOnce`) and `AppenderImplements` (`ImplementsLogStore`).

`TypeInv` adds to the types `BufferThere`: a thread that is about to write through
`log_buff_` finds a block there, without which `block[log_buff_]'` has no type.

`ExactlyOnce` is not inductive: that a step moves a record from one place to another
says nothing unless the places are known not to overlap and a thread that takes a
block has its hands free. `AppenderInv` adds

- `EmptyHands`: a thread carries a chunk only between the critical section that
  took it and the one that writes it;
- `EmptyBlocks`: a block or chunk of length 0 has no records in it, so a
  flush that returns on an empty block forgets none;
- `NotStarted`: until `Open` has started the writer thread, no other thread is inside
  an operation;
- `Account`: the numbers of all records accepted are divided, without overlap, among
  the blocks, the chunks, stdio, the file and the two sets of lost records.

There is one lemma for each kind of movement (into the block, block to chunk, chunk
to stdio, stdio to file, into the lost sets), and each action cites its own.

For the refinement, `Account` gives that the records accepted are the disjoint
union of pending, stored and lost, before and after a step. Then one need only know which of
these sets grow and whether the buffer object is there, and there are four kinds of
step: `StoringStep`, `AcceptingStep`, `GoingDownStep` and `OpeningStep`.

**`AppenderOwedProofs`** proves `FlushSyncEmpties`, `CloseKeeps`,
`BufferIsServed`, `FileKeepsOrder` (`FileInOrder`) and `MissingBlocksAreReal`
(`MissingIsReal`). The first two rest on one observation, `OldLeave`: apart from
`Open`, no step puts a record into the block that had been accepted before the step. What
a call owes is old (`OwedKnown`), so once the block has been emptied of it, it
stays so. For `Close`, `CloseOwes` follows the writer thread: its flush is still
ahead (`Ahead`), or the debt is paid. `BufferIsServed` has the premise
`OneCaller`, that at most one thread changes the mode: with two the property is false
(section 2). Its invariant: the writer thread runs, or the caller is between storing async
and starting it, or the block is empty and will remain so.

The two theorems about order are about executions in which nobody calls `FlushSync`
(`NobodyWaits`, which is the run's bound as a premise) and, as the properties
themselves say, about lives that found the mapping. Under that premise what has been accepted and is
not lost is a queue: the file, then the block somebody carries, then the mapped block. `Lane`
says that one thread at most carries a block, and that it is the thread whose turn
it is (`Open` before the writer thread starts, `Close` after it has ended); `QueueInv`
that the numbers grow along the queue; `NumberInv` that the blocks' sequence numbers
do so in turn, across the wrap. `QueueStep` lists the five things a step can do to a
queue, and each action does one of them: `QueueRests`, `BlockTaken`, `BlockStored`,
`RecordWritten`, `BlockLost`.

**`LogFilesProofs`** proves `LogFilesTypeOK` (`TypeOK`, with the mutual exclusion by the
two mutexes), `LogFilesNothingVanishes` and `LogFilesOnlyCrashDuplicates`, in both modes
and whatever fails. `TypesInv` has the types of the three calls that may be in progress
and who holds which mutex. `NothingInv` adds what each intermediate step has in its
hands: a file that is about to be removed after a copy has its blocks in the other file too. That is
needed because the removal is a step of its own; `MovesKeep` and `Kept` say what
the steps on files preserve. For `OnlyCrashDuplicates`, `SingleInv` says that a block is in one
place unless a copy is under way or a crash has cut one in two; the place a copy was
made from is `Source`, and `OnceInv` excepts it.

**`LogFilesClockProofs`** proves what depends on the clock and on file names.
`LogFilesDaysInOrder` (`DaysInOrder`) has no premise: it is about both modes, files that
are split and failures too, which the run `FilesPrune` leaves out. Each of the
others has the premises that the run has in its constants, because without them the
property is false:

| Theorem | Premises | Why |
|---|---|---|
| `LogFilesPruneSparesFresh` | async, no failing open or write | stdio in sync mode (section 3); a failed open leaves a file for the other directory |
| `LogFilesSplitBounded` | async, clock not set back | the size is asked for at an open; a clock set back opens an earlier day's file |
| `LogFilesListShowsAll`, `LogFilesInOrder` | async, no failing open or write | section 3 |

`DaysInv` follows the day of the open file and of every reading of the clock that is
still to be used. The others share `AsyncInv`: between two calls of `__Log2File` no
file is open, so a file is what the directory shows. `TimesInv` says what mtimes and
readings of the clock promise (`Dates`); `PruneInv` that a pruning pass between its test
and its removal still condemns only what is old (`PassOK`, in the parts `CopyBeside`,
`ListedKnown`, `Vanished` and `Condemned`); `SplitInv` that the two files of a name fit
together (`PairsFit`), with `TopInv` for the highest index; `ShowsInv` that of twin
files the hidden one has nothing of its own (`TwinsOK`), and `OrderInv` that files are in
the order of their names (`FilesOrdered`) and what a call carries is newer than all of
them (`CarriedNew`). `InOrder` itself is stated without recursion: of two blocks, the one
that was written first is read first (`ReadBefore`).

**`CommThreadProofs`** proves `ThreadTypes`, `Reachability`
(`DeletedUnreachable`), `OneAtATime` (`OneRoutine`), `CancelIsObeyed`
(`CancelHolds`), `NoSecondReap` (`ReapedOnce`) and `NoPthreadLost`
(`NoneLeftBehind`), for any number of users and starts. `RefInv`: the reference
count is the `Thread` object, while it is there, plus the routine, while it has not dropped its
reference; the `RunnableReference` is freed exactly when the count is 0; only the
last pthread started can be inside a routine. `CancelInv` follows the flag that
`cancel_after` sets from the store to the routine's second look; `ReapInv` says
which pthreads have been joined or detached while the premise of the last two
holds.

**`InstanceRegistryProofs`** proves `RegistryTypes`, `GraceIsEnough`
(`GraceProtects`) and `MapLeadsToOpen` (`MapIsOpen`). `RegistryInv` has one
part for each thing that can hold an instance: the map (`MapInv`), what `FlushAll`
has yet to visit (`TodoInv`), the delayed deletions (`DelayInv`), the jobs (`JobInv`) and
the calls (`CallInv`). The last two are inequalities between clocks: a call
of age `n` on a released instance leaves the deletion at least `Grace - n` to
go, so the deletion is not due before the call has to end.

**`DefaultAppenderProofs`** proves all properties of its module: `DefaultTypes`,
`FailuresConfined` (`FailsOnlyWhenClosed`), `OneAppender` (`OneOpen`), `CountsBalance`
(`Balanced`) and `OutermostStores` (`OutermostIsStored`). For the first group,
`SoleInv` says what holds while no two `appender_open`s have overlapped: while one
opens, the guard is up and nobody is in `appender_close` (`OpenInv`); a closer
is busy with the default appender and no appender is ever deleted (`CloseInv`); an
appender with files is the default one, about to become it, or in the hands of
the exit handler (`BufferInv`); whoever has tested and not yet followed the
pointer has it, or an `appender_close` has been in between (`PointerInv`). For the counters,
`Agree` is an inequality between the height of a thread's stack, its counters
and its number of calls that becomes an equality within the recursion
limit; `Moves` lists the ways they change together.

**`LogBlockProofs`** proves all properties of its module, for any size
of the block and of the cipher's groups, any payload and any number of crashes:
`BlockTyped` (`TypeOK`), `RoomIsLeft` (`RoomForTailer`), `CommittedReadable`
(`CommittedIsReadable`) and, for files of any length, `TearsLose` (`LossStartsAtTear`),
`PortReads` (`PortReadsAsMuch`) and `PeriodExactly` (`PeriodIsExact`).
`SizeInv`: a mapping that begins with a magic has, in its header, the length of what
has been given, and room behind it; the length a recovery takes from the header
is therefore the length the dead process had. `CellsInv` separates the two
kinds of cell: those of whole groups (`Kept`) are sound from the end of their
write on, whatever store the process dies at, because no later write touches them; the
plain rest is sound only while no write is between encrypting and counting,
which is exactly what a recovered block may have lost. `JobInv` says that a
write takes that rest with it. The arithmetic behind `WriteLen` is
`RestOfRest`: the rest of a block and what comes behind it leave the same rest
as the whole block, so encrypting from the first plain cell on gives the cells
that a decoder decrypts. `ChunkInv` carries this to the block on its way to the
file and `FileInv` to the file, where synchronous blocks are plain, all others are as
encrypted, and later blocks leave both alone (`ReadableStays`).

The theorems about readers need to know the files they read. `AlignInv`: whole
blocks are good ones for a decoder, each leads exactly to what was written next, and a
torn block is any number of cells (`Aligned`). `HourInv`: between the stamp on a block and
the file the clock stands still, so end hours never fall. The rest is about
the scans, which are recursive functions over the cells of a file. `LeastOf`, that a
set of natural numbers has a least element, stands in for induction: `Backwards` and
`Forwards` apply it to the set of cells for which a claim holds. `ScanDefined` and
`KnowsDefined` show that the functions the definitions speak of exist, `ScanStep` and
`PeriodUnfolds` that they are what one reads. `ScanReads` (what is read from a block that is read is
read) and `ScanArrives` (a scan that no block leads across a cell comes to that cell)
give the two theorems about decoders. For the period search `RoundKnows` is the loop
invariant: the loop knows the first block that does not end before the begin hour,
the last block, and, once some block ends in the end hour or later, the end of the last block
asked for.

Only model-checked: liveness (`Drained`, `CloseTerminates`, `DeletedAtLast`,
`FreedAtLast`), because the provers do not reach fairness; and the three runs that
expect a violation, whose counterexamples are the result.

## 9. Not modelled

- The Dart API, the Kotlin, Swift and JNI layers: each call is forwarded to the
  appender; there is no state but an `_initialized` flag. What they promise is
  what the findings quote.
- `appender_oneshot_flush`, which the plugin does not call, `Dump`, the memory dump,
  the formatter, the console, the logger front end.
- Inflating and decrypting in the decoders, failing reads in `GetPeriodLogs`.
- `start_periodic`, `kill` and the like in `thread.h`: no caller in the logger.
- boost, zstd, OpenSSL, rapidjson, googletest and the parts of mars the logger
  does not reach. They are almost all of the repository's lines (the logger
  and the plugin are a few thousand of several hundred thousand), so the share of
  lines that the map covers is small although the logger's core is covered.

## 10. What could come next

- A move of a closed appender beside its successor, in `LogFiles`.
- The one-shot flush beside an open appender with the same mapping.
- A refinement that makes `Log2File` of `XloggerAppender` the abstraction of
  `LogFiles`' calls: in async mode without failures a call of `__Log2File` appends to one
  sequence of blocks, which `LogFilesInOrder` has most of.
