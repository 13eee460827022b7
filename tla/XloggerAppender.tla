-------------------------- MODULE XloggerAppender --------------------------
(***************************************************************************)
(* The concurrent pipeline of one mars::xlog::XloggerAppender: threads     *)
(* that log, threads that flush and change the mode, the asynchronous      *)
(* writer thread and the thread that opens and closes the appender, with   *)
(* the process crashing at any point and being started again.              *)
(*                                                                         *)
(* A record is the number of the write that put it into the pipeline, a    *)
(* block is what one header of the .xlog format covers.  Both mutexes of   *)
(* the class guard critical sections that this module takes in one step,   *)
(* so neither is a variable: what interleaves is everything between two    *)
(* critical sections, and everything the code does without a lock.         *)
(*                                                                         *)
(* The log directory is one append-only file here; LogFiles says which     *)
(* file the bytes go to, LogBlock how a block comes about store by store.   *)
(***************************************************************************)
EXTENDS Naturals, Sequences

CONSTANTS
  Writers,      \* threads that call Write
  Callers,      \* threads that call Flush, FlushSync and SetMode
  Ctl,          \* the thread that calls Open and Close
  Async,        \* thread_async_
  Null,         \* the null LogBaseBuffer*
  Modes,        \* the TAppenderMode values the application uses
  OpenStores,   \* what OpenMmapFile can lead to: the mapping, the heap
  NotifyAt,     \* kBufferBlockLength * 1 / 3, in records
  TipAt,        \* kBufferBlockLength * 4 / 5, in records
  BlockMax,     \* kBufferBlockLength, in records
  SeqMod,       \* the number of values of the uint16_t s_seq
  MaxWrites,    \* bound: Write calls of the Writers
  MaxRestarts   \* bound: crashes of the process

Threads == Writers \cup Callers \cup {Ctl, Async}
Stores  == {"mmap", "heap"}

ASSUME AppenderAssumption ==
  /\ Writers \cap Callers = {}
  /\ Ctl \notin Writers \cup Callers
  /\ Async \notin Writers \cup Callers \cup {Ctl}
  /\ Null \notin Stores
  /\ Modes \subseteq {"sync", "async"} /\ Modes # {}
  /\ OpenStores \subseteq Stores /\ OpenStores # {}
  /\ {NotifyAt, TipAt, BlockMax} \subseteq Nat \ {0}
  /\ {MaxWrites, MaxRestarts} \subseteq Nat
  /\ SeqMod \in Nat \ {0, 1}

VARIABLES
  pc,            \* where each thread is
  after,         \* where Ctl resumes when a Write it called itself returns
  mode,          \* config_.mode_
  log_close_,
  log_buff_,     \* Null, or the memory the LogBaseBuffer is attached to
  block,         \* the block in the mapped file and the one in heap memory
  chunk,         \* the block a thread carries between two critical sections
  fbuf,          \* blocks fwritten to logfile_ but still in its stdio buffer
  file,          \* blocks the operating system has
  s_seq,         \* the static counter of __GetSeq
  accepted,      \* how many records have entered the pipeline
  nwrites,       \* Write calls made by Writers
  restarts,      \* crashes so far
  lostInCrash,   \* records that a crash destroyed
  lostInClose,   \* records that Close wiped
  heaped,        \* a process has worked on the heap
  owedFlush,     \* what was pending when a thread called FlushSync
  owedClose,     \* what was pending when Close set log_close_
  parked         \* the writer thread had a flush ahead of it at that moment

config == <<after, mode, log_close_, log_buff_>>
memory == <<block, chunk>>
disk   == <<fbuf, file>>
counts == <<s_seq, accepted, nwrites, restarts>>
lost   == <<lostInCrash, lostInClose, heaped>>
owed   == <<owedFlush, owedClose, parked>>
data   == <<config, memory, disk, counts, lost, owed>>
vars   == <<pc, data>>

Empty == [seq |-> 0, recs |-> {}, len |-> 0]
Records == 1 .. accepted

\* Where the records are.
BlockRecs(bs) == UNION {bs[i].recs : i \in DOMAIN bs}
InBuffers == block["mmap"].recs \cup block["heap"].recs
InChunks == UNION {chunk[t].recs : t \in Threads}
Pending == InBuffers \cup InChunks \cup BlockRecs(fbuf)

Goto(t, l) == pc' = [pc EXCEPT ![t] = l]

\* notifyAll(): wakes the writer thread if it is blocked in wait(); nothing
\* is remembered when it is not.
GotoAndNotify(t, l) ==
  pc' = [pc EXCEPT ![t] = l, ![Async] = IF @ = "wait" THEN "top" ELSE @]

\* The writer thread ends; a Close that waits in join() goes on.
GotoEnd ==
  pc' = [pc EXCEPT ![Async] = "ended", ![Ctl] = IF @ = "c_join" THEN "c_wipe" ELSE @]

\* A step that only moves the thread.
Move(t, l) == Goto(t, l) /\ UNCHANGED data

AsyncRunning == pc[Async] \notin {"off", "ended"}

\* The object is reachable by other threads once the constructor is done.
Published == pc[Ctl] = "open" \/ after = "c_set"

Return(t) == IF t = Ctl THEN after ELSE "idle"

-----------------------------------------------------------------------------
(* LogBaseBuffer and the log file, as the appender uses them.              *)

\* Variant: the counter is not kept to 16 bits.
NextSeqUnbounded == s_seq + 1

\* __GetSeq(true): skips 0 when the 16-bit counter wraps.
NextSeq == IF (s_seq + 1) % SeqMod = 0 THEN 1 ELSE (s_seq + 1) % SeqMod

\* LogBaseBuffer::Write into the mapped block: the first write of a block
\* fills in the header, with the next sequence number.
BufferWrite(b, recs) ==
  [seq |-> IF b.len = 0 THEN NextSeq ELSE b.seq,
   recs |-> b.recs \cup recs, len |-> b.len + 1]

SeqAfterWrite(b) == IF b.len = 0 THEN NextSeq ELSE s_seq

\* A block written synchronously, with the sequence number 0.
SyncBlock(recs) == [seq |-> 0, recs |-> recs, len |-> 1]

\* Variant: the file is opened with "wb" instead of "ab".
Log2FileTruncating(t) ==
  /\ file' = Append(fbuf, chunk[t])
  /\ fbuf' = <<>>
  /\ chunk' = [chunk EXCEPT ![t] = Empty]

\* __Log2File of the block thread t carries: fwrite, and in async mode
\* fclose. In sync mode the file stays open and nothing flushes it, so any
\* part of what stdio holds may have reached the system.
Log2File(t) ==
  LET all == Append(fbuf, chunk[t]) IN
  /\ IF mode = "async"
     THEN /\ file' = file \o all
          /\ fbuf' = <<>>
     ELSE \E k \in 0 .. Len(all) :
            /\ file' = file \o SubSeq(all, 1, k)
            /\ fbuf' = SubSeq(all, k + 1, Len(all))
  /\ chunk' = [chunk EXCEPT ![t] = Empty]

-----------------------------------------------------------------------------
(* Write, by any thread: Writers from outside, Ctl for the header lines of *)
(* Open and the mark line of Close.                                        *)

MayEnter(t) ==
  IF t = Ctl THEN pc[t] = "w_enter"
             ELSE t \in Writers /\ pc[t] = "idle" /\ Published /\ nwrites < MaxWrites

\* The unlocked test of log_close_ at the top of Write.
WriteEnter(t) ==
  /\ MayEnter(t)
  /\ Goto(t, IF log_close_ THEN Return(t) ELSE "w_dispatch")
  /\ nwrites' = IF t = Ctl THEN nwrites ELSE nwrites + 1
  /\ UNCHANGED <<config, memory, disk, s_seq, accepted, restarts, lost, owed>>

\* The unlocked read of config_.mode_ at its end.
WriteDispatch(t) ==
  /\ pc[t] = "w_dispatch"
  /\ Move(t, IF mode = "sync" THEN "w_sync" ELSE "w_async")

\* __WriteAsync when Close has already deleted the buffer, or when the block
\* has no room left and Compress fails.
WriteAsyncRefused(t) ==
  /\ pc[t] = "w_async"
  /\ log_buff_ # Null => block[log_buff_].len >= BlockMax
  /\ Move(t, Return(t))

\* __WriteAsync otherwise. Above TipAt a tip takes the place of the record.
WriteAsync(t) ==
  /\ pc[t] = "w_async"
  /\ log_buff_ # Null
  /\ LET b    == block[log_buff_]
         tip  == b.len >= TipAt
         recs == IF tip THEN {} ELSE {accepted + 1}
     IN /\ b.len < BlockMax
        /\ block' = [block EXCEPT ![log_buff_] = BufferWrite(b, recs)]
        /\ s_seq' = SeqAfterWrite(b)
        /\ accepted' = IF tip THEN accepted ELSE accepted + 1
        /\ \E fatal \in IF t = Ctl THEN {FALSE} ELSE BOOLEAN :
             IF b.len + 1 >= NotifyAt \/ fatal
             THEN GotoAndNotify(t, Return(t))
             ELSE Goto(t, Return(t))
  /\ UNCHANGED <<config, chunk, disk, nwrites, restarts, lost, owed>>

\* __WriteSync up to __Log2File; log_buff_ is used without a lock. Used
\* after Close has deleted it, see Crash.
WriteSync(t) ==
  /\ pc[t] = "w_sync"
  /\ log_buff_ # Null
  /\ chunk' = [chunk EXCEPT ![t] = SyncBlock({accepted + 1})]
  /\ accepted' = accepted + 1
  /\ Goto(t, "w_file")
  /\ UNCHANGED <<config, block, disk, s_seq, nwrites, restarts, lost, owed>>

WriteSyncFile(t) ==
  /\ pc[t] = "w_file"
  /\ Log2File(t)
  /\ Goto(t, Return(t))
  /\ UNCHANGED <<config, block, counts, lost, owed>>

WriteStep(t) ==
  \/ WriteDispatch(t)
  \/ WriteAsyncRefused(t) \/ WriteAsync(t)
  \/ WriteSync(t) \/ WriteSyncFile(t)

-----------------------------------------------------------------------------
(* Flush, FlushSync and SetMode.                                           *)

Flush(c) ==
  /\ pc[c] = "idle" /\ Published
  /\ GotoAndNotify(c, "idle")
  /\ UNCHANGED data

\* In sync mode FlushSync returns at once.
FlushSync(c) ==
  /\ pc[c] = "idle" /\ Published
  /\ mode = "async"
  /\ Goto(c, "f_take")
  /\ owedFlush' = [owedFlush EXCEPT ![c] = Pending]
  /\ UNCHANGED <<config, memory, disk, counts, lost, owedClose, parked>>

\* Variant: Flush copies the block out and does not clear it.
TakeBlockNoClear(t) ==
  /\ chunk' = [chunk EXCEPT ![t] = block[log_buff_]]
  /\ UNCHANGED block

\* log_buff_->Flush(tmp) under mutex_buffer_async_: thread t leaves with the
\* block, if there is one.
TakeBlock(t) ==
  /\ chunk' = [chunk EXCEPT ![t] = block[log_buff_]]
  /\ block' = [block EXCEPT ![log_buff_] = Empty]

FlushSyncClosed(c) ==
  /\ pc[c] = "f_take"
  /\ log_buff_ = Null
  /\ Goto(c, "idle")
  /\ owedFlush' = [owedFlush EXCEPT ![c] = {}]
  /\ UNCHANGED <<config, memory, disk, counts, lost, owedClose, parked>>

FlushSyncTake(c) ==
  /\ pc[c] = "f_take"
  /\ log_buff_ # Null
  /\ TakeBlock(c)
  /\ Goto(c, IF block[log_buff_].len > 0 THEN "f_file" ELSE "f_return")
  /\ UNCHANGED <<config, disk, counts, lost, owed>>

FlushSyncFile(c) ==
  /\ pc[c] = "f_file"
  /\ Log2File(c)
  /\ Goto(c, "f_return")
  /\ UNCHANGED <<config, block, counts, lost, owed>>

FlushSyncReturn(c) ==
  /\ pc[c] = "f_return"
  /\ Goto(c, "idle")
  /\ owedFlush' = [owedFlush EXCEPT ![c] = {}]
  /\ UNCHANGED <<config, memory, disk, counts, lost, owedClose, parked>>

\* SetMode: the mode first, then the notification and, if need be, the thread.
SetModeStore(c, m) ==
  /\ pc[c] = "idle" /\ Published
  /\ mode' = m
  /\ Goto(c, "m_start")
  /\ UNCHANGED <<after, log_close_, log_buff_, memory, disk, counts, lost, owed>>

\* Variant: SetMode only notifies.
SetModeNotifyOnly(c) ==
  /\ pc[c] = "m_start"
  /\ GotoAndNotify(c, "idle")
  /\ UNCHANGED data

SetModeStart(c) ==
  /\ pc[c] = "m_start"
  /\ IF mode = "async" /\ ~AsyncRunning
     THEN pc' = [pc EXCEPT ![c] = "idle", ![Async] = "top"]
     ELSE GotoAndNotify(c, "idle")
  /\ UNCHANGED data

CallerStep(c) ==
  \/ FlushSyncClosed(c) \/ FlushSyncTake(c)
  \/ FlushSyncFile(c) \/ FlushSyncReturn(c)
  \/ SetModeStart(c)

-----------------------------------------------------------------------------
(* __AsyncLogThread.                                                       *)

AsyncNoBuffer ==
  /\ pc[Async] = "top"
  /\ log_buff_ = Null
  /\ GotoEnd
  /\ UNCHANGED data

AsyncTake ==
  /\ pc[Async] = "top"
  /\ log_buff_ # Null
  /\ TakeBlock(Async)
  /\ Goto(Async, IF block[log_buff_].len > 0 THEN "a_file" ELSE "a_check")
  /\ UNCHANGED <<config, disk, counts, lost, owed>>

AsyncFile ==
  /\ pc[Async] = "a_file"
  /\ Log2File(Async)
  /\ Goto(Async, "a_check")
  /\ UNCHANGED <<config, block, counts, lost, owed>>

\* Variant: the loop never tests log_close_.
AsyncCheckNothing ==
  /\ pc[Async] = "a_check"
  /\ Move(Async, "a_wait")

\* The test of log_close_ and the wait that follows are two steps: what is
\* notified in between is not noticed.
AsyncCheck ==
  /\ pc[Async] = "a_check"
  /\ IF log_close_ THEN GotoEnd ELSE Goto(Async, "a_wait")
  /\ UNCHANGED data

AsyncWait ==
  /\ pc[Async] = "a_wait"
  /\ Move(Async, "wait")

\* Variant: wait() without a timeout.
AsyncNoTimeout == FALSE /\ UNCHANGED vars

\* wait(15 * 60 * 1000) times out, or wakes spuriously.
AsyncTimeout ==
  /\ pc[Async] = "wait"
  /\ Move(Async, "top")

AsyncStep ==
  \/ AsyncNoBuffer \/ AsyncTake \/ AsyncFile
  \/ AsyncCheck \/ AsyncWait \/ AsyncTimeout

-----------------------------------------------------------------------------
(* Open.                                                                   *)

\* Variant: the recovered block stays in the mapping.
OpenNoClear ==
  /\ pc[Ctl] = "down"
  /\ Goto(Ctl, "o_start")
  /\ \E s \in OpenStores :
       /\ log_buff_' = s
       /\ chunk' = [chunk EXCEPT ![Ctl] = block[s]]
       /\ heaped' = (heaped \/ s = "heap")
  /\ UNCHANGED <<after, mode, log_close_, block, disk, counts, lostInCrash, lostInClose, owed>>

\* Maps the buffer file, or falls back to heap memory, and takes out of the
\* mapping what an earlier process left in it.
Open ==
  /\ pc[Ctl] = "down"
  /\ Goto(Ctl, "o_start")
  /\ \E s \in OpenStores :
       /\ log_buff_' = s
       /\ chunk' = [chunk EXCEPT ![Ctl] = block[s]]
       /\ block' = [block EXCEPT ![s] = Empty]
       /\ heaped' = (heaped \/ s = "heap")
  /\ UNCHANGED <<after, mode, log_close_, disk, counts, lostInCrash, lostInClose, owed>>

\* log_close_ = false and SetMode. Only the new writer thread runs besides.
OpenStart ==
  /\ pc[Ctl] = "o_start"
  /\ log_close_' = FALSE
  /\ \E m \in Modes :
       /\ mode' = m
       /\ pc' = [pc EXCEPT ![Ctl] = IF chunk[Ctl].len > 0 THEN "o_file" ELSE "w_enter",
                           ![Async] = IF m = "async" THEN "top" ELSE "off"]
  /\ UNCHANGED <<after, log_buff_, memory, disk, counts, lost, owed>>

\* The recovered block goes to the file, then the header lines are logged.
OpenFile ==
  /\ pc[Ctl] = "o_file"
  /\ Log2File(Ctl)
  /\ Goto(Ctl, "w_enter")
  /\ UNCHANGED <<config, block, counts, lost, owed>>

-----------------------------------------------------------------------------
(* Close.                                                                  *)

\* Logs the mark line, through Write.
Close ==
  /\ pc[Ctl] = "open"
  /\ after' = "c_set"
  /\ Goto(Ctl, "w_enter")
  /\ UNCHANGED <<mode, log_close_, log_buff_, memory, disk, counts, lost, owed>>

CloseSet ==
  /\ pc[Ctl] = "c_set"
  /\ log_close_' = TRUE
  /\ owedClose' = Pending
  /\ parked' = (pc[Async] \in {"a_wait", "wait", "top"})
  /\ Goto(Ctl, "c_notify")
  /\ UNCHANGED <<after, mode, log_buff_, memory, disk, counts, lost, owedFlush>>

CloseNotify ==
  /\ pc[Ctl] = "c_notify"
  /\ GotoAndNotify(Ctl, "c_join")
  /\ UNCHANGED data

\* Variant: Close does not join the writer thread.
CloseNoJoin ==
  /\ pc[Ctl] = "c_join"
  /\ Move(Ctl, "c_wipe")

CloseJoin ==
  /\ pc[Ctl] = "c_join"
  /\ ~AsyncRunning
  /\ Move(Ctl, "c_wipe")

\* memset or delete[] of the block, and delete of the buffer object.
CloseWipe ==
  /\ pc[Ctl] = "c_wipe"
  /\ lostInClose' = lostInClose \cup block[log_buff_].recs
  /\ block' = [block EXCEPT ![log_buff_] = Empty]
  /\ log_buff_' = Null
  /\ Goto(Ctl, "c_file")
  /\ UNCHANGED <<after, mode, log_close_, chunk, disk, counts, lostInCrash, heaped, owed>>

\* __CloseLogFile: fclose writes out what stdio still holds.
CloseFile ==
  /\ pc[Ctl] = "c_file"
  /\ file' = file \o fbuf
  /\ fbuf' = <<>>
  /\ Goto(Ctl, "closed")
  /\ UNCHANGED <<config, memory, counts, lost, owed>>

CtlStep ==
  \/ OpenStart \/ OpenFile
  \/ CloseSet \/ CloseNotify \/ CloseJoin \/ CloseWipe \/ CloseFile
  \/ WriteEnter(Ctl) \/ WriteStep(Ctl)

-----------------------------------------------------------------------------
(* The process dies: of itself, killed by the system, or because a thread  *)
(* used log_buff_ after Close deleted it (WriteSync). The mapped block and *)
(* the file survive, stdio buffers and heap memory do not.                 *)

Crash ==
  /\ pc[Ctl] # "down"
  /\ restarts < MaxRestarts
  /\ restarts' = restarts + 1
  /\ lostInCrash' = lostInCrash \cup InChunks \cup BlockRecs(fbuf) \cup block["heap"].recs
  /\ pc' = [t \in Threads |-> IF t = Ctl THEN "down" ELSE IF t = Async THEN "off" ELSE "idle"]
  /\ after' = "open"
  /\ log_close_' = TRUE
  /\ log_buff_' = Null
  /\ block' = [block EXCEPT !["heap"] = Empty]
  /\ chunk' = [t \in Threads |-> Empty]
  /\ fbuf' = <<>>
  /\ s_seq' = 0
  /\ owedFlush' = [c \in Callers |-> {}]
  /\ owedClose' = {}
  /\ parked' = FALSE
  /\ UNCHANGED <<mode, file, accepted, nwrites, lostInClose, heaped>>

-----------------------------------------------------------------------------
Init ==
  /\ pc = [t \in Threads |-> IF t = Ctl THEN "down" ELSE IF t = Async THEN "off" ELSE "idle"]
  /\ after = "open"
  /\ mode = "async"
  /\ log_close_ = TRUE
  /\ log_buff_ = Null
  /\ block = [s \in Stores |-> Empty]
  /\ chunk = [t \in Threads |-> Empty]
  /\ fbuf = <<>> /\ file = <<>>
  /\ s_seq = 0 /\ accepted = 0 /\ nwrites = 0 /\ restarts = 0
  /\ lostInCrash = {} /\ lostInClose = {} /\ heaped = FALSE
  /\ owedFlush = [c \in Callers |-> {}]
  /\ owedClose = {} /\ parked = FALSE

Next ==
  \/ \E w \in Writers : WriteEnter(w) \/ WriteStep(w)
  \/ \E c \in Callers : \/ Flush(c) \/ FlushSync(c) \/ CallerStep(c)
                         \/ \E m \in Modes : SetModeStore(c, m)
  \/ AsyncStep
  \/ Open \/ Close \/ CtlStep
  \/ Crash

Spec == Init /\ [][Next]_vars

\* Every thread that is inside an operation is scheduled again, and the
\* timed wait of the writer thread ends. Nothing has to be called.
Fairness ==
  /\ WF_vars(AsyncStep)
  /\ WF_vars(CtlStep)
  /\ \A w \in Writers : WF_vars(WriteStep(w))
  /\ \A c \in Callers : WF_vars(CallerStep(c))

FairSpec == Spec /\ Fairness

-----------------------------------------------------------------------------
(* Properties.                                                             *)

Blocks == [seq : 0 .. SeqMod - 1, recs : SUBSET Nat, len : Nat]

WriteLabels == {"w_dispatch", "w_async", "w_sync", "w_file"}
CallerLabels == {"f_take", "f_file", "f_return", "m_start"}
AsyncLabels == {"off", "top", "a_file", "a_check", "a_wait", "wait", "ended"}
CtlLabels   == WriteLabels \cup
  {"down", "o_start", "o_file", "w_enter", "open", "c_set", "c_notify",
   "c_join", "c_wipe", "c_file", "closed"}

Labels == {"idle"} \cup CallerLabels \cup AsyncLabels \cup CtlLabels
LabelsOf(t) == IF t \in Writers THEN {"idle"} \cup WriteLabels
               ELSE IF t \in Callers THEN {"idle"} \cup CallerLabels
               ELSE IF t = Async THEN AsyncLabels ELSE CtlLabels

\* Every variable has its type, and every thread is somewhere in an operation
\* it may run: only Ctl opens and closes, only Async runs the loop.
TypeOK ==
  /\ pc \in [Threads -> Labels] /\ \A t \in Threads : pc[t] \in LabelsOf(t)
  /\ after \in {"open", "c_set"}
  /\ mode \in {"sync", "async"} /\ log_close_ \in BOOLEAN
  /\ log_buff_ \in Stores \cup {Null}
  /\ block \in [Stores -> Blocks] /\ chunk \in [Threads -> Blocks]
  /\ fbuf \in Seq(Blocks) /\ file \in Seq(Blocks)
  /\ s_seq \in 0 .. SeqMod - 1
  /\ accepted \in Nat /\ nwrites \in Nat /\ restarts \in Nat
  /\ lostInCrash \in SUBSET Nat /\ lostInClose \in SUBSET Nat
  /\ heaped \in BOOLEAN
  /\ owedFlush \in [Callers -> SUBSET Nat] /\ owedClose \in SUBSET Nat
  /\ parked \in BOOLEAN

\* The ways a record can have gone.
Places == <<InBuffers, InChunks, BlockRecs(fbuf), BlockRecs(file),
            lostInCrash, lostInClose>>

\* Every accepted record is in exactly one place: the current or left-over
\* block, the hands of one thread, the stdio buffer, the file, or among what
\* a crash or Close destroyed. No hand-over between Write, FlushSync, the
\* writer thread, Open and Close drops a record or delivers it twice.
ExactlyOnce ==
  /\ Records = UNION {Places[i] : i \in 1 .. 6}
  /\ \A i, j \in 1 .. 6 : i # j => Places[i] \cap Places[j] = {}
  /\ block["mmap"].recs \cap block["heap"].recs = {}
  /\ \A t, u \in Threads : t # u => chunk[t].recs \cap chunk[u].recs = {}
  /\ LET all == file \o fbuf IN
       \A i, j \in 1 .. Len(all) : i # j => all[i].recs \cap all[j].recs = {}

\* Records in the block of an open appender always have a writer thread to
\* come for them, whatever SetMode did, except inside SetMode itself.
BufferServed ==
  (log_buff_ # Null /\ ~log_close_ /\ block[log_buff_].len > 0)
    => AsyncRunning \/ \E c \in Callers : pc[c] = "m_start"

\* Close destroys nothing that was pending when it set log_close_, if the
\* writer thread had not yet started its last flush at that moment.
CloseKeepsParked ==
  (pc[Ctl] = "closed" /\ parked) => owedClose \cap lostInClose = {}

\* Once FlushSync is past its critical section, nothing that was pending when
\* it was called is left in the block the appender writes to.
FlushSyncEmptiesBuffer ==
  \A c \in Callers : pc[c] \in {"f_file", "f_return"} =>
    (log_buff_ # Null => owedFlush[c] \cap block[log_buff_].recs = {})

\* The blocks in the file that came out of the buffer; synchronous ones have
\* no sequence number.
Buffered(bs) == {i \in 1 .. Len(bs) : bs[i].seq # 0}

\* i and j are two of them in turn.
InTurn(bs, i, j) == i < j /\ \A k \in Buffered(bs) : k <= i \/ j <= k

\* Without FlushSync callers the file holds the buffered records in the order
\* in which they were accepted, across crashes, the recovery of the mapped
\* block and crashes during that, as long as every Open found its mapping: a
\* block that waits in the mapped file while a process works on the heap comes
\* behind what is younger.
FileInOrder ==
  ~heaped => LET all == file \o fbuf IN
    \A i, j \in Buffered(all) : i < j =>
      \A r \in all[i].recs, s \in all[j].recs : r < s

\* The decoding script's "log seq:%d-%d is missing" between two blocks in turn.
ReportsMissing(b, c) == c.seq # 1 /\ c.seq # b.seq + 1

\* Under the same conditions the decoder reports missing sequence numbers only
\* if a crash or Close did destroy records.
MissingIsReal ==
  ~heaped /\ lostInCrash \cup lostInClose = {} =>
    \A i, j \in Buffered(file) : InTurn(file, i, j) => ~ReportsMissing(file[i], file[j])

\* FlushSync: what was pending at the call is in the file at its return.
FlushSyncCompletes ==
  \A c \in Callers : pc[c] = "f_return" => owedFlush[c] \subseteq BlockRecs(file)

\* Close: what was pending when it started is in the file when it is done.
CloseFlushes ==
  pc[Ctl] = "closed" => owedClose \subseteq BlockRecs(file)

\* The records a run can accept: a header line of each Open, a mark line of
\* each Close and what the Writers write.
RecordNumbers == 1 .. MaxWrites + 2 * (MaxRestarts + 1)

\* A record that is in the block of an appender reaches the log file, in sync
\* mode its stdio buffer, unless Close wipes the block or the process dies
\* first, although every notification may be missed: the wait of the writer
\* thread is timed. That holds for the header line of Open, the application's
\* records and the mark line of Close.
Drained ==
  \A r \in RecordNumbers :
    (log_buff_ # Null /\ r \in block[log_buff_].recs)
      ~> (r \in BlockRecs(file \o fbuf) \cup lostInClose \/ pc[Ctl] = "down")

\* Close comes to its end: the join of the writer thread does not hang.
CloseTerminates == (pc[Ctl] = "c_set") ~> (pc[Ctl] \in {"closed", "down"})

\* The appender implements the promise of LogStore.
Promise == INSTANCE LogStore WITH
  pending <- Pending, stored <- BlockRecs(file),
  lost <- lostInCrash \cup lostInClose, up <- (log_buff_ # Null)

ImplementsLogStore == Promise!Spec
=============================================================================
