------------------------- MODULE AppenderOwedProofs -------------------------
(***************************************************************************)
(* What the appender owes to its callers, as theorems for any number of    *)
(* writers: FlushSyncEmptiesBuffer and CloseKeepsParked, which rest on one *)
(* observation (what is owed was pending when the call began, and apart    *)
(* from Open no step puts an old record into the block), and BufferServed. *)
(* And what it owes to the reader of its files: FileInOrder and            *)
(* MissingIsReal, as long as nobody calls FlushSync.                       *)
(***************************************************************************)
EXTENDS XloggerAppenderProofs

\* What a call owes has been accepted before.
OwedKnown ==
  /\ \A c \in Callers : owedFlush[c] \subseteq 1 .. accepted
  /\ owedClose \subseteq 1 .. accepted

\* The labels at which the writer thread has its next flush ahead of it.
Ahead == {"a_wait", "wait", "top"}

\* What a Close that found the writer thread there owes is safe: once the
\* writer thread has flushed, nothing of it is in the block.
BlockPaid == owedClose \cap block[log_buff_].recs = {}

CloseOwes ==
  parked =>
    /\ pc[Ctl] \in {"c_notify", "c_join", "c_wipe", "c_file", "closed"} =>
         owedClose \cap lostInClose = {}
    /\ pc[Ctl] \in {"c_notify", "c_join"} => pc[Async] \in Ahead \/ BlockPaid
    /\ pc[Ctl] = "c_wipe" => BlockPaid

OwedInv == OwedKnown /\ FlushSyncEmptiesBuffer /\ CloseOwes

-----------------------------------------------------------------------------
(* What the block takes in.                                                *)

\* Old records only leave the block.
OldLeave ==
  log_buff_' # Null =>
    /\ log_buff_' = log_buff_
    /\ block'[log_buff_].recs \cap (1 .. accepted) \subseteq block[log_buff_].recs

LEMMA TakeLeaves ==
  ASSUME DataOK, NEW t \in Threads, log_buff_ # Null, TakeBlock(t), log_buff_' = log_buff_
  PROVE  OldLeave /\ block'[log_buff_].recs = {}
<1>1. block'[log_buff_] = Empty
  BY DEF DataOK, TakeBlock
<1> QED
  BY <1>1 DEF Empty, OldLeave

LEMMA WriteLeaves ==
  ASSUME DataOK, NEW t \in Threads, WriteAsync(t)
  PROVE  OldLeave
<1> DEFINE b == block[log_buff_]
<1>1. PICK rs \in {{}, {accepted + 1}} :
        block' = [block EXCEPT ![log_buff_] = BufferWrite(b, rs)]
  BY DEF WriteAsync
<1>2. block'[log_buff_].recs = b.recs \cup rs /\ log_buff_' = log_buff_
  BY <1>1 DEF WriteAsync, config, DataOK, BufferWrite
<1>3. rs \cap (1 .. accepted) = {}
  BY DEF DataOK
<1> QED
  BY <1>2, <1>3 DEF OldLeave

LEMMA OldLeaveNext ==
  ASSUME AppenderInv, [Next]_vars, ~Open
  PROVE  OldLeave
<1>1. DataOK
  BY DEF AppenderInv, TypeInv
<1>2. ASSUME UNCHANGED <<block, log_buff_>>
      PROVE  OldLeave
  BY <1>2 DEF OldLeave
<1>3. ASSUME log_buff_' = Null
      PROVE  OldLeave
  BY <1>3 DEF OldLeave
<1>4. ASSUME NEW t \in Writers \cup {Ctl}, WriteEnter(t) \/ WriteStep(t)
      PROVE  OldLeave
  <2>1. CASE WriteAsync(t)
    BY <1>1, <2>1, WriteLeaves, ThreadFacts
  <2>2. CASE ~WriteAsync(t)
    BY <1>2, <1>4, <2>2 DEF WriteEnter, WriteStep, WriteDispatch, WriteAsyncRefused, WriteSync,
                            WriteSyncFile, Move, data, config, memory
  <2> QED
    BY <2>1, <2>2
<1>5. ASSUME NEW c \in Callers,
             Flush(c) \/ FlushSync(c) \/ CallerStep(c) \/ \E m \in Modes : SetModeStore(c, m)
      PROVE  OldLeave
  <2>1. CASE FlushSyncTake(c)
    BY <1>1, <2>1, TakeLeaves, ThreadFacts DEF FlushSyncTake, config
  <2>2. CASE ~FlushSyncTake(c)
    BY <1>2, <1>5, <2>2
       DEF CallerStep, Flush, FlushSync, FlushSyncClosed, FlushSyncFile, FlushSyncReturn,
           SetModeStart, SetModeStore, data, config, memory
  <2> QED
    BY <2>1, <2>2
<1>6. CASE AsyncStep
  <2>1. CASE AsyncTake
    BY <1>1, <2>1, TakeLeaves, ThreadFacts DEF AsyncTake, config
  <2>2. CASE ~AsyncTake
    BY <1>2, <1>6, <2>2 DEF AsyncStep, AsyncNoBuffer, AsyncFile, AsyncCheck, AsyncWait,
                            AsyncTimeout, Move, data, config, memory
  <2> QED
    BY <2>1, <2>2
<1>7. CASE Close \/ CtlStep
  <2>1. CASE CloseWipe
    BY <1>3, <2>1 DEF CloseWipe
  <2>2. CASE Close \/ OpenStart \/ OpenFile \/ CloseSet \/ CloseNotify \/ CloseJoin \/ CloseFile
    BY <1>2, <2>2 DEF Close, OpenStart, OpenFile, CloseSet, CloseNotify, CloseJoin, CloseFile,
                      Move, data, config, memory
  <2> QED
    BY <1>4, <1>7, <2>1, <2>2 DEF CtlStep
<1>8. CASE Crash
  BY <1>3, <1>8 DEF Crash
<1>9. CASE UNCHANGED vars
  BY <1>2, <1>9 DEF vars, data, config, memory
<1> QED
  BY <1>4, <1>5, <1>6, <1>7, <1>8, <1>9 DEF Next

-----------------------------------------------------------------------------
(* What is owed is old.                                                    *)

LEMMA PendingKnown ==
  ASSUME AppenderInv
  PROVE  Pending \subseteq 1 .. accepted /\ Pending \cap lostInClose = {}
<1>1. TypeInv /\ Account
  BY DEF AppenderInv
<1>2. Split(InBuffers, InChunks, BlockRecs(Written), lostInCrash, lostInClose, accepted)
  BY <1>1 DEF Account
<1>3. Pending \subseteq InBuffers \cup InChunks \cup BlockRecs(Written)
  BY <1>1, AccountType DEF Pending
<1> QED
  BY <1>2, <1>3 DEF Split

\* What a step may do to the debts.
OwedChange ==
  /\ \A c \in Callers : owedFlush'[c] \in {owedFlush[c], Pending, {}}
  /\ owedClose' \in {owedClose, Pending, {}}
  /\ accepted' \in {accepted, accepted + 1}

LEMMA OwedChangeNext ==
  ASSUME DataOK, [Next]_vars
  PROVE  OwedChange
<1>1. ASSUME UNCHANGED owed, accepted' \in {accepted, accepted + 1}
      PROVE  OwedChange
  BY <1>1 DEF owed, OwedChange
<1>2. ASSUME NEW t \in Threads, WriteEnter(t) \/ WriteStep(t)
      PROVE  OwedChange
  BY <1>1, <1>2 DEF WriteEnter, WriteStep, WriteDispatch, WriteAsyncRefused, WriteAsync, WriteSync,
                    WriteSyncFile, Move, data, counts
<1>3. ASSUME NEW c \in Callers,
             Flush(c) \/ FlushSync(c) \/ CallerStep(c) \/ \E m \in Modes : SetModeStore(c, m)
      PROVE  OwedChange
  <2>1. CASE FlushSync(c) \/ FlushSyncClosed(c) \/ FlushSyncReturn(c)
    BY <2>1 DEF FlushSync, FlushSyncClosed, FlushSyncReturn, counts, OwedChange, DataOK
  <2>2. CASE ~(FlushSync(c) \/ FlushSyncClosed(c) \/ FlushSyncReturn(c))
    BY <1>1, <1>3, <2>2 DEF CallerStep, Flush, FlushSyncTake, FlushSyncFile, SetModeStart,
                            SetModeStore, data, counts
  <2> QED
    BY <2>1, <2>2
<1>4. CASE AsyncStep
  BY <1>1, <1>4 DEF AsyncStep, AsyncNoBuffer, AsyncTake, AsyncFile, AsyncCheck, AsyncWait,
                    AsyncTimeout, Move, data, counts
<1>5. CASE Open \/ Close \/ CtlStep
  <2>1. CASE CloseSet
    BY <2>1 DEF CloseSet, counts, OwedChange
  <2>2. CASE \/ Open \/ OpenStart \/ OpenFile \/ Close
             \/ CloseNotify \/ CloseJoin \/ CloseWipe \/ CloseFile
    BY <1>1, <2>2 DEF Open, OpenStart, OpenFile, Close, CloseNotify, CloseJoin, CloseWipe,
                      CloseFile, Move, data, counts
  <2> QED
    BY <1>2, <1>5, <2>1, <2>2, ThreadFacts DEF CtlStep
<1>6. CASE Crash
  BY <1>6 DEF Crash, OwedChange
<1>7. CASE UNCHANGED vars
  BY <1>1, <1>7 DEF vars, data, counts
<1> QED
  BY <1>2, <1>3, <1>4, <1>5, <1>6, <1>7, ThreadFacts DEF Next

LEMMA OwedKnownNext ==
  ASSUME AppenderInv, OwedKnown, [Next]_vars
  PROVE  OwedKnown'
<1>1. accepted \in Nat /\ OwedChange
  BY OwedChangeNext DEF AppenderInv, TypeInv, DataOK
<1>2. 1 .. accepted \subseteq 1 .. accepted'
  BY <1>1 DEF OwedChange
<1>3. Pending \subseteq 1 .. accepted
  BY PendingKnown
<1> QED
  BY <1>1, <1>2, <1>3 DEF OwedKnown, OwedChange

-----------------------------------------------------------------------------
(* FlushSync.                                                              *)

LEMMA OthersStay ==
  ASSUME PcOK, NEW t \in Threads, NEW u \in Threads \ {t, Async}
  PROVE  \A l : Goto(t, l) \/ GotoAndNotify(t, l) => pc'[u] = pc[u]
BY DEF PcOK, Goto, GotoAndNotify

\* A logging thread moves itself, and perhaps the writer thread.
LEMMA WriterMovesItself ==
  ASSUME PcOK, NEW t \in Threads, NEW u \in Threads \ {t, Async}, WriteEnter(t) \/ WriteStep(t)
  PROVE  pc'[u] = pc[u]
<1>1. \E l : Goto(t, l) \/ GotoAndNotify(t, l)
  BY DEF WriteEnter, WriteStep, WriteDispatch, WriteAsyncRefused, WriteAsync, WriteSync,
         WriteSyncFile, Move
<1> QED
  BY <1>1, OthersStay

\* So does one that flushes or sets the mode.
LEMMA CallerMovesItself ==
  ASSUME PcOK, NEW c \in Callers, NEW u \in Threads \ {c, Async},
         Flush(c) \/ FlushSync(c) \/ CallerStep(c) \/ \E m \in Modes : SetModeStore(c, m)
  PROVE  pc'[u] = pc[u]
<1>1. CASE SetModeStart(c)
  BY <1>1 DEF SetModeStart, GotoAndNotify, PcOK
<1>2. CASE ~SetModeStart(c)
  <2>1. \E l : Goto(c, l) \/ GotoAndNotify(c, l)
    BY <1>2 DEF CallerStep, Flush, FlushSync, FlushSyncClosed, FlushSyncTake, FlushSyncFile,
                FlushSyncReturn, SetModeStore
  <2> QED
    BY <2>1, OthersStay, ThreadFacts
<1> QED
  BY <1>1, <1>2

\* The only way past the critical section of FlushSync is through it.
LEMMA PastTheSection ==
  ASSUME AppenderInv, [Next]_vars, NEW c \in Callers, pc'[c] \in {"f_file", "f_return"}
  PROVE  \/ FlushSyncTake(c)
         \/ pc[c] \in {"f_file", "f_return"} /\ owedFlush'[c] = owedFlush[c]
<1> DEFINE Stays == pc'[c] = pc[c] /\ owedFlush'[c] = owedFlush[c]
<1>1. PcOK /\ DataOK /\ c \in Threads /\ c # Async /\ c # Ctl /\ c \notin Writers
  BY ThreadFacts DEF AppenderInv, TypeInv
<1>2. ASSUME NEW t \in Writers \cup {Ctl}, WriteEnter(t) \/ WriteStep(t)
      PROVE  Stays
  <2>1. t \in Threads /\ t # c
    BY <1>1, ThreadFacts
  <2>2. UNCHANGED owed
    BY <1>2 DEF WriteEnter, WriteStep, WriteDispatch, WriteAsyncRefused, WriteAsync, WriteSync,
                WriteSyncFile, Move, data
  <2> QED
    BY <1>1, <1>2, <2>1, <2>2, WriterMovesItself DEF owed
<1>3. ASSUME NEW d \in Callers \ {c},
             Flush(d) \/ FlushSync(d) \/ CallerStep(d) \/ \E m \in Modes : SetModeStore(d, m)
      PROVE  Stays
  <2>1. owedFlush'[c] = owedFlush[c]
    BY <1>1, <1>3
       DEF CallerStep, Flush, FlushSync, FlushSyncClosed, FlushSyncTake, FlushSyncFile,
           FlushSyncReturn, SetModeStart, SetModeStore, data, owed, DataOK
  <2> QED
    BY <1>1, <1>3, <2>1, CallerMovesItself
<1>4. ASSUME Flush(c) \/ FlushSync(c) \/ CallerStep(c) \/ \E m \in Modes : SetModeStore(c, m),
             ~FlushSyncTake(c)
      PROVE  pc[c] \in {"f_file", "f_return"} /\ owedFlush'[c] = owedFlush[c]
  <2>1. CASE FlushSyncFile(c)
    BY <2>1 DEF FlushSyncFile, owed
  <2>2. CASE ~FlushSyncFile(c)
    <3>1. pc'[c] \in {"idle", "f_take", "m_start"}
      BY <1>1, <1>4, <2>2
         DEF PcOK, Goto, GotoAndNotify, CallerStep, Flush, FlushSync, FlushSyncClosed,
             FlushSyncReturn, SetModeStart, SetModeStore
    <3> QED
      BY <3>1
  <2> QED
    BY <2>1, <2>2
<1>5. CASE AsyncStep
  <2>1. \/ \E l : Goto(Async, l)
        \/ GotoEnd
    BY <1>5 DEF AsyncStep, AsyncNoBuffer, AsyncTake, AsyncFile, AsyncCheck, AsyncWait,
                AsyncTimeout, Move
  <2>2. pc'[c] = pc[c]
    BY <1>1, <2>1 DEF PcOK, Goto, GotoEnd
  <2>3. UNCHANGED owed
    BY <1>5 DEF AsyncStep, AsyncNoBuffer, AsyncTake, AsyncFile, AsyncCheck, AsyncWait,
                AsyncTimeout, Move, data
  <2> QED
    BY <2>2, <2>3 DEF owed
<1>6. CASE Open \/ Close \/ CtlStep
  <2>1. CASE WriteEnter(Ctl) \/ WriteStep(Ctl)
    BY <1>2, <2>1
  <2>2. CASE OpenStart
    BY <1>1, <2>2 DEF OpenStart, PcOK, owed
  <2>3. CASE Open \/ OpenFile \/ Close \/ CloseSet \/ CloseNotify \/ CloseJoin \/ CloseWipe \/ CloseFile
    <3>1. \E l : Goto(Ctl, l) \/ GotoAndNotify(Ctl, l)
      BY <2>3 DEF Open, OpenFile, Close, CloseSet, CloseNotify, CloseJoin, CloseWipe, CloseFile, Move
    <3>2. UNCHANGED owedFlush
      BY <2>3 DEF Open, OpenFile, Close, CloseSet, CloseNotify, CloseJoin, CloseWipe, CloseFile,
                  Move, data, owed
    <3> QED
      BY <1>1, <3>1, <3>2, OthersStay, ThreadFacts
  <2> QED
    BY <1>6, <2>1, <2>2, <2>3 DEF CtlStep
<1>7. CASE Crash
  BY <1>1, <1>7 DEF Crash
<1>8. CASE UNCHANGED vars
  BY <1>8 DEF vars, data, owed
<1> QED
  BY <1>2, <1>3, <1>4, <1>5, <1>6, <1>7, <1>8 DEF Next

LEMMA FlushPaidNext ==
  ASSUME AppenderInv, OwedKnown, FlushSyncEmptiesBuffer, [Next]_vars
  PROVE  FlushSyncEmptiesBuffer'
<1>1. DataOK /\ NotStarted
  BY DEF AppenderInv, TypeInv
<1> SUFFICES ASSUME NEW c \in Callers, pc'[c] \in {"f_file", "f_return"}, log_buff_' # Null
             PROVE  owedFlush'[c] \cap block'[log_buff_'].recs = {}
  BY DEF FlushSyncEmptiesBuffer
<1>2. c \in Threads \ {Ctl}
  BY ThreadFacts
<1>3. CASE FlushSyncTake(c)
  <2>1. log_buff_' = log_buff_ /\ block'[log_buff_].recs = {}
    BY <1>1, <1>2, <1>3, TakeLeaves DEF FlushSyncTake, config
  <2> QED
    BY <2>1
<1>4. CASE ~FlushSyncTake(c)
  <2>1. pc[c] \in {"f_file", "f_return"} /\ owedFlush'[c] = owedFlush[c]
    BY <1>4, PastTheSection
  <2>2. ~Open
    BY <1>1, <1>2, <2>1 DEF Open, NotStarted
  <2>3. OldLeave
    BY <2>2, OldLeaveNext
  <2> QED
    BY <2>1, <2>3 DEF OldLeave, OwedKnown, FlushSyncEmptiesBuffer
<1> QED
  BY <1>3, <1>4

-----------------------------------------------------------------------------
(* Close.                                                                  *)

\* A step of a thread that does not close leaves Close where it is and the
\* writer thread's next flush ahead of it, if it was.
LEMMA CloseUndisturbed ==
  ASSUME AppenderInv, OwedKnown, CloseOwes, OldLeave, pc'[Ctl] = pc[Ctl],
         pc[Async] \in Ahead => pc'[Async] \in Ahead,
         UNCHANGED <<owedClose, parked, lostInClose, log_buff_>>
  PROVE  CloseOwes'
<1>1. log_buff_ # Null /\ BlockPaid => BlockPaid'
  BY DEF OldLeave, OwedKnown, BlockPaid
<1>2. pc[Ctl] \in {"c_notify", "c_join", "c_wipe"} => log_buff_ # Null
  BY DEF AppenderInv, TypeInv, BufferThere
<1> QED
  BY <1>1, <1>2 DEF CloseOwes

LEMMA CloseOwesWriter ==
  ASSUME AppenderInv, OwedKnown, CloseOwes, [Next]_vars, OldLeave,
         NEW w \in Writers, WriteEnter(w) \/ WriteStep(w)
  PROVE  CloseOwes'
<1>1. PcOK /\ w \in Threads /\ w # Ctl /\ w # Async /\ Ctl \in Threads \ {Async} /\ Async \in Threads
  BY ThreadFacts DEF AppenderInv, TypeInv
<1>2. pc'[Ctl] = pc[Ctl]
  BY <1>1, WriterMovesItself
<1>3. pc[Async] \in Ahead => pc'[Async] \in Ahead
  <2>1. \E l : Goto(w, l) \/ GotoAndNotify(w, l)
    BY DEF WriteEnter, WriteStep, WriteDispatch, WriteAsyncRefused, WriteAsync, WriteSync,
           WriteSyncFile, Move
  <2> QED
    BY <1>1, <2>1 DEF Goto, GotoAndNotify, PcOK, Ahead
<1>4. UNCHANGED <<owed, lost, log_buff_>>
  BY DEF WriteEnter, WriteStep, WriteDispatch, WriteAsyncRefused, WriteAsync, WriteSync,
         WriteSyncFile, Move, data, config
<1> QED
  BY <1>2, <1>3, <1>4, CloseUndisturbed DEF owed, lost

LEMMA CloseOwesCaller ==
  ASSUME AppenderInv, OwedKnown, CloseOwes, [Next]_vars, OldLeave, NEW c \in Callers,
         Flush(c) \/ FlushSync(c) \/ CallerStep(c) \/ \E m \in Modes : SetModeStore(c, m)
  PROVE  CloseOwes'
<1>1. PcOK /\ c \in Threads /\ c # Ctl /\ c # Async /\ Ctl \in Threads \ {Async} /\ Async \in Threads
  BY ThreadFacts DEF AppenderInv, TypeInv
<1>2. pc'[Ctl] = pc[Ctl]
  BY <1>1, CallerMovesItself
<1>3. pc[Async] \in Ahead => pc'[Async] \in Ahead
  <2>1. CASE SetModeStart(c)
    BY <1>1, <2>1 DEF SetModeStart, GotoAndNotify, PcOK, Ahead
  <2>2. CASE ~SetModeStart(c)
    <3>1. \E l : Goto(c, l) \/ GotoAndNotify(c, l)
      BY <2>2 DEF CallerStep, Flush, FlushSync, FlushSyncClosed, FlushSyncTake, FlushSyncFile,
                  FlushSyncReturn, SetModeStore
    <3> QED
      BY <1>1, <3>1 DEF Goto, GotoAndNotify, PcOK, Ahead
  <2> QED
    BY <2>1, <2>2
<1>4. UNCHANGED <<owedClose, parked, lostInClose, log_buff_>>
  BY DEF CallerStep, Flush, FlushSync, FlushSyncClosed, FlushSyncTake, FlushSyncFile,
         FlushSyncReturn, SetModeStart, SetModeStore, data, config, owed, lost
<1> QED
  BY <1>2, <1>3, <1>4, CloseUndisturbed

\* The writer thread pays with its flush, and cannot end without one.
LEMMA CloseOwesAsync ==
  ASSUME AppenderInv, OwedKnown, CloseOwes, [Next]_vars, OldLeave, AsyncStep
  PROVE  CloseOwes'
<1>1. PcOK /\ DataOK /\ Ctl \in Threads /\ Async \in Threads /\ Ctl # Async
  BY ThreadFacts DEF AppenderInv, TypeInv
<1>2. UNCHANGED <<owedClose, parked, lostInClose, log_buff_>>
  BY DEF AsyncStep, AsyncNoBuffer, AsyncTake, AsyncFile, AsyncCheck, AsyncWait, AsyncTimeout,
         Move, data, config, owed, lost
<1>3. CASE AsyncTake
  <2>1. block'[log_buff_].recs = {}
    BY <1>1, <1>2, <1>3, TakeLeaves DEF AsyncTake
  <2>2. BlockPaid'
    BY <1>2, <2>1 DEF BlockPaid
  <2>3. pc'[Ctl] = pc[Ctl]
    BY <1>1, <1>3 DEF AsyncTake, Goto, PcOK
  <2> QED
    BY <1>2, <2>2, <2>3 DEF CloseOwes
<1>4. CASE AsyncFile \/ AsyncWait \/ AsyncTimeout
  BY <1>1, <1>2, <1>4, CloseUndisturbed DEF AsyncFile, AsyncWait, AsyncTimeout, Move, Goto, PcOK, Ahead
<1>5. CASE AsyncNoBuffer
  <2>1. pc[Ctl] \in {"down", "c_file", "closed"}
    BY <1>5 DEF AsyncNoBuffer, AppenderInv, TypeInv, BufferThere
  <2>2. pc'[Ctl] = pc[Ctl]
    BY <1>1, <1>5, <2>1, GotoEndType DEF AsyncNoBuffer
  <2> QED
    BY <1>2, <2>1, <2>2 DEF CloseOwes
<1>6. CASE AsyncCheck
  <2>1. pc[Async] \notin Ahead
    BY <1>6 DEF AsyncCheck, Ahead
  <2>2. BlockPaid => BlockPaid'
    BY <1>2, <1>6 DEF AsyncCheck, data, memory, BlockPaid
  <2>3. CASE log_close_
    <3>1. pc'[Ctl] = IF pc[Ctl] = "c_join" THEN "c_wipe" ELSE pc[Ctl]
      BY <1>1, <1>6, <2>3, GotoEndType DEF AsyncCheck
    <3> QED
      BY <1>2, <2>1, <2>2, <3>1 DEF CloseOwes
  <2>4. CASE ~log_close_
    BY <1>1, <1>2, <1>6, <2>1, <2>4, CloseUndisturbed DEF AsyncCheck, Goto, PcOK
  <2> QED
    BY <2>3, <2>4
<1> QED
  BY <1>3, <1>4, <1>5, <1>6 DEF AsyncStep

\* The labels of Close once it has set log_close_.
Closing == {"c_notify", "c_join", "c_wipe", "c_file", "closed"}

LEMMA CloseOwesCtl ==
  ASSUME AppenderInv, OwedKnown, CloseOwes, [Next]_vars, Open \/ Close \/ CtlStep
  PROVE  CloseOwes'
<1>1. PcOK /\ DataOK /\ Ctl \in Threads /\ Async \in Threads /\ Ctl # Async
  BY ThreadFacts DEF AppenderInv, TypeInv
<1>2. ASSUME pc'[Ctl] \notin Closing
      PROVE  CloseOwes'
  BY <1>2 DEF CloseOwes, Closing
<1>3. CASE Open \/ OpenStart \/ OpenFile \/ Close
  <2>1. pc'[Ctl] \in {"o_start", "o_file", "w_enter"}
    BY <1>1, <1>3 DEF Open, OpenStart, OpenFile, Close, Goto, PcOK
  <2> QED
    BY <1>2, <2>1 DEF Closing
<1>4. CASE WriteEnter(Ctl) \/ WriteStep(Ctl)
  <2>1. Return(Ctl) \in {"open", "c_set"}
    BY <1>1 DEF Return, DataOK
  <2>2. \E l \in {"open", "c_set"} \cup WriteLabels : Goto(Ctl, l) \/ GotoAndNotify(Ctl, l)
    BY <1>4, <2>1 DEF WriteEnter, WriteStep, WriteDispatch, WriteAsyncRefused, WriteAsync,
                      WriteSync, WriteSyncFile, Move, WriteLabels
  <2>3. pc'[Ctl] \in {"open", "c_set"} \cup WriteLabels
    BY <1>1, <2>2 DEF Goto, GotoAndNotify, PcOK
  <2> QED
    BY <1>2, <2>3 DEF Closing, WriteLabels
<1>5. CASE CloseSet
  <2>1. /\ owedClose' = Pending /\ lostInClose' = lostInClose /\ pc'[Ctl] = "c_notify"
        /\ parked' => pc'[Async] \in Ahead
    BY <1>1, <1>5 DEF CloseSet, Goto, PcOK, lost, Ahead
  <2> QED
    BY <2>1, PendingKnown DEF CloseOwes
<1>6. CASE CloseNotify
  <2>1. /\ pc[Ctl] = "c_notify" /\ pc'[Ctl] = "c_join"
        /\ pc[Async] \in Ahead => pc'[Async] \in Ahead
        /\ UNCHANGED <<owedClose, parked, lostInClose, log_buff_, block>>
    BY <1>1, <1>6 DEF CloseNotify, GotoAndNotify, PcOK, Ahead, data, config, memory, owed, lost
  <2> QED
    BY <2>1 DEF CloseOwes, BlockPaid
<1>7. CASE CloseJoin
  <2>1. /\ pc[Ctl] = "c_join" /\ pc'[Ctl] = "c_wipe" /\ pc[Async] \notin Ahead
        /\ UNCHANGED <<owedClose, parked, lostInClose, log_buff_, block>>
    BY <1>1, <1>7 DEF CloseJoin, Move, Goto, PcOK, AsyncRunning, Ahead, data, config, memory,
                      owed, lost
  <2> QED
    BY <2>1 DEF CloseOwes, BlockPaid
<1>8. CASE CloseWipe
  <2>1. /\ pc[Ctl] = "c_wipe" /\ pc'[Ctl] = "c_file" /\ UNCHANGED <<owedClose, parked>>
        /\ lostInClose' = lostInClose \cup block[log_buff_].recs
    BY <1>1, <1>8 DEF CloseWipe, Goto, PcOK, owed
  <2> QED
    BY <2>1 DEF CloseOwes, BlockPaid
<1>9. CASE CloseFile
  <2>1. /\ pc[Ctl] = "c_file" /\ pc'[Ctl] = "closed"
        /\ UNCHANGED <<owedClose, parked, lostInClose>>
    BY <1>1, <1>9 DEF CloseFile, Goto, PcOK, owed, lost
  <2> QED
    BY <2>1 DEF CloseOwes
<1> QED
  BY <1>3, <1>4, <1>5, <1>6, <1>7, <1>8, <1>9 DEF CtlStep

-----------------------------------------------------------------------------
(* The theorems.                                                           *)

LEMMA OwedInvInit == Init => OwedInv
BY ThreadFacts DEF Init, OwedInv, OwedKnown, FlushSyncEmptiesBuffer, CloseOwes

LEMMA OwedInvNext == AppenderInv /\ OwedInv /\ [Next]_vars => OwedInv'
<1> SUFFICES ASSUME AppenderInv, OwedInv, [Next]_vars PROVE OwedInv'
  OBVIOUS
<1>1. OwedKnown' /\ FlushSyncEmptiesBuffer'
  BY OwedKnownNext, FlushPaidNext DEF OwedInv
<1>2. OwedKnown /\ CloseOwes
  BY DEF OwedInv
<1>3. CloseOwes'
  <2>1. CASE Open \/ Close \/ CtlStep
    BY <1>2, <2>1, CloseOwesCtl
  <2>2. CASE Crash
    BY <2>2 DEF Crash, CloseOwes
  <2>3. CASE UNCHANGED vars
    BY <1>2, <2>3 DEF vars, data, config, memory, owed, lost, CloseOwes, BlockPaid
  <2>4. CASE Next /\ ~Open /\ ~(Close \/ CtlStep \/ Crash)
    <3>1. OldLeave
      BY <2>4, OldLeaveNext
    <3> QED
      BY <1>2, <2>4, <3>1, CloseOwesWriter, CloseOwesCaller, CloseOwesAsync DEF Next
  <2> QED
    BY <2>1, <2>2, <2>3, <2>4
<1> QED
  BY <1>1, <1>3 DEF OwedInv

LEMMA OwedInvHolds == Spec => []OwedInv
<1>1. AppenderInv /\ OwedInv /\ [Next]_vars => OwedInv'
  BY OwedInvNext
<1> QED
  BY <1>1, OwedInvInit, AppenderInvHolds, PTL DEF Spec

\* Whatever is logged, flushed and switched meanwhile, a FlushSync past its
\* critical section has left nothing in the block that was pending when it
\* was called.
THEOREM FlushSyncEmpties == Spec => []FlushSyncEmptiesBuffer
<1>1. OwedInv => FlushSyncEmptiesBuffer
  BY DEF OwedInv
<1> QED
  BY <1>1, OwedInvHolds, PTL

\* A Close that found the writer thread before its flush destroys no record
\* that was pending at that moment.
THEOREM CloseKeeps == Spec => []CloseKeepsParked
<1>1. OwedInv => CloseKeepsParked
  BY DEF OwedInv, CloseOwes, CloseKeepsParked
<1> QED
  BY <1>1, OwedInvHolds, PTL

-----------------------------------------------------------------------------
(* BufferServed. Two threads that change the mode can undo each other: the *)
(* theorem is for one.                                                     *)

OneCaller == \A c, d \in Callers : c = d

Quiet ==
  /\ mode = "sync" /\ block[log_buff_].len = 0
  /\ \A t \in Writers \cup {Ctl} : pc[t] # "w_async"

Starting == mode = "async" /\ \E c \in Callers : pc[c] = "m_start"

ServedInv ==
  /\ pc[Ctl] \in {"down", "o_start"} \cup Closing => log_close_
  /\ pc[Ctl] = "o_start" => block[log_buff_].len = 0
  /\ ~log_close_ => AsyncRunning \/ Starting \/ Quiet

\* A step that leaves the flag, the mode and the block alone, keeps the
\* writer thread running and sends nobody to __WriteAsync.
LEMMA ServedUndisturbed ==
  ASSUME ServedInv, UNCHANGED <<log_close_, log_buff_, mode, block>>,
         pc'[Ctl] \in {"down", "o_start"} \cup Closing => pc'[Ctl] = pc[Ctl] \/ log_close_,
         pc'[Ctl] = "o_start" => pc[Ctl] = "o_start",
         AsyncRunning => AsyncRunning',
         \A t \in Writers \cup {Ctl} : pc'[t] = "w_async" => pc[t] = "w_async" \/ mode # "sync",
         \A c \in Callers : pc[c] = "m_start" => pc'[c] = "m_start"
  PROVE  ServedInv'
BY DEF ServedInv, Starting, Quiet

LEMMA ServedWrite ==
  ASSUME AppenderInv, ServedInv, NEW t \in Writers \cup {Ctl}, WriteEnter(t) \/ WriteStep(t)
  PROVE  ServedInv'
<1>1. /\ PcOK /\ DataOK /\ t \in Threads /\ t # Async /\ Async \in Threads /\ Ctl \in Threads
      /\ t \notin Callers /\ Ctl # Async
  BY ThreadFacts DEF AppenderInv, TypeInv
<1>2. t = Ctl => Return(t) \in {"open", "c_set"}
  BY <1>1 DEF Return, DataOK
<1>3. t # Ctl => Return(t) = "idle"
  BY DEF Return
<1>4. PICK l : /\ Goto(t, l) \/ GotoAndNotify(t, l)
               /\ l \in {Return(t), "w_dispatch", "w_async", "w_sync", "w_file"}
               /\ l = "w_async" => WriteDispatch(t)
  <2>1. Return(t) # "w_async"
    BY <1>2, <1>3
  <2>2. CASE WriteEnter(t)
    <3>1. \E l \in {Return(t), "w_dispatch"} : Goto(t, l)
      BY <2>2 DEF WriteEnter
    <3> QED
      BY <2>1, <3>1
  <2>3. CASE WriteDispatch(t)
    <3>1. \E l \in {"w_sync", "w_async"} : Goto(t, l)
      BY <2>3 DEF WriteDispatch, Move
    <3> QED
      BY <2>3, <3>1
  <2>4. CASE WriteAsyncRefused(t) \/ WriteAsync(t) \/ WriteSyncFile(t)
    <3>1. Goto(t, Return(t)) \/ GotoAndNotify(t, Return(t))
      BY <2>4 DEF WriteAsyncRefused, WriteAsync, WriteSyncFile, Move
    <3> QED
      BY <2>1, <3>1
  <2>5. CASE WriteSync(t)
    <3>1. Goto(t, "w_file")
      BY <2>5 DEF WriteSync
    <3> QED
      BY <3>1
  <2> QED
    BY <2>2, <2>3, <2>4, <2>5 DEF WriteStep
<1>5. /\ pc'[t] = l
      /\ \A u \in Threads \ {t, Async} : pc'[u] = pc[u]
      /\ AsyncRunning => AsyncRunning'
  BY <1>1, <1>4 DEF Goto, GotoAndNotify, PcOK, AsyncRunning
<1>6. \A u \in Callers \cup ((Writers \cup {Ctl}) \ {t}) : pc'[u] = pc[u]
  BY <1>1, <1>5, ThreadFacts
<1>7. t = Ctl => l \notin {"down", "o_start"} \cup Closing
  BY <1>2, <1>4 DEF Closing
<1>8. t # Ctl => pc'[Ctl] = pc[Ctl]
  BY <1>6
<1>9. UNCHANGED <<log_close_, log_buff_, mode>>
  BY DEF WriteEnter, WriteStep, WriteDispatch, WriteAsyncRefused, WriteAsync, WriteSync,
         WriteSyncFile, Move, data, config
<1>10. CASE WriteAsync(t)
  <2>1. pc[t] = "w_async" /\ pc[Ctl] \notin {"o_start"}
    BY <1>1, <1>10 DEF WriteAsync, AppenderInv, NotStarted
  <2>2. ~log_close_ => AsyncRunning \/ Starting
    BY <2>1 DEF ServedInv, Quiet
  <2>3. Starting => Starting'
    BY <1>6, <1>9 DEF Starting
  <2> QED
    BY <1>5, <1>7, <1>8, <1>9, <2>1, <2>2, <2>3 DEF ServedInv
<1>11. CASE ~WriteAsync(t)
  <2>1. block' = block
    BY <1>11 DEF WriteEnter, WriteStep, WriteDispatch, WriteAsyncRefused, WriteSync,
                 WriteSyncFile, Move, data, memory
  <2>2. pc'[t] = "w_async" => mode # "sync"
    BY <1>1, <1>4, <1>5 DEF WriteDispatch, Move, Goto, PcOK
  <2> QED
    BY <1>5, <1>6, <1>7, <1>8, <1>9, <2>1, <2>2, ServedUndisturbed
<1> QED
  BY <1>10, <1>11

LEMMA ServedCaller ==
  ASSUME AppenderInv, ServedInv, OneCaller, NEW c \in Callers,
         Flush(c) \/ FlushSync(c) \/ CallerStep(c) \/ \E m \in Modes : SetModeStore(c, m)
  PROVE  ServedInv'
<1>1. /\ PcOK /\ DataOK /\ c \in Threads /\ c # Async /\ c # Ctl /\ c \notin Writers
      /\ Async \in Threads /\ Ctl \in Threads /\ Ctl # Async
  BY ThreadFacts DEF AppenderInv, TypeInv
<1>2. \A u \in Writers \cup {Ctl} : pc'[u] = pc[u]
  BY <1>1, CallerMovesItself, ThreadFacts
<1>3. \A d \in Callers : d = c
  BY DEF OneCaller
<1>4. UNCHANGED <<log_close_, log_buff_>>
  BY DEF CallerStep, Flush, FlushSync, FlushSyncClosed, FlushSyncTake, FlushSyncFile,
         FlushSyncReturn, SetModeStart, SetModeStore, data, config
<1>5. CASE SetModeStart(c)
  <2>1. /\ mode' = mode /\ block' = block
        /\ mode = "async" \/ AsyncRunning => AsyncRunning'
    BY <1>1, <1>5 DEF SetModeStart, GotoAndNotify, PcOK, AsyncRunning, data, config, memory
  <2> QED
    BY <1>2, <1>4, <2>1 DEF ServedInv, Starting, Quiet
<1>6. ASSUME NEW m \in Modes, SetModeStore(c, m)
      PROVE  ServedInv'
  <2>1. /\ mode' = m /\ block' = block /\ pc'[c] = "m_start" /\ pc[c] = "idle"
        /\ pc'[Async] = pc[Async] /\ m \in {"sync", "async"}
    BY <1>1, <1>6, AppenderAssumption DEF SetModeStore, Goto, PcOK, memory
  <2>2. ~Starting
    BY <1>3, <2>1 DEF Starting
  <2>3. CASE m = "async"
    BY <1>2, <1>4, <2>1, <2>3 DEF ServedInv, Starting
  <2>4. CASE m = "sync"
    BY <1>2, <1>4, <2>1, <2>2, <2>4 DEF ServedInv, Quiet, AsyncRunning
  <2> QED
    BY <2>1, <2>3, <2>4
<1>7. CASE FlushSyncTake(c)
  <2>1. /\ mode' = mode /\ pc'[Async] = pc[Async] /\ pc[c] # "m_start"
        /\ log_buff_ \in Stores /\ block' = [block EXCEPT ![log_buff_] = Empty]
    BY <1>1, <1>7 DEF FlushSyncTake, TakeBlock, Goto, PcOK, config, DataOK
  <2>2. block'[log_buff_].len = 0
    BY <1>1, <2>1 DEF DataOK, Empty
  <2>3. ~Starting
    BY <1>3, <2>1 DEF Starting
  <2> QED
    BY <1>2, <1>4, <2>1, <2>2, <2>3 DEF ServedInv, Quiet, AsyncRunning
<1>8. CASE Flush(c) \/ FlushSync(c) \/ FlushSyncClosed(c) \/ FlushSyncFile(c) \/ FlushSyncReturn(c)
  <2>1. mode' = mode /\ block' = block /\ pc[c] # "m_start"
    BY <1>8 DEF Flush, FlushSync, FlushSyncClosed, FlushSyncFile, FlushSyncReturn, data, config,
                memory
  <2>2. \E l : Goto(c, l) \/ GotoAndNotify(c, l)
    BY <1>8 DEF Flush, FlushSync, FlushSyncClosed, FlushSyncFile, FlushSyncReturn
  <2>3. AsyncRunning => AsyncRunning'
    BY <1>1, <2>2 DEF Goto, GotoAndNotify, PcOK, AsyncRunning
  <2>4. ~Starting
    BY <1>3, <2>1 DEF Starting
  <2> QED
    BY <1>2, <1>4, <2>1, <2>3, <2>4 DEF ServedInv, Quiet
<1> QED
  BY <1>5, <1>6, <1>7, <1>8 DEF CallerStep

LEMMA ServedAsync ==
  ASSUME AppenderInv, ServedInv, AsyncStep
  PROVE  ServedInv'
<1>1. /\ PcOK /\ DataOK /\ Async \in Threads /\ Ctl \in Threads /\ Ctl # Async
      /\ \A u \in Writers \cup Callers : u \in Threads \ {Ctl, Async}
  BY ThreadFacts DEF AppenderInv, TypeInv
<1>2. UNCHANGED <<log_close_, log_buff_, mode>>
  BY DEF AsyncStep, AsyncNoBuffer, AsyncTake, AsyncFile, AsyncCheck, AsyncWait, AsyncTimeout,
         Move, data, config
<1>3. CASE AsyncNoBuffer \/ (AsyncCheck /\ log_close_)
  <2>1. log_close_
    BY <1>3 DEF AsyncNoBuffer, AppenderInv, TypeInv, BufferThere, ServedInv, Closing
  <2>2. pc'[Ctl] \in {"o_start"} => pc[Ctl] = "o_start"
    BY <1>1, <1>3, GotoEndType DEF AsyncNoBuffer, AsyncCheck
  <2>3. block' = block
    BY <1>3 DEF AsyncNoBuffer, AsyncCheck, data, memory
  <2> QED
    BY <1>2, <2>1, <2>2, <2>3 DEF ServedInv
<1>4. CASE AsyncTake
  <2>1. /\ pc'[Ctl] = pc[Ctl] /\ AsyncRunning' /\ block'[log_buff_].len = 0
    BY <1>1, <1>4 DEF AsyncTake, TakeBlock, Goto, PcOK, AsyncRunning, DataOK, Empty
  <2> QED
    BY <1>2, <2>1 DEF ServedInv
<1>5. CASE AsyncFile \/ (AsyncCheck /\ ~log_close_) \/ AsyncWait \/ AsyncTimeout
  <2>1. /\ pc'[Ctl] = pc[Ctl] /\ AsyncRunning' /\ block' = block
    BY <1>1, <1>5 DEF AsyncFile, AsyncCheck, AsyncWait, AsyncTimeout, Move, Goto, PcOK, AsyncRunning,
                      data, memory
  <2> QED
    BY <1>2, <2>1 DEF ServedInv
<1> QED
  BY <1>3, <1>4, <1>5 DEF AsyncStep

LEMMA ServedCtl ==
  ASSUME AppenderInv, ServedInv, Open \/ Close \/ CtlStep
  PROVE  ServedInv'
<1>1. /\ PcOK /\ DataOK /\ Async \in Threads /\ Ctl \in Threads /\ Ctl # Async
      /\ \A u \in Writers \cup Callers : u \in Threads \ {Ctl, Async}
  BY ThreadFacts DEF AppenderInv, TypeInv
<1>2. CASE Open
  <2>1. PICK s \in Stores : log_buff_' = s /\ block' = [block EXCEPT ![s] = Empty]
    BY <1>2, AppenderAssumption DEF Open
  <2>2. block'[log_buff_'].len = 0
    BY <1>1, <2>1 DEF DataOK, Empty
  <2>3. log_close_ /\ log_close_' = log_close_
    BY <1>2 DEF Open, ServedInv
  <2> QED
    BY <2>2, <2>3 DEF ServedInv
<1>3. CASE OpenStart
  <2>1. PICK m \in Modes :
          /\ mode' = m
          /\ pc' = [pc EXCEPT ![Ctl] = IF chunk[Ctl].len > 0 THEN "o_file" ELSE "w_enter",
                              ![Async] = IF m = "async" THEN "top" ELSE "off"]
    BY <1>3 DEF OpenStart
  <2>2. /\ pc'[Ctl] \in {"o_file", "w_enter"} /\ pc'[Async] = IF m = "async" THEN "top" ELSE "off"
        /\ \A t \in Writers : pc'[t] = pc[t]
    BY <1>1, <2>1 DEF PcOK
  <2>3. pc[Ctl] = "o_start" /\ block' = block /\ log_buff_' = log_buff_
    BY <1>3 DEF OpenStart, memory
  <2>4. block[log_buff_].len = 0 /\ \A t \in Writers : pc[t] \in {"idle", "off"}
    BY <1>1, <2>3 DEF ServedInv, AppenderInv, NotStarted
  <2>5. CASE m = "async"
    BY <2>2, <2>5 DEF ServedInv, AsyncRunning, Closing
  <2>6. CASE m # "async"
    <3>1. m = "sync"
      BY <2>6, AppenderAssumption
    <3>2. Quiet'
      BY <2>1, <2>2, <2>3, <2>4, <3>1 DEF Quiet
    <3> QED
      BY <2>2, <3>2 DEF ServedInv, Closing
  <2> QED
    BY <2>5, <2>6
<1>4. CASE OpenFile \/ Close
  <2>1. /\ pc'[Ctl] = "w_enter" /\ \A u \in Threads \ {Ctl} : pc'[u] = pc[u]
        /\ UNCHANGED <<log_close_, log_buff_, mode, block>>
    BY <1>1, <1>4 DEF OpenFile, Close, Goto, PcOK, config, memory
  <2>2. AsyncRunning => AsyncRunning'
    BY <1>1, <2>1 DEF AsyncRunning
  <2> QED
    BY <1>1, <2>1, <2>2, ServedUndisturbed DEF Closing
<1>5. CASE CloseSet
  BY <1>1, <1>5 DEF CloseSet, Goto, PcOK, ServedInv
<1>6. CASE CloseNotify \/ CloseJoin \/ CloseWipe \/ CloseFile
  <2>1. pc[Ctl] \in Closing /\ log_close_' = log_close_
    BY <1>6 DEF CloseNotify, CloseJoin, CloseWipe, CloseFile, Move, data, config, Closing
  <2>2. pc'[Ctl] # "o_start"
    BY <1>1, <1>6 DEF CloseNotify, CloseJoin, CloseWipe, CloseFile, Move, Goto, GotoAndNotify, PcOK
  <2> QED
    BY <2>1, <2>2 DEF ServedInv
<1>7. CASE WriteEnter(Ctl) \/ WriteStep(Ctl)
  BY <1>7, ServedWrite
<1> QED
  BY <1>2, <1>3, <1>4, <1>5, <1>6, <1>7 DEF CtlStep

LEMMA ServedInvHolds ==
  ASSUME OneCaller
  PROVE  Spec => []ServedInv
<1>1. Init => ServedInv
  BY ThreadFacts DEF Init, ServedInv
<1>2. ASSUME AppenderInv, ServedInv, [Next]_vars
      PROVE  ServedInv'
  <2>1. CASE Crash
    BY <2>1, ThreadFacts DEF Crash, ServedInv
  <2>2. CASE UNCHANGED vars
    BY <1>2, <2>2 DEF vars, data, config, memory, ServedInv, AsyncRunning, Starting, Quiet
  <2>3. CASE Next /\ ~Crash
    BY <1>2, <2>3, ServedWrite, ServedCaller, ServedAsync, ServedCtl DEF Next
  <2> QED
    BY <1>2, <2>1, <2>2, <2>3
<1>3. AppenderInv /\ ServedInv /\ [Next]_vars => ServedInv'
  BY <1>2
<1> QED
  BY <1>1, <1>3, AppenderInvHolds, PTL DEF Spec

\* If one thread changes the mode, records in the block of an open appender
\* always have a writer thread to come for them.
THEOREM BufferIsServed ==
  ASSUME OneCaller
  PROVE  Spec => []BufferServed
<1>1. ServedInv => BufferServed
  BY DEF ServedInv, BufferServed, Starting, Quiet
<1> QED
  BY <1>1, ServedInvHolds, PTL

-----------------------------------------------------------------------------
(* The order of the file. A block with a sequence number goes from the     *)
(* buffer into one hand and from there to the end of the file, so the      *)
(* file, the hand and the mapped block are a queue. What its order, and    *)
(* the order of the numbers, mean for file L, hand c, buffer m.            *)

Below(A, B) == \A r \in A, s \in B : r < s
AllBelow(L, b) == \A i \in Buffered(L) : Below(L[i].recs, b.recs)
Ordered(L) == \A i, j \in Buffered(L) : i < j => Below(L[i].recs, L[j].recs)

InQueue(L, c, m) ==
  /\ Ordered(L)
  /\ c.seq # 0 => AllBelow(L, c)
  /\ m.seq # 0 => AllBelow(L, m)
  /\ c.seq # 0 /\ m.seq # 0 => Below(c.recs, m.recs)

LastOf(L, i) == \A k \in Buffered(L) : k <= i
Steps(b, c) == c.seq = 1 \/ c.seq = b.seq + 1
StepsBehind(L, b) == \A i \in Buffered(L) : LastOf(L, i) => Steps(L[i], b)
EndsWith(L, n) == \A i \in Buffered(L) : LastOf(L, i) => L[i].seq = n
Stepped(L) == \A i, j \in Buffered(L) : InTurn(L, i, j) => Steps(L[i], L[j])

\* n is s_seq: 0 in a process that has given no number yet.
Numbered(L, c, m, n) ==
  /\ Stepped(L)
  /\ c.seq # 0 => StepsBehind(L, c)
  /\ m.seq # 0 /\ c.seq # 0 => Steps(c, m)
  /\ m.seq # 0 /\ c.seq = 0 => StepsBehind(L, m)
  /\ n # 0 /\ m.seq # 0 => m.seq = n
  /\ n # 0 /\ m.seq = 0 /\ c.seq # 0 => c.seq = n
  /\ n # 0 /\ m.seq = 0 /\ c.seq = 0 => EndsWith(L, n)

\* K has of L all blocks with a number, or some of them.
SameBuffered(L, K) ==
  Buffered(K) = Buffered(L) /\ \A i \in Buffered(L) : K[i] = L[i]
SomeBuffered(L, K) ==
  Buffered(K) \subseteq Buffered(L) /\ \A i \in Buffered(K) : K[i] = L[i]

\* b and d are one block as far as numbers go.
SameBlock(b, d) == b = d \/ (b.seq = 0 /\ d.seq = 0)

\* K is L and behind it block c.
Longer(L, K, c) ==
  \E n \in Nat :
    /\ \A i \in Buffered(L) : i \in Nat /\ i < n /\ K[i] = L[i]
    /\ K[n] = c
    /\ c.seq = 0 => Buffered(K) = Buffered(L)
    /\ c.seq # 0 => Buffered(K) = Buffered(L) \cup {n}

LEMMA AppendIsLonger ==
  ASSUME NEW L \in Seq(Blocks), NEW c \in Blocks
  PROVE  Longer(L, L \o <<c>>, c)
<1> DEFINE K == L \o <<c>>
<1>1. PICK z \in Nat : z = Len(L)
  BY LenProperties
<1>2. K = Append(L, c)
  BY AppendIsConcat
<1>3. /\ Len(K) = z + 1
      /\ \A i \in 1 .. z : K[i] = L[i]
      /\ K[z + 1] = c
  BY <1>1, <1>2, AppendProperties
<1> HIDE DEF K
<1>4. Buffered(L) = {i \in 1 .. z : L[i].seq # 0} /\ Buffered(K) = {i \in 1 .. z + 1 : K[i].seq # 0}
  BY <1>1, <1>3 DEF Buffered
<1>5. z + 1 \in Nat
  BY <1>1
<1>6. \A i \in Buffered(L) : i \in Nat /\ i < z + 1 /\ K[i] = L[i]
  BY <1>3, <1>4
<1>7. \A i \in 1 .. z + 1 : i \in 1 .. z \/ i = z + 1
  BY <1>1
<1>8. \A i \in 1 .. z : i \in 1 .. z + 1
  BY <1>1
<1>9. z + 1 \in 1 .. z + 1
  BY <1>1
<1>10. c.seq = 0 => Buffered(K) = Buffered(L)
  BY <1>3, <1>4, <1>7, <1>8
<1>11. c.seq # 0 => Buffered(K) = Buffered(L) \cup {z + 1}
  BY <1>3, <1>4, <1>7, <1>8, <1>9
<1> HIDE DEF K
<1>12. Longer(L, K, c)
  BY <1>3, <1>5, <1>6, <1>10, <1>11 DEF Longer
<1> QED
  BY <1>12 DEF K

LEMMA LongerIsSame ==
  ASSUME NEW L, NEW K, NEW c, Longer(L, K, c), c.seq = 0
  PROVE  SameBuffered(L, K)
BY DEF Longer, SameBuffered

LEMMA PrefixIsSome ==
  ASSUME NEW L \in Seq(Blocks), NEW K \in Seq(Blocks)
  PROVE  SomeBuffered(L \o K, L)
<1> DEFINE all == L \o K
<1>1. PICK z \in Nat, y \in Nat : z = Len(L) /\ y = Len(K)
  BY LenProperties
<1>2. Len(all) = z + y /\ \A i \in 1 .. z : all[i] = L[i]
  BY <1>1, ConcatProperties
<1> HIDE DEF all
<1>3. \A i \in 1 .. z : i \in 1 .. z + y
  BY <1>1
<1>4. SomeBuffered(all, L)
  BY <1>1, <1>2, <1>3 DEF SomeBuffered, Buffered
<1> QED
  BY <1>4 DEF all

LEMMA IndexIsNat ==
  ASSUME NEW L \in Seq(Blocks), NEW i \in Buffered(L)
  PROVE  i \in Nat /\ i \in 1 .. Len(L) /\ L[i] \in Blocks /\ L[i].seq # 0
<1>1. Len(L) \in Nat /\ i \in 1 .. Len(L) /\ L[i].seq # 0
  BY LenProperties DEF Buffered
<1> QED
  BY <1>1, ElementOfSeq

-----------------------------------------------------------------------------
(* What the steps do to the order of the records.                          *)

LEMMA QueueSame ==
  ASSUME NEW L, NEW K, NEW c, NEW d, NEW m, NEW e, InQueue(L, c, m),
         SomeBuffered(L, K), SameBlock(c, d) \/ d.seq = 0, SameBlock(m, e) \/ e.seq = 0
  PROVE  InQueue(K, d, e)
<1>1. Ordered(K)
  BY DEF InQueue, Ordered, SomeBuffered
<1>2. d.seq # 0 => c = d
  BY DEF SameBlock
<1>3. e.seq # 0 => m = e
  BY DEF SameBlock
<1>4. \A b : AllBelow(L, b) => AllBelow(K, b)
  BY DEF AllBelow, SomeBuffered
<1> QED
  BY <1>1, <1>2, <1>3, <1>4 DEF InQueue

\* The block goes to the hand.
LEMMA QueueTake ==
  ASSUME NEW L, NEW c, NEW d, NEW m, NEW e, InQueue(L, c, m),
         SameBlock(m, d), e.seq = 0
  PROVE  InQueue(L, d, e)
BY DEF InQueue, SameBlock

\* From the hand it goes to the file.
LEMMA QueueStore ==
  ASSUME NEW L, NEW K, NEW c, NEW d, NEW m, InQueue(L, c, m),
         Longer(L, K, c), d.seq = 0
  PROVE  InQueue(K, d, m)
<1>1. CASE c.seq = 0
  <2>1. SomeBuffered(L, K)
    BY <1>1, LongerIsSame DEF SameBuffered, SomeBuffered
  <2> QED
    BY <2>1, QueueSame DEF SameBlock
<1>2. CASE c.seq # 0
  <2>1. PICK n \in Nat :
          /\ \A i \in Buffered(L) : i \in Nat /\ i < n /\ K[i] = L[i]
          /\ K[n] = c /\ Buffered(K) = Buffered(L) \cup {n}
    BY <1>2 DEF Longer
  <2>2. AllBelow(L, c)
    BY <1>2 DEF InQueue
  <2>3. ASSUME NEW i \in Buffered(K), NEW j \in Buffered(K), i < j
        PROVE  Below(K[i].recs, K[j].recs)
    <3>1. i \in Buffered(L)
      BY <2>1, <2>3
    <3>2. CASE j \in Buffered(L)
      BY <2>1, <2>3, <3>1, <3>2 DEF InQueue, Ordered
    <3>3. CASE j = n
      BY <2>1, <2>2, <3>1, <3>3 DEF AllBelow
    <3> QED
      BY <2>1, <3>2, <3>3
  <2>4. m.seq # 0 => AllBelow(K, m)
    BY <1>2, <2>1 DEF InQueue, AllBelow
  <2> QED
    BY <2>3, <2>4 DEF InQueue, Ordered
<1> QED
  BY <1>1, <1>2

\* All records of the queue are at most n.
UpTo(L, c, m, n) ==
  /\ \A i \in Buffered(L) : L[i].recs \subseteq 1 .. n
  /\ c.recs \subseteq 1 .. n /\ m.recs \subseteq 1 .. n

\* A record is logged: it is younger than all.
LEMMA QueueWrite ==
  ASSUME NEW n \in Nat, NEW L, NEW c, NEW m, NEW e, InQueue(L, c, m), UpTo(L, c, m, n),
         e.seq = m.seq \/ m.recs = {}, NEW R \in SUBSET {n + 1}, e.recs = m.recs \cup R
  PROVE  InQueue(L, c, e)
<1>1. ASSUME NEW A \in SUBSET (1 .. n), m.seq # 0 => Below(A, m.recs), e.seq # 0
      PROVE  Below(A, e.recs)
  <2> SUFFICES ASSUME NEW r \in A, NEW s \in e.recs PROVE r < s
    BY DEF Below
  <2>1. CASE s \in m.recs
    BY <1>1, <2>1 DEF Below
  <2>2. CASE s = n + 1
    BY <2>2
  <2> QED
    BY <2>1, <2>2
<1>2. e.seq # 0 => AllBelow(L, e)
  BY <1>1 DEF InQueue, AllBelow, UpTo
<1>3. c.seq # 0 /\ e.seq # 0 => Below(c.recs, e.recs)
  BY <1>1 DEF InQueue, UpTo
<1> QED
  BY <1>2, <1>3 DEF InQueue

-----------------------------------------------------------------------------
(* What they do to the numbers.                                            *)

LEMMA NumberedSame ==
  ASSUME NEW L, NEW K, NEW c, NEW d, NEW m, NEW e, NEW n, NEW k, Numbered(L, c, m, n),
         SameBuffered(L, K), SameBlock(c, d), SameBlock(m, e), k = n \/ k = 0
  PROVE  Numbered(K, d, e, k)
<1>1. /\ Stepped(K)
      /\ \A b : StepsBehind(L, b) => StepsBehind(K, b)
      /\ EndsWith(L, n) => EndsWith(K, n)
  BY DEF Numbered, Stepped, StepsBehind, EndsWith, LastOf, InTurn, SameBuffered
<1>2. (d.seq # 0 => c = d) /\ (d.seq = 0 => c.seq = 0)
  BY DEF SameBlock
<1>3. (e.seq # 0 => m = e) /\ (e.seq = 0 => m.seq = 0)
  BY DEF SameBlock
<1> QED
  BY <1>1, <1>2, <1>3 DEF Numbered

LEMMA NumberedTake ==
  ASSUME NEW L, NEW c, NEW d, NEW m, NEW e, NEW n, Numbered(L, c, m, n),
         c.seq = 0, SameBlock(m, d), e.seq = 0
  PROVE  Numbered(L, d, e, n)
BY DEF Numbered, SameBlock

LEMMA NumberedStore ==
  ASSUME NEW L, NEW K, NEW c, NEW d, NEW m, NEW n, Numbered(L, c, m, n),
         Longer(L, K, c), d.seq = 0
  PROVE  Numbered(K, d, m, n)
<1>1. CASE c.seq = 0
  BY <1>1, LongerIsSame, NumberedSame DEF SameBlock
<1>2. CASE c.seq # 0
  <2>1. PICK z \in Nat :
          /\ \A i \in Buffered(L) : i \in Nat /\ i < z /\ K[i] = L[i]
          /\ K[z] = c /\ Buffered(K) = Buffered(L) \cup {z}
    BY <1>2 DEF Longer
  <2>2. \A i \in Buffered(K) : LastOf(K, i) => i = z
    <3> SUFFICES ASSUME NEW i \in Buffered(L), LastOf(K, i) PROVE FALSE
      BY <2>1
    <3>1. z <= i
      BY <2>1 DEF LastOf
    <3> QED
      BY <2>1, <3>1
  <2>3. ASSUME NEW i \in Buffered(K), NEW j \in Buffered(K), InTurn(K, i, j)
        PROVE  Steps(K[i], K[j])
    <3>1. i < j /\ \A k \in Buffered(K) : k <= i \/ j <= k
      BY <2>3 DEF InTurn
    <3>2. i \in Buffered(L)
      BY <2>1, <3>1
    <3>3. CASE j \in Buffered(L)
      <4>1. InTurn(L, i, j)
        BY <2>1, <3>1 DEF InTurn
      <4>2. Steps(L[i], L[j])
        BY <3>2, <3>3, <4>1 DEF Numbered, Stepped
      <4> QED
        BY <2>1, <3>2, <3>3, <4>2
    <3>4. CASE j = z
      <4>1. ASSUME NEW k \in Buffered(L) PROVE k <= i
        <5>1. k \in Nat /\ k < z /\ (k <= i \/ z <= k)
          BY <2>1, <3>1, <3>4
        <5> QED
          BY <5>1
      <4>2. LastOf(L, i)
        BY <4>1 DEF LastOf
      <4>3. Steps(L[i], c)
        BY <1>2, <3>2, <4>2 DEF Numbered, StepsBehind
      <4> QED
        BY <2>1, <3>2, <3>4, <4>3
    <3> QED
      BY <2>1, <3>3, <3>4
  <2>4. m.seq # 0 => StepsBehind(K, m)
    BY <1>2, <2>1, <2>2 DEF Numbered, StepsBehind
  <2>5. n # 0 /\ m.seq = 0 => EndsWith(K, n)
    BY <1>2, <2>1, <2>2 DEF Numbered, EndsWith
  <2> QED
    BY <2>3, <2>4, <2>5 DEF Numbered, Stepped
<1> QED
  BY <1>1, <1>2

\* The first record of a block takes a new number.
LEMMA NumberedNext ==
  ASSUME NEW L, NEW c, NEW m, NEW e, NEW n \in Nat, Numbered(L, c, m, n),
         m.seq = 0, e.seq = 1 \/ (n # 0 /\ e.seq = n + 1)
  PROVE  Numbered(L, c, e, e.seq)
<1>1. CASE e.seq = 1
  BY <1>1 DEF Numbered, StepsBehind, Steps
<1>2. CASE e.seq # 1
  <2>1. n # 0 /\ e.seq = n + 1
    BY <1>2
  <2>2. c.seq # 0 => Steps(c, e)
    BY <2>1 DEF Numbered, Steps
  <2>3. c.seq = 0 => StepsBehind(L, e)
    <3> SUFFICES ASSUME c.seq = 0, NEW i \in Buffered(L), LastOf(L, i) PROVE Steps(L[i], e)
      BY DEF StepsBehind
    <3>1. L[i].seq = n
      BY <2>1 DEF Numbered, EndsWith
    <3> QED
      BY <2>1, <3>1 DEF Steps
  <2>4. e.seq # 0
    BY <2>1
  <2> QED
    BY <2>2, <2>3, <2>4 DEF Numbered
<1> QED
  BY <1>1, <1>2

-----------------------------------------------------------------------------
(* The queue in the appender, and the steps it takes.                      *)

\* The block between the buffer and the file.
Carried == IF chunk[Ctl].seq # 0 THEN chunk[Ctl] ELSE chunk[Async]

\* A block with a number has records, one of length 0 has neither.
Whole(b) == (b.seq # 0 => b.recs # {}) /\ (b.len = 0 => b.seq = 0 /\ b.recs = {})

Filled ==
  /\ \A s \in Stores : Whole(block[s])
  /\ \A t \in Threads : Whole(chunk[t])
  /\ \A i \in Buffered(Written) : Written[i].recs # {}

SyncHands == \A t \in Threads : pc[t] = "w_file" => chunk[t].seq = 0

\* Nobody is in FlushSync.
NoTaker == \A c \in Callers : pc[c] \in {"idle", "m_start"}

\* Until the recovered block is in the file, nothing is in the buffer.
Opening ==
  pc[Ctl] \in {"o_start", "o_file"} =>
    /\ after = "open" /\ pc[Async] # "a_file" /\ block[log_buff_].len = 0
    /\ \A t \in Threads \ {Ctl, Async} : pc[t] = "idle"

HeapSeen == log_buff_ = "heap" => heaped

Lane == Filled /\ SyncHands /\ NoTaker /\ Opening /\ HeapSeen

\* What a step may do to the queue.
QueueRests ==
  /\ SameBuffered(Written, Written') /\ SameBlock(Carried, Carried')
  /\ SameBlock(block["mmap"], block'["mmap"]) /\ s_seq' \in {s_seq, 0}
BlockTaken ==
  /\ Written' = Written /\ Carried.seq = 0 /\ SameBlock(block["mmap"], Carried')
  /\ block'["mmap"].seq = 0 /\ s_seq' = s_seq
BlockStored ==
  /\ Longer(Written, Written', Carried) /\ Carried'.seq = 0
  /\ block' = block /\ s_seq' = s_seq
RecordWritten ==
  LET b == block["mmap"]
      d == block'["mmap"] IN
  /\ Written' = Written /\ Carried' = Carried
  /\ \E R \in SUBSET {accepted + 1} : d.recs = b.recs \cup R
  /\ \/ d.seq = b.seq /\ s_seq' = s_seq
     \/ b.seq = 0 /\ b.recs = {} /\ d.seq = NextSeq /\ s_seq' = NextSeq
BlockLost ==
  /\ SomeBuffered(Written, Written') /\ (SameBlock(Carried, Carried') \/ Carried'.seq = 0)
  /\ SameBlock(block["mmap"], block'["mmap"]) \/ block'["mmap"].seq = 0
  /\ lostInCrash' \cup lostInClose' # {}

QueueStep == QueueRests \/ BlockTaken \/ BlockStored \/ RecordWritten \/ BlockLost

LEMMA WrittenType ==
  ASSUME DataOK
  PROVE  Written \in Seq(Blocks)
BY ConcatProperties DEF DataOK, Written

\* Who can have a block with a number in hand.
LEMMA OneHand ==
  ASSUME AppenderInv, Lane, NEW t \in Threads, chunk[t].seq # 0
  PROVE  /\ (t = Ctl /\ pc[Ctl] \in {"o_start", "o_file"}) \/ (t = Async /\ pc[Async] = "a_file")
         /\ chunk[t] = Carried
         /\ \A u \in Threads \ {t} : chunk[u].seq = 0
<1>1. PcOK /\ DataOK /\ EmptyHands
  BY DEF AppenderInv, TypeInv
<1>2. ASSUME NEW u \in Threads, chunk[u].seq # 0
      PROVE  (u = Ctl /\ pc[Ctl] \in {"o_start", "o_file"}) \/ (u = Async /\ pc[Async] = "a_file")
  <2>1. chunk[u].recs # {}
    BY <1>2 DEF Lane, Filled, Whole
  <2>2. pc[u] \in {"f_file", "a_file", "o_start", "o_file"}
    BY <1>1, <1>2, <2>1 DEF EmptyHands, Carrying, Lane, SyncHands
  <2>3. pc[u] \in LabelsOf(u)
    BY <1>1 DEF PcOK
  <2>4. CASE u \in Writers
    BY <2>2, <2>3, <2>4 DEF LabelsOf, WriteLabels
  <2>5. CASE u \in Callers
    BY <2>2, <2>5 DEF Lane, NoTaker
  <2>6. CASE u = Async
    BY <2>2, <2>3, <2>6, ThreadFacts DEF LabelsOf, AsyncLabels
  <2>7. CASE u = Ctl
    <3>1. Ctl \notin Writers /\ Ctl \notin Callers /\ Ctl # Async
      BY ThreadFacts
    <3>2. pc[u] \in CtlLabels
      BY <2>3, <2>7, <3>1 DEF LabelsOf
    <3>3. pc[u] \notin {"f_file", "a_file"}
      BY <3>2 DEF CtlLabels, WriteLabels
    <3>4. pc[u] \in {"o_start", "o_file"}
      BY <2>2, <3>3
    <3> QED
      BY <2>7, <3>4
  <2> QED
    BY <2>4, <2>5, <2>6, <2>7, ThreadFacts
<1>3. \A u \in Threads \ {t} : chunk[u].seq = 0
  <2> SUFFICES ASSUME NEW u \in Threads \ {t}, chunk[u].seq # 0 PROVE FALSE
    OBVIOUS
  <2>1. pc[Ctl] \in {"o_start", "o_file"} /\ pc[Async] = "a_file"
    BY <1>2
  <2> QED
    BY <2>1 DEF Lane, Opening
<1> QED
  BY <1>2, <1>3, ThreadFacts DEF Carried

\* A hand without a number is not the one that carries.
LEMMA CarriedSame ==
  ASSUME SameBlock(chunk[Ctl], chunk'[Ctl]), SameBlock(chunk[Async], chunk'[Async])
  PROVE  SameBlock(Carried, Carried')
BY DEF Carried, SameBlock

LEMMA SameIsSame ==
  /\ \A b : SameBlock(b, b)
  /\ \A L : SameBuffered(L, L) /\ SomeBuffered(L, L)
BY DEF SameBlock, SameBuffered, SomeBuffered

\* A step that leaves the blocks alone.
LEMMA LaneRests ==
  ASSUME Lane, UNCHANGED <<memory, disk, s_seq>>
  PROVE  Filled' /\ QueueRests
<1>1. block' = block /\ chunk' = chunk /\ Written' = Written /\ s_seq' = s_seq
  BY DEF memory, disk, Written
<1>2. Carried' = Carried
  BY <1>1 DEF Carried
<1> QED
  BY <1>1, <1>2, SameIsSame DEF Lane, Filled, QueueRests

LEMMA EmptyIsWhole == Whole(Empty) /\ Empty.seq = 0 /\ Empty.recs = {} /\ Empty.len = 0
BY DEF Whole, Empty

\* __Log2File, by any thread.
LEMMA LaneStores ==
  ASSUME AppenderInv, Lane, NEW t \in Threads, Log2File(t), UNCHANGED <<block, s_seq>>
  PROVE  Filled' /\ (QueueRests \/ BlockStored)
<1>1. /\ DataOK /\ chunk[t] \in Blocks /\ file \in Seq(Blocks) /\ fbuf \in Seq(Blocks)
      /\ chunk \in [Threads -> Blocks] /\ Written \in Seq(Blocks)
  BY WrittenType DEF AppenderInv, TypeInv, DataOK
<1>2. /\ Written' = Written \o <<chunk[t]>>
      /\ chunk' = [chunk EXCEPT ![t] = Empty]
  BY <1>1, Log2FileAppends DEF Written
<1>3. Longer(Written, Written', chunk[t])
  BY <1>1, <1>2, AppendIsLonger
<1>4. chunk'[t] = Empty /\ \A u \in Threads \ {t} : chunk'[u] = chunk[u]
  BY <1>1, <1>2
<1>5. \A i \in Buffered(Written)' : Written'[i].recs # {}
  <2>1. PICK n \in Nat :
          /\ \A i \in Buffered(Written) : Written'[i] = Written[i]
          /\ Written'[n] = chunk[t]
          /\ chunk[t].seq = 0 => Buffered(Written') = Buffered(Written)
          /\ chunk[t].seq # 0 => Buffered(Written') = Buffered(Written) \cup {n}
    BY <1>3 DEF Longer
  <2>2. chunk[t].seq # 0 => chunk[t].recs # {}
    BY DEF Lane, Filled, Whole
  <2>3. \A i \in Buffered(Written) : Written[i].recs # {}
    BY DEF Lane, Filled
  <2> QED
    BY <2>1, <2>2, <2>3
<1>6. Filled'
  <2>1. \A u \in Threads : Whole(chunk'[u])
    BY <1>4, EmptyIsWhole DEF Lane, Filled
  <2> QED
    BY <1>5, <2>1 DEF Lane, Filled
<1>7. CASE chunk[t].seq = 0
  <2>1. \A u \in Threads : SameBlock(chunk[u], chunk'[u])
    BY <1>4, <1>7, EmptyIsWhole DEF SameBlock
  <2>2. SameBlock(Carried, Carried')
    BY <2>1, CarriedSame, ThreadFacts
  <2>3. SameBuffered(Written, Written')
    BY <1>3, <1>7, LongerIsSame
  <2> QED
    BY <1>6, <2>2, <2>3, SameIsSame DEF QueueRests
<1>8. CASE chunk[t].seq # 0
  <2>1. chunk[t] = Carried /\ \A u \in Threads \ {t} : chunk[u].seq = 0
    BY <1>8, OneHand
  <2>2. chunk'[Ctl].seq = 0 /\ chunk'[Async].seq = 0
    BY <1>4, <2>1, EmptyIsWhole, ThreadFacts
  <2> QED
    BY <1>3, <1>6, <2>1, <2>2 DEF BlockStored, Carried
<1> QED
  BY <1>7, <1>8

\* A thread that carries nothing takes the block.
LEMMA LaneTakes ==
  ASSUME AppenderInv, Lane, NEW t \in {Ctl, Async}, pc[t] \notin Carrying,
         NEW s \in Stores, chunk' = [chunk EXCEPT ![t] = block[s]],
         block' = [block EXCEPT ![s] = Empty], UNCHANGED <<disk, s_seq>>,
         block[s].seq # 0 => \A u \in Threads : chunk[u].seq = 0
  PROVE  Filled' /\ (s = "mmap" => QueueRests \/ BlockTaken)
<1>1. /\ chunk \in [Threads -> Blocks] /\ block \in [Stores -> Blocks] /\ "mmap" \in Stores
      /\ Ctl \in Threads /\ Async \in Threads /\ Ctl # Async
  BY ThreadFacts DEF AppenderInv, TypeInv, DataOK, Stores
<1>2. /\ chunk'[t] = block[s] /\ \A u \in Threads \ {t} : chunk'[u] = chunk[u]
      /\ block'[s] = Empty /\ \A r \in Stores \ {s} : block'[r] = block[r]
  BY <1>1
<1>3. Written' = Written
  BY DEF disk, Written
<1>4. Filled'
  <2>1. \A u \in Threads : Whole(chunk'[u])
    BY <1>1, <1>2 DEF Lane, Filled
  <2>2. \A r \in Stores : Whole(block'[r])
    BY <1>2, EmptyIsWhole DEF Lane, Filled
  <2> QED
    BY <1>3, <2>1, <2>2 DEF Lane, Filled
<1>5. chunk[t].seq = 0
  BY <1>1 DEF AppenderInv, EmptyHands, Lane, Filled, Whole
<1>6. CASE block[s].seq = 0
  <2>1. \A u \in Threads : SameBlock(chunk[u], chunk'[u])
    BY <1>1, <1>2, <1>5, <1>6 DEF SameBlock
  <2>2. SameBlock(Carried, Carried') /\ SameBlock(block[s], block'[s])
    BY <1>1, <1>2, <1>6, <2>1, CarriedSame, EmptyIsWhole DEF SameBlock
  <2> QED
    BY <1>3, <1>4, <2>2, SameIsSame DEF QueueRests
<1>7. CASE block[s].seq # 0
  <2>1. chunk[Ctl].seq = 0 /\ chunk[Async].seq = 0
    BY <1>1, <1>7
  <2>2. Carried.seq = 0 /\ Carried' = block[s]
    BY <1>1, <1>2, <1>7, <2>1 DEF Carried
  <2> QED
    BY <1>2, <1>3, <1>4, <2>2, SameIsSame, EmptyIsWhole DEF BlockTaken
<1> QED
  BY <1>6, <1>7

-----------------------------------------------------------------------------
(* Which steps they are.                                                   *)

LEMMA SyncHandsKeep ==
  ASSUME Lane, NEW t,
         \A u \in Threads \ {t} : chunk'[u] = chunk[u] /\ (pc'[u] = "w_file" => pc[u] = "w_file"),
         t \in Threads /\ pc'[t] = "w_file" => chunk'[t].seq = 0
  PROVE  SyncHands'
BY DEF Lane, SyncHands

\* Where a thread that logs goes.
LEMMA WriterGoes ==
  ASSUME AppenderInv, NEW t \in Writers \cup {Ctl}, WriteEnter(t) \/ WriteStep(t)
  PROVE  /\ \A u \in Threads \ {t, Async} : pc'[u] = pc[u]
         /\ pc'[Async] = pc[Async] \/ pc'[Async] = "top"
         /\ pc'[t] \in {Return(t)} \cup WriteLabels
         /\ pc'[t] = "w_file" => WriteSync(t)
         /\ t = Ctl => Return(t) \in {"open", "c_set"}
         /\ t # Ctl => Return(t) = "idle"
<1>1. /\ PcOK /\ DataOK /\ t \in Threads /\ t # Async /\ Async \in Threads
  BY ThreadFacts DEF AppenderInv, TypeInv
<1>2. (t = Ctl => Return(t) \in {"open", "c_set"}) /\ (t # Ctl => Return(t) = "idle")
  BY <1>1 DEF Return, DataOK
<1>3. PICK l : /\ Goto(t, l) \/ GotoAndNotify(t, l)
               /\ l \in {Return(t)} \cup WriteLabels
               /\ l = "w_file" => WriteSync(t)
  <2>1. CASE WriteEnter(t)
    <3>1. \E l \in {Return(t), "w_dispatch"} : Goto(t, l)
      BY <2>1 DEF WriteEnter
    <3> QED
      BY <1>2, <3>1 DEF WriteLabels
  <2>2. CASE WriteDispatch(t)
    <3>1. \E l \in {"w_sync", "w_async"} : Goto(t, l)
      BY <2>2 DEF WriteDispatch, Move
    <3> QED
      BY <3>1 DEF WriteLabels
  <2>3. CASE WriteAsyncRefused(t) \/ WriteAsync(t) \/ WriteSyncFile(t)
    <3>1. Goto(t, Return(t)) \/ GotoAndNotify(t, Return(t))
      BY <2>3 DEF WriteAsyncRefused, WriteAsync, WriteSyncFile, Move
    <3> QED
      BY <1>2, <3>1
  <2>4. CASE WriteSync(t)
    <3>1. Goto(t, "w_file")
      BY <2>4 DEF WriteSync
    <3> QED
      BY <2>4, <3>1 DEF WriteLabels
  <2> QED
    BY <2>1, <2>2, <2>3, <2>4 DEF WriteStep
<1>4. /\ pc'[t] = l /\ \A u \in Threads \ {t, Async} : pc'[u] = pc[u]
      /\ pc'[Async] = pc[Async] \/ pc'[Async] = "top"
  BY <1>1, <1>3 DEF Goto, GotoAndNotify, PcOK
<1> QED
  BY <1>2, <1>3, <1>4

\* Nobody else logs while Open is at the recovered block.
LEMMA NobodyLogs ==
  ASSUME AppenderInv, Lane, NEW t \in Writers \cup {Ctl}, WriteEnter(t) \/ WriteStep(t)
  PROVE  pc[Ctl] \notin {"o_start", "o_file"} /\ pc'[Ctl] \notin {"o_start", "o_file"}
<1>1. t \in Threads /\ t # Async /\ Ctl \in Threads /\ Ctl # Async
  BY ThreadFacts
<1>2. /\ pc[t] \in WriteLabels \cup {"w_enter"} \/ (t # Ctl /\ Published)
  BY ThreadFacts DEF WriteEnter, MayEnter, WriteStep, WriteDispatch, WriteAsyncRefused,
                     WriteAsync, WriteSync, WriteSyncFile, WriteLabels
<1>3. pc[Ctl] \notin {"o_start", "o_file"}
  BY <1>1, <1>2 DEF Lane, Opening, Published, WriteLabels
<1>4. pc'[Ctl] = pc[Ctl] \/ pc'[Ctl] \in {"open", "c_set"} \cup WriteLabels
  BY <1>1, WriterGoes
<1> QED
  BY <1>3, <1>4 DEF WriteLabels

LEMMA LaneWrite ==
  ASSUME AppenderInv, Lane, NEW t \in Writers \cup {Ctl}, WriteEnter(t) \/ WriteStep(t)
  PROVE  Lane' /\ (~heaped' => QueueStep)
<1>1. /\ PcOK /\ DataOK /\ t \in Threads /\ t # Async /\ Ctl \in Threads /\ Async \in Threads
      /\ Ctl # Async /\ t \notin Callers
  BY ThreadFacts DEF AppenderInv, TypeInv
<1>2. Opening'
  BY NobodyLogs DEF Opening
<1>3. NoTaker'
  <2>1. \A c \in Callers : c \in Threads \ {t, Async}
    BY <1>1, ThreadFacts
  <2> QED
    BY <2>1, WriterGoes DEF Lane, NoTaker
<1>4. UNCHANGED <<log_buff_, heaped>> /\ HeapSeen'
  BY DEF WriteEnter, WriteStep, WriteDispatch, WriteAsyncRefused, WriteAsync, WriteSync,
         WriteSyncFile, Move, data, config, lost, Lane, HeapSeen
<1>5. SyncHands'
  <2>1. chunk' = chunk \/ \E b : chunk' = [chunk EXCEPT ![t] = b]
    BY DEF WriteEnter, WriteStep, WriteDispatch, WriteAsyncRefused, WriteAsync, WriteSync,
           WriteSyncFile, Move, data, memory, Log2File
  <2>2. \A u \in Threads \ {t} : chunk'[u] = chunk[u]
    BY <1>1, <2>1 DEF DataOK
  <2>3. pc'[t] = "w_file" => chunk'[t].seq = 0
    BY <1>1, WriterGoes DEF WriteSync, SyncBlock, DataOK
  <2>4. \A u \in Threads \ {t} : pc'[u] = "w_file" => pc[u] = "w_file"
    BY WriterGoes
  <2> QED
    BY <2>2, <2>3, <2>4, SyncHandsKeep
<1>6. CASE WriteEnter(t) \/ WriteDispatch(t) \/ WriteAsyncRefused(t)
  <2>1. UNCHANGED <<memory, disk, s_seq>>
    BY <1>6 DEF WriteEnter, WriteDispatch, WriteAsyncRefused, Move, data, counts
  <2> QED
    BY <1>2, <1>3, <1>4, <1>5, <2>1, LaneRests DEF Lane, QueueStep
<1>7. CASE WriteSync(t)
  <2>1. /\ chunk' = [chunk EXCEPT ![t] = SyncBlock({accepted + 1})]
        /\ UNCHANGED <<block, disk, s_seq>> /\ pc[t] = "w_sync"
    BY <1>7 DEF WriteSync
  <2>2. chunk'[t] = SyncBlock({accepted + 1}) /\ \A u \in Threads \ {t} : chunk'[u] = chunk[u]
    BY <1>1, <2>1 DEF DataOK
  <2>3. chunk'[t].seq = 0 /\ Whole(chunk'[t])
    BY <2>2 DEF SyncBlock, Whole
  <2>4. chunk[t].seq = 0
    BY <1>1, <2>1 DEF AppenderInv, EmptyHands, Carrying, Lane, Filled, Whole
  <2>5. Written' = Written /\ block' = block /\ s_seq' = s_seq
    BY <2>1 DEF disk, Written
  <2>6. Filled'
    BY <2>2, <2>3, <2>5 DEF Lane, Filled
  <2>7. SameBlock(Carried, Carried')
    <3>1. \A u \in Threads : SameBlock(chunk[u], chunk'[u])
      BY <2>2, <2>3, <2>4 DEF SameBlock
    <3> QED
      BY <1>1, <3>1, CarriedSame
  <2> QED
    BY <1>2, <1>3, <1>4, <1>5, <2>5, <2>6, <2>7, SameIsSame DEF Lane, QueueStep, QueueRests
<1>8. CASE WriteSyncFile(t)
  <2>1. Log2File(t) /\ UNCHANGED <<block, s_seq>>
    BY <1>8 DEF WriteSyncFile, counts
  <2> QED
    BY <1>1, <1>2, <1>3, <1>4, <1>5, <2>1, LaneStores DEF Lane, QueueStep
<1>9. CASE WriteAsync(t)
  <2> DEFINE b == block[log_buff_]
             rs == IF b.len >= TipAt THEN {} ELSE {accepted + 1}
  <2>1. /\ log_buff_ \in Stores /\ block' = [block EXCEPT ![log_buff_] = BufferWrite(b, rs)]
        /\ s_seq' = SeqAfterWrite(b) /\ UNCHANGED <<chunk, disk>>
    BY <1>1, <1>9 DEF WriteAsync, DataOK
  <2>2. b.len \in Nat
    BY <1>1, <2>1 DEF DataOK, Blocks
  <2>3. Whole(b)
    BY <2>1 DEF Lane, Filled
  <2>4. b.len = 0 => rs = {accepted + 1}
    <3>1. TipAt \in Nat \ {0}
      BY AppenderAssumption
    <3> QED
      BY <3>1
  <2>5. rs \in SUBSET {accepted + 1}
    OBVIOUS
  <2> DEFINE d == BufferWrite(b, rs)
  <2>6. /\ d.seq = IF b.len = 0 THEN NextSeq ELSE b.seq
        /\ d.recs = b.recs \cup rs /\ d.len = b.len + 1
    BY DEF BufferWrite
  <2>7. /\ block'[log_buff_] = d /\ \A s \in Stores \ {log_buff_} : block'[s] = block[s]
        /\ s_seq' = IF b.len = 0 THEN NextSeq ELSE s_seq
    BY <1>1, <2>1 DEF DataOK, SeqAfterWrite
  <2> HIDE DEF b, rs, d
  <2>8. Whole(d)
    BY <2>2, <2>3, <2>4, <2>6 DEF Whole
  <2>9. Written' = Written /\ Carried' = Carried /\ chunk' = chunk
    BY <2>1 DEF disk, Written, Carried
  <2>10. Filled'
    BY <2>7, <2>8, <2>9 DEF Lane, Filled
  <2>11. ~heaped' => RecordWritten
    <3> SUFFICES ASSUME ~heaped' PROVE RecordWritten
      OBVIOUS
    <3>1. log_buff_ = "mmap"
      BY <1>4, <2>1 DEF Lane, HeapSeen, Stores
    <3>2. block["mmap"] = b /\ block'["mmap"] = d
      BY <2>7, <3>1 DEF b
    <3>3. CASE b.len = 0
      BY <2>3, <2>5, <2>6, <2>7, <2>9, <3>2, <3>3 DEF RecordWritten, Whole
    <3>4. CASE b.len # 0
      BY <2>5, <2>6, <2>7, <2>9, <3>2, <3>4 DEF RecordWritten
    <3> QED
      BY <3>3, <3>4
  <2> QED
    BY <1>2, <1>3, <1>4, <1>5, <2>10, <2>11 DEF Lane, QueueStep
<1> QED
  BY <1>6, <1>7, <1>8, <1>9 DEF WriteStep

\* A thread that flushes without waiting, or sets the mode, leaves it alone.
LEMMA LaneCaller ==
  ASSUME AppenderInv, Lane, NEW c \in Callers,
         Flush(c) \/ CallerStep(c) \/ \E m \in Modes : SetModeStore(c, m)
  PROVE  Lane' /\ (~heaped' => QueueStep)
<1>1. /\ PcOK /\ DataOK /\ c \in Threads /\ c # Async /\ c # Ctl /\ Ctl \in Threads
      /\ Async \in Threads /\ Ctl # Async
  BY ThreadFacts DEF AppenderInv, TypeInv
<1>2. pc[c] \in {"idle", "m_start"}
  BY DEF Lane, NoTaker
<1>3. Flush(c) \/ SetModeStart(c) \/ \E m \in Modes : SetModeStore(c, m)
  BY <1>2 DEF CallerStep, FlushSyncClosed, FlushSyncTake, FlushSyncFile, FlushSyncReturn
<1>4. pc[c] = "m_start" \/ Published
  BY <1>3 DEF Flush, SetModeStart, SetModeStore
<1>5. pc[Ctl] \notin {"o_start", "o_file"}
  BY <1>1, <1>4 DEF Lane, Opening, Published
<1>6. /\ pc'[c] \in {"idle", "m_start"}
      /\ \A u \in Threads \ {c, Async} : pc'[u] = pc[u]
      /\ pc'[Async] \in {pc[Async], "top"}
  BY <1>1, <1>3 DEF Flush, SetModeStart, SetModeStore, Goto, GotoAndNotify, PcOK
<1>7. UNCHANGED <<memory, disk, s_seq, log_buff_, heaped>>
  BY <1>3 DEF Flush, SetModeStart, SetModeStore, data, config, counts, lost
<1>8. Opening'
  BY <1>1, <1>5, <1>6 DEF Opening
<1>9. NoTaker'
  <2>1. \A d \in Callers : d \in Threads /\ d # Async
    BY ThreadFacts
  <2> QED
    BY <1>6, <2>1 DEF Lane, NoTaker
<1>10. SyncHands' /\ HeapSeen'
  <2>1. chunk' = chunk
    BY <1>7 DEF memory
  <2>2. \A u \in Threads : pc'[u] = "w_file" => pc[u] = "w_file"
    BY <1>6
  <2> QED
    BY <1>7, <2>1, <2>2 DEF Lane, SyncHands, HeapSeen
<1> QED
  BY <1>7, <1>8, <1>9, <1>10, LaneRests DEF Lane, QueueStep

LEMMA LaneAsync ==
  ASSUME AppenderInv, Lane, AsyncStep
  PROVE  Lane' /\ (~heaped' => QueueStep)
<1>1. /\ PcOK /\ DataOK /\ Ctl \in Threads /\ Async \in Threads /\ Ctl # Async
      /\ block \in [Stores -> Blocks] /\ chunk \in [Threads -> Blocks]
  BY ThreadFacts DEF AppenderInv, TypeInv, DataOK
<1>2. /\ \A u \in Threads \ {Ctl, Async} : pc'[u] = pc[u]
      /\ pc'[Ctl] = pc[Ctl] \/ pc'[Ctl] = "c_wipe"
      /\ pc'[Async] # "w_file"
  <2>1. \/ \E l : Goto(Async, l) /\ l # "w_file"
        \/ GotoEnd
    BY DEF AsyncStep, AsyncNoBuffer, AsyncTake, AsyncFile, AsyncCheck, AsyncWait, AsyncTimeout, Move
  <2> QED
    BY <1>1, <2>1 DEF PcOK, Goto, GotoEnd
<1>3. UNCHANGED <<log_buff_, heaped, after>> /\ HeapSeen'
  BY DEF AsyncStep, AsyncNoBuffer, AsyncTake, AsyncFile, AsyncCheck, AsyncWait, AsyncTimeout,
         Move, data, config, lost, Lane, HeapSeen
<1>4. NoTaker'
  <2>1. \A c \in Callers : c \in Threads \ {Ctl, Async}
    BY ThreadFacts
  <2> QED
    BY <1>2, <2>1 DEF Lane, NoTaker
<1>5. SyncHands'
  <2>1. chunk' = chunk \/ \E b : chunk' = [chunk EXCEPT ![Async] = b]
    BY DEF AsyncStep, AsyncNoBuffer, AsyncTake, AsyncFile, AsyncCheck, AsyncWait, AsyncTimeout,
           Move, data, memory, Log2File, TakeBlock
  <2>2. \A u \in Threads \ {Async} : chunk'[u] = chunk[u]
    BY <1>1, <2>1
  <2>3. \A u \in Threads \ {Async} : pc'[u] = "w_file" => pc[u] = "w_file"
    BY <1>2
  <2> QED
    BY <1>2, <2>2, <2>3, SyncHandsKeep
<1>6. CASE AsyncNoBuffer \/ AsyncCheck \/ AsyncWait \/ AsyncTimeout
  <2>1. UNCHANGED <<memory, disk, s_seq>>
    BY <1>6 DEF AsyncNoBuffer, AsyncCheck, AsyncWait, AsyncTimeout, Move, data, counts
  <2>2. pc'[Async] # "a_file"
    BY <1>1, <1>6 DEF AsyncNoBuffer, AsyncCheck, AsyncWait, AsyncTimeout, Move, Goto, GotoEnd, PcOK
  <2>3. Opening'
    BY <1>2, <1>3, <2>1, <2>2 DEF Lane, Opening, memory
  <2> QED
    BY <1>3, <1>4, <1>5, <2>1, <2>3, LaneRests DEF Lane, QueueStep
<1>7. CASE AsyncTake
  <2>1. /\ log_buff_ \in Stores /\ pc[Async] = "top"
        /\ chunk' = [chunk EXCEPT ![Async] = block[log_buff_]]
        /\ block' = [block EXCEPT ![log_buff_] = Empty]
        /\ UNCHANGED <<disk, s_seq>>
        /\ pc'[Async] = IF block[log_buff_].len > 0 THEN "a_file" ELSE "a_check"
    BY <1>1, <1>7 DEF AsyncTake, TakeBlock, DataOK, counts, Goto, PcOK
  <2>2. pc[Async] \notin Carrying
    BY <2>1 DEF Carrying
  <2>3. block[log_buff_].seq # 0 => block[log_buff_].len # 0
    BY <2>1 DEF Lane, Filled, Whole
  <2>4. block[log_buff_].seq # 0 => \A u \in Threads : chunk[u].seq = 0
    <3> SUFFICES ASSUME block[log_buff_].seq # 0, NEW u \in Threads, chunk[u].seq # 0
                 PROVE  FALSE
      OBVIOUS
    <3>1. pc[Ctl] \in {"o_start", "o_file"}
      BY <2>1, OneHand
    <3> QED
      BY <2>3, <3>1 DEF Lane, Opening
  <2>5. Filled' /\ (log_buff_ = "mmap" => QueueRests \/ BlockTaken)
    BY <2>1, <2>2, <2>4, LaneTakes
  <2>6. ~heaped' => log_buff_ = "mmap"
    BY <1>3, <2>1 DEF Lane, HeapSeen, Stores
  <2>7. Opening'
    <3> SUFFICES ASSUME pc'[Ctl] \in {"o_start", "o_file"} PROVE Opening'
      BY DEF Opening
    <3>1. pc[Ctl] \in {"o_start", "o_file"}
      BY <1>2
    <3>2. block[log_buff_].len = 0 /\ after = "open" /\ \A t \in Threads \ {Ctl, Async} : pc[t] = "idle"
      BY <3>1 DEF Lane, Opening
    <3>3. block'[log_buff_].len = 0
      BY <1>1, <2>1, EmptyIsWhole
    <3>4. pc'[Async] # "a_file"
      BY <2>1, <3>2
    <3> QED
      BY <1>2, <1>3, <3>2, <3>3, <3>4 DEF Opening
  <2> QED
    BY <1>3, <1>4, <1>5, <2>5, <2>6, <2>7 DEF Lane, QueueStep
<1>8. CASE AsyncFile
  <2>1. Log2File(Async) /\ UNCHANGED <<block, s_seq>> /\ pc[Async] = "a_file"
    BY <1>8 DEF AsyncFile, counts
  <2>2. Opening'
    BY <1>2, <2>1 DEF Lane, Opening
  <2> QED
    BY <1>1, <1>3, <1>4, <1>5, <2>1, <2>2, LaneStores DEF Lane, QueueStep
<1> QED
  BY <1>6, <1>7, <1>8 DEF AsyncStep

LEMMA LaneOpen ==
  ASSUME AppenderInv, Lane, Open
  PROVE  Lane' /\ (~heaped' => QueueStep)
<1>1. /\ PcOK /\ DataOK /\ Ctl \in Threads /\ Async \in Threads /\ Ctl # Async
      /\ block \in [Stores -> Blocks] /\ chunk \in [Threads -> Blocks]
  BY ThreadFacts DEF AppenderInv, TypeInv, DataOK
<1>2. PICK s \in Stores :
        /\ log_buff_' = s /\ chunk' = [chunk EXCEPT ![Ctl] = block[s]]
        /\ block' = [block EXCEPT ![s] = Empty] /\ heaped' = (heaped \/ s = "heap")
  BY AppenderAssumption DEF Open
<1>3. pc[Ctl] = "down" /\ Goto(Ctl, "o_start") /\ UNCHANGED <<after, disk, s_seq>>
  BY DEF Open, counts
<1>4. pc'[Ctl] = "o_start" /\ \A u \in Threads \ {Ctl} : pc'[u] = pc[u]
  BY <1>1, <1>3 DEF Goto, PcOK
<1>5. after = "open" /\ \A u \in Threads \ {Ctl} : pc[u] \in {"idle", "off"}
  BY <1>3 DEF AppenderInv, NotStarted
<1>6. \A u \in Threads : chunk[u].seq = 0
  <2> SUFFICES ASSUME NEW u \in Threads, chunk[u].seq # 0 PROVE FALSE
    OBVIOUS
  <2>1. pc[Ctl] \in {"o_start", "o_file"} \/ pc[Async] = "a_file"
    BY OneHand
  <2> QED
    BY <1>1, <1>3, <1>5, <2>1
<1>7. Filled' /\ (s = "mmap" => QueueRests \/ BlockTaken)
  BY <1>2, <1>3, <1>6, LaneTakes DEF Carrying
<1>8. NoTaker'
  <2>1. \A c \in Callers : c \in Threads \ {Ctl}
    BY ThreadFacts
  <2> QED
    BY <1>4, <2>1 DEF Lane, NoTaker
<1>9. SyncHands'
  BY <1>4, <1>5 DEF SyncHands
<1>10. Opening'
  <2>1. block'[log_buff_'].len = 0
    BY <1>1, <1>2, EmptyIsWhole
  <2>2. \A u \in Threads \ {Ctl, Async} : pc'[u] = "idle"
    <3> SUFFICES ASSUME NEW u \in Threads \ {Ctl, Async}, pc[u] = "off" PROVE FALSE
      BY <1>4, <1>5
    <3>1. u \in Writers \/ u \in Callers
      BY ThreadFacts
    <3>2. pc[u] \in {"idle"} \cup WriteLabels \cup CallerLabels
      BY <1>1, <3>1 DEF PcOK, LabelsOf
    <3> QED
      BY <3>2 DEF WriteLabels, CallerLabels
  <2>3. pc'[Async] # "a_file"
    BY <1>1, <1>4, <1>5
  <2> QED
    BY <1>3, <1>5, <2>1, <2>2, <2>3 DEF Opening
<1>11. HeapSeen' /\ (~heaped' => s = "mmap")
  BY <1>2 DEF HeapSeen, Stores
<1> QED
  BY <1>7, <1>8, <1>9, <1>10, <1>11 DEF Lane, QueueStep

LEMMA LaneCtl ==
  ASSUME AppenderInv, Lane,
         \/ OpenStart \/ OpenFile
         \/ Close \/ CloseSet \/ CloseNotify \/ CloseJoin \/ CloseWipe \/ CloseFile
  PROVE  Lane' /\ (~heaped' => QueueStep)
<1>1. /\ PcOK /\ DataOK /\ Ctl \in Threads /\ Async \in Threads /\ Ctl # Async
      /\ block \in [Stores -> Blocks] /\ chunk \in [Threads -> Blocks]
  BY ThreadFacts DEF AppenderInv, TypeInv, DataOK
<1>2. /\ \A u \in Threads \ {Ctl, Async} : pc'[u] = pc[u]
      /\ pc'[Async] \in {pc[Async], "top", "off"}
      /\ pc'[Ctl] \notin {"o_start", "w_file"}
      /\ pc'[Ctl] = "o_file" => OpenStart
  <2>1. CASE OpenStart
    <3>1. PICK m \in Modes :
            pc' = [pc EXCEPT ![Ctl] = IF chunk[Ctl].len > 0 THEN "o_file" ELSE "w_enter",
                             ![Async] = IF m = "async" THEN "top" ELSE "off"]
      BY <2>1 DEF OpenStart
    <3> QED
      BY <1>1, <2>1, <3>1 DEF PcOK
  <2>2. CASE ~OpenStart
    <3>1. PICK l \in {"w_enter", "c_notify", "c_join", "c_wipe", "c_file", "closed"} :
            Goto(Ctl, l) \/ GotoAndNotify(Ctl, l)
      BY <2>2 DEF OpenFile, Close, CloseSet, CloseNotify, CloseJoin, Move, CloseWipe, CloseFile
    <3> QED
      BY <1>1, <3>1 DEF Goto, GotoAndNotify, PcOK
  <2> QED
    BY <2>1, <2>2
<1>3. NoTaker'
  <2>1. \A c \in Callers : c \in Threads \ {Ctl, Async}
    BY ThreadFacts
  <2> QED
    BY <1>2, <2>1 DEF Lane, NoTaker
<1>4. Opening'
  <2> SUFFICES ASSUME pc'[Ctl] \in {"o_start", "o_file"} PROVE Opening'
    BY DEF Opening
  <2>1. OpenStart /\ pc[Ctl] = "o_start"
    BY <1>2 DEF OpenStart
  <2>2. UNCHANGED <<after, log_buff_, block>>
    BY <2>1 DEF OpenStart, memory
  <2> QED
    BY <1>1, <1>2, <2>1, <2>2 DEF Lane, Opening
<1>5. /\ heaped' = heaped /\ HeapSeen'
      /\ chunk' = chunk \/ chunk' = [chunk EXCEPT ![Ctl] = Empty]
  <2>1. heaped' = heaped /\ (log_buff_' = log_buff_ \/ log_buff_' = Null)
    BY DEF OpenStart, OpenFile, Close, CloseSet, CloseNotify, CloseJoin, CloseWipe, CloseFile,
           Move, data, config, lost
  <2>2. Null # "heap"
    BY AppenderAssumption DEF Stores
  <2>3. chunk' = chunk \/ chunk' = [chunk EXCEPT ![Ctl] = Empty]
    BY DEF OpenStart, OpenFile, Close, CloseSet, CloseNotify, CloseJoin, CloseWipe, CloseFile,
           Move, data, memory, Log2File
  <2> QED
    BY <2>1, <2>2, <2>3 DEF Lane, HeapSeen
<1>6. SyncHands'
  <2>1. \A u \in Threads \ {Ctl} : chunk'[u] = chunk[u] /\ (pc'[u] = "w_file" => pc[u] = "w_file")
    BY <1>1, <1>2, <1>5
  <2> QED
    BY <1>2, <2>1, SyncHandsKeep
<1>7. CASE OpenStart \/ Close \/ CloseSet \/ CloseNotify \/ CloseJoin
  <2>1. UNCHANGED <<memory, disk, s_seq>>
    BY <1>7 DEF OpenStart, Close, CloseSet, CloseNotify, CloseJoin, Move, data, counts
  <2> QED
    BY <1>3, <1>4, <1>5, <1>6, <2>1, LaneRests DEF Lane, QueueStep
<1>8. CASE OpenFile
  <2>1. Log2File(Ctl) /\ UNCHANGED <<block, s_seq>>
    BY <1>8 DEF OpenFile, counts
  <2> QED
    BY <1>1, <1>3, <1>4, <1>5, <1>6, <2>1, LaneStores DEF Lane, QueueStep
<1>9. CASE CloseFile
  <2>1. /\ file' = file \o fbuf /\ fbuf' = <<>> /\ UNCHANGED <<memory, s_seq>>
    BY <1>9 DEF CloseFile, counts
  <2>2. Written' = Written
    <3>1. Written \in Seq(Blocks) /\ Written' = Written \o <<>>
      BY <1>1, <2>1, WrittenType DEF Written
    <3> QED
      BY <3>1, ConcatEmptySeq
  <2>3. Filled' /\ QueueRests
    BY <2>1, <2>2, SameIsSame DEF Lane, Filled, QueueRests, Carried, memory
  <2> QED
    BY <1>3, <1>4, <1>5, <1>6, <2>3 DEF Lane, QueueStep
<1>10. CASE CloseWipe
  <2>1. /\ lostInClose' = lostInClose \cup block[log_buff_].recs
        /\ block' = [block EXCEPT ![log_buff_] = Empty]
        /\ UNCHANGED <<chunk, disk, s_seq>> /\ pc[Ctl] = "c_wipe"
    BY <1>10 DEF CloseWipe, counts
  <2>2. log_buff_ \in Stores
    BY <1>1, <2>1 DEF AppenderInv, TypeInv, BufferThere, DataOK
  <2>3. block'[log_buff_] = Empty /\ \A s \in Stores \ {log_buff_} : block'[s] = block[s]
    BY <1>1, <2>1, <2>2
  <2>4. Written' = Written /\ Carried' = Carried
    BY <2>1 DEF disk, Written, Carried
  <2>5. Filled'
    BY <2>1, <2>3, <2>4, EmptyIsWhole DEF Lane, Filled
  <2>6. ~heaped' => QueueStep
    <3> SUFFICES ASSUME ~heaped' PROVE QueueStep
      OBVIOUS
    <3>1. log_buff_ = "mmap"
      BY <1>5, <2>2 DEF Lane, HeapSeen, Stores
    <3>2. CASE block["mmap"].seq = 0
      BY <2>1, <2>3, <2>4, <3>1, <3>2, SameIsSame, EmptyIsWhole DEF QueueStep, QueueRests, SameBlock
    <3>3. CASE block["mmap"].seq # 0
      <4>1. block["mmap"].recs # {}
        BY <2>2, <3>1, <3>3 DEF Lane, Filled, Whole
      <4>2. lostInCrash' \cup lostInClose' # {}
        BY <2>1, <3>1, <4>1
      <4> QED
        BY <2>3, <2>4, <3>1, <4>2, SameIsSame, EmptyIsWhole DEF QueueStep, BlockLost
    <3> QED
      BY <3>2, <3>3
  <2> QED
    BY <1>3, <1>4, <1>5, <1>6, <2>5, <2>6 DEF Lane
<1> QED
  BY <1>7, <1>8, <1>9, <1>10

LEMMA LaneCrash ==
  ASSUME AppenderInv, Lane, Crash
  PROVE  Lane' /\ (~heaped' => QueueStep)
<1>1. /\ DataOK /\ Ctl \in Threads /\ Async \in Threads /\ Ctl # Async
      /\ block \in [Stores -> Blocks] /\ file \in Seq(Blocks) /\ fbuf \in Seq(Blocks)
  BY ThreadFacts DEF AppenderInv, TypeInv, DataOK
<1>2. /\ pc' = [t \in Threads |-> IF t = Ctl THEN "down" ELSE IF t = Async THEN "off" ELSE "idle"]
      /\ log_buff_' = Null /\ chunk' = [t \in Threads |-> Empty]
      /\ block' = [block EXCEPT !["heap"] = Empty]
      /\ file' = file /\ fbuf' = <<>> /\ s_seq' = 0
      /\ lostInCrash' = lostInCrash \cup InChunks \cup BlockRecs(fbuf) \cup block["heap"].recs
  BY DEF Crash
<1>3. block'["heap"] = Empty /\ block'["mmap"] = block["mmap"]
  BY <1>1, <1>2 DEF Stores
<1>4. \A t \in Threads : chunk'[t] = Empty
  BY <1>2
<1>5. Written' = file /\ SomeBuffered(Written, Written')
  <2>1. Written' = file
    BY <1>1, <1>2, ConcatEmptySeq DEF Written
  <2> QED
    BY <1>1, <2>1, PrefixIsSome DEF Written
<1>6. Filled'
  <2>1. \A i \in Buffered(Written)' : Written'[i].recs # {}
    BY <1>5 DEF Lane, Filled, SomeBuffered
  <2>2. \A s \in Stores : Whole(block'[s])
    BY <1>3, EmptyIsWhole DEF Lane, Filled, Stores
  <2> QED
    BY <1>4, <2>1, <2>2, EmptyIsWhole DEF Filled
<1>7. NoTaker' /\ SyncHands' /\ Opening'
  <2>1. pc'[Ctl] = "down" /\ \A t \in Threads : pc'[t] # "w_file"
    BY <1>1, <1>2
  <2>2. \A c \in Callers : pc'[c] = "idle"
    BY <1>2, ThreadFacts
  <2> QED
    BY <2>1, <2>2 DEF NoTaker, SyncHands, Opening
<1>8. HeapSeen'
  BY <1>2, AppenderAssumption DEF HeapSeen, Stores
<1>9. Carried' = Empty
  BY <1>1, <1>4, EmptyIsWhole DEF Carried
<1>10. CASE lostInCrash' \cup lostInClose' # {}
  BY <1>3, <1>5, <1>6, <1>7, <1>8, <1>9, <1>10, SameIsSame, EmptyIsWhole DEF Lane, QueueStep, BlockLost
<1>11. CASE lostInCrash' \cup lostInClose' = {}
  <2>1. InChunks = {} /\ BlockRecs(fbuf) = {}
    BY <1>2, <1>11
  <2>2. \A t \in Threads : chunk[t].seq = 0
    BY <2>1 DEF InChunks, Lane, Filled, Whole
  <2>3. SameBlock(Carried, Carried')
    BY <1>1, <1>9, <2>2, EmptyIsWhole DEF SameBlock, Carried
  <2>4. Buffered(Written) \subseteq Buffered(file)
    <3> SUFFICES ASSUME NEW i \in Buffered(Written), i \notin Buffered(file) PROVE FALSE
      OBVIOUS
    <3>1. PICK z \in Nat, y \in Nat : z = Len(file) /\ y = Len(fbuf)
      BY <1>1, LenProperties
    <3>2. /\ Len(Written) = z + y /\ \A k \in 1 .. z : Written[k] = file[k]
          /\ \A k \in z + 1 .. z + y : Written[k] = fbuf[k - z]
      BY <1>1, <3>1, ConcatProperties DEF Written
    <3>3. i \in 1 .. z + y /\ Written[i].seq # 0
      BY <3>2 DEF Buffered
    <3>4. i \notin 1 .. z
      BY <3>1, <3>2, <3>3 DEF Buffered
    <3>5. i \in z + 1 .. z + y /\ i - z \in 1 .. y
      BY <3>1, <3>3, <3>4
    <3>6. Written[i].recs # {}
      BY DEF Lane, Filled
    <3>7. fbuf[i - z].recs # {} /\ i - z \in DOMAIN fbuf
      BY <1>1, <3>1, <3>2, <3>5, <3>6, LenProperties
    <3> QED
      BY <2>1, <3>7 DEF BlockRecs
  <2>5. SameBuffered(Written, Written')
    BY <1>5, <2>4 DEF SameBuffered, SomeBuffered
  <2> QED
    BY <1>2, <1>3, <1>6, <1>7, <1>8, <2>3, <2>5, SameIsSame DEF Lane, QueueStep, QueueRests
<1> QED
  BY <1>10, <1>11

-----------------------------------------------------------------------------
(* The queue is in order, and so are its numbers.                          *)

LEMMA InQueueNow ==
  ASSUME AppenderInv
  PROVE  UpTo(Written, Carried, block["mmap"], accepted)
<1>1. DataOK /\ Split(InBuffers, InChunks, BlockRecs(Written), lostInCrash, lostInClose, accepted)
  BY DEF AppenderInv, TypeInv, Account
<1>2. /\ InBuffers \subseteq 1 .. accepted /\ InChunks \subseteq 1 .. accepted
      /\ BlockRecs(Written) \subseteq 1 .. accepted
  BY <1>1 DEF Split
<1>3. block["mmap"].recs \subseteq 1 .. accepted
  BY <1>2 DEF InBuffers
<1>4. Carried.recs \subseteq 1 .. accepted
  BY <1>2, ThreadFacts DEF InChunks, Carried
<1>5. \A i \in Buffered(Written) : Written[i].recs \subseteq 1 .. accepted
  <2>1. Written \in Seq(Blocks)
    BY <1>1, WrittenType
  <2>2. Buffered(Written) \subseteq DOMAIN Written
    BY <2>1, LenProperties DEF Buffered
  <2> QED
    BY <1>2, <2>2 DEF BlockRecs
<1> QED
  BY <1>3, <1>4, <1>5 DEF UpTo

\* What has happened stays: a mapping that failed, a loss.
LEMMA LossStays ==
  ASSUME [Next]_vars
  PROVE  /\ heaped => heaped'
         /\ lostInCrash \subseteq lostInCrash' /\ lostInClose \subseteq lostInClose'
<1>1. ASSUME NEW w, WriteEnter(w) \/ WriteStep(w)
      PROVE  heaped' = heaped /\ lostInCrash' = lostInCrash /\ lostInClose' = lostInClose
  BY <1>1 DEF WriteEnter, WriteStep, WriteDispatch, WriteAsyncRefused, WriteAsync, WriteSync,
              WriteSyncFile, Move, data, lost
<1>2. CASE \E c \in Callers : \/ Flush(c) \/ FlushSync(c) \/ CallerStep(c)
                              \/ \E m \in Modes : SetModeStore(c, m)
  BY <1>2 DEF Flush, FlushSync, CallerStep, FlushSyncClosed, FlushSyncTake, FlushSyncFile,
              FlushSyncReturn, SetModeStart, SetModeStore, Move, data, lost
<1>3. CASE AsyncStep
  BY <1>3 DEF AsyncStep, AsyncNoBuffer, AsyncTake, AsyncFile, AsyncCheck, AsyncWait, AsyncTimeout,
              Move, data, lost
<1>4. CASE Open
  BY <1>4 DEF Open
<1>5. CASE Close \/ OpenStart \/ OpenFile \/ CloseSet \/ CloseNotify \/ CloseJoin \/ CloseFile
  BY <1>5 DEF Close, OpenStart, OpenFile, CloseSet, CloseNotify, CloseJoin, CloseFile, Move,
              data, lost
<1>6. CASE CloseWipe
  BY <1>6 DEF CloseWipe
<1>7. CASE Crash
  BY <1>7 DEF Crash
<1>8. CASE UNCHANGED vars
  BY <1>8 DEF vars, data, lost
<1> QED
  BY <1>1, <1>2, <1>3, <1>4, <1>5, <1>6, <1>7, <1>8 DEF Next, CtlStep

\* __GetSeq counts up, or starts again with 1.
LEMMA NextSeqSteps ==
  ASSUME DataOK
  PROVE  NextSeq = 1 \/ (s_seq # 0 /\ NextSeq = s_seq + 1)
<1>1. s_seq \in 0 .. SeqMod - 1 /\ SeqMod \in Nat \ {0, 1}
  BY AppenderAssumption DEF DataOK
<1>2. s_seq + 1 < SeqMod => (s_seq + 1) % SeqMod = s_seq + 1
  BY <1>1
<1>3. s_seq + 1 = SeqMod => (s_seq + 1) % SeqMod = 0
  BY <1>1
<1>4. s_seq + 1 < SeqMod \/ s_seq + 1 = SeqMod
  BY <1>1
<1>5. CASE s_seq + 1 < SeqMod
  <2>1. NextSeq = s_seq + 1
    BY <1>1, <1>2, <1>5 DEF NextSeq
  <2> QED
    BY <1>1, <2>1
<1>6. CASE s_seq + 1 = SeqMod
  BY <1>3, <1>6 DEF NextSeq
<1> QED
  BY <1>4, <1>5, <1>6

QueueInv == ~heaped => InQueue(Written, Carried, block["mmap"])
NumberInv ==
  ~heaped /\ lostInCrash \cup lostInClose = {} =>
    Numbered(Written, Carried, block["mmap"], s_seq)

LEMMA QueueKept ==
  ASSUME AppenderInv, QueueInv, [Next]_vars, ~heaped' => QueueStep
  PROVE  QueueInv'
<1> SUFFICES ASSUME ~heaped' PROVE InQueue(Written', Carried', block'["mmap"])
  BY DEF QueueInv
<1>1. InQueue(Written, Carried, block["mmap"]) /\ accepted \in Nat
  BY LossStays DEF QueueInv, AppenderInv, TypeInv, DataOK
<1>2. CASE QueueRests
  <2>1. SomeBuffered(Written, Written')
    BY <1>2 DEF QueueRests, SameBuffered, SomeBuffered
  <2> QED
    BY <1>1, <1>2, <2>1, QueueSame DEF QueueRests
<1>3. CASE BlockTaken
  BY <1>1, <1>3, QueueTake DEF BlockTaken
<1>4. CASE BlockStored
  BY <1>1, <1>4, QueueStore DEF BlockStored
<1>5. CASE RecordWritten
  <2>1. PICK R \in SUBSET {accepted + 1} : block'["mmap"].recs = block["mmap"].recs \cup R
    BY <1>5 DEF RecordWritten
  <2>2. block'["mmap"].seq = block["mmap"].seq \/ block["mmap"].recs = {}
    BY <1>5 DEF RecordWritten
  <2>3. InQueue(Written, Carried, block'["mmap"])
    BY <1>1, <2>1, <2>2, InQueueNow, QueueWrite
  <2> QED
    BY <1>5, <2>3 DEF RecordWritten
<1>6. CASE BlockLost
  BY <1>1, <1>6, QueueSame DEF BlockLost
<1> QED
  BY <1>2, <1>3, <1>4, <1>5, <1>6 DEF QueueStep

LEMMA NumbersKept ==
  ASSUME AppenderInv, NumberInv, [Next]_vars, ~heaped' => QueueStep
  PROVE  NumberInv'
<1> SUFFICES ASSUME ~heaped', lostInCrash' \cup lostInClose' = {}
             PROVE  Numbered(Written', Carried', block'["mmap"], s_seq')
  BY DEF NumberInv
<1>1. ~heaped /\ lostInCrash \cup lostInClose = {}
  BY LossStays
<1>2. Numbered(Written, Carried, block["mmap"], s_seq) /\ DataOK
  BY <1>1 DEF NumberInv, AppenderInv, TypeInv
<1>3. CASE QueueRests
  BY <1>2, <1>3, NumberedSame DEF QueueRests
<1>4. CASE BlockTaken
  BY <1>2, <1>4, NumberedTake DEF BlockTaken
<1>5. CASE BlockStored
  BY <1>2, <1>5, NumberedStore DEF BlockStored
<1>6. CASE RecordWritten
  <2>1. Written' = Written /\ Carried' = Carried
    BY <1>6 DEF RecordWritten
  <2>2. CASE block'["mmap"].seq = block["mmap"].seq /\ s_seq' = s_seq
    <3>1. Numbered(Written, Carried, block'["mmap"], s_seq)
      BY <1>2, <2>2 DEF Numbered, StepsBehind, Steps
    <3> QED
      BY <2>1, <2>2, <3>1
  <2>3. CASE block["mmap"].seq = 0 /\ block'["mmap"].seq = NextSeq /\ s_seq' = NextSeq
    <3>1. s_seq \in Nat
      BY <1>2, AppenderAssumption DEF DataOK
    <3>2. block'["mmap"].seq = 1 \/ (s_seq # 0 /\ block'["mmap"].seq = s_seq + 1)
      BY <1>2, <2>3, NextSeqSteps
    <3>3. Numbered(Written, Carried, block'["mmap"], block'["mmap"].seq)
      BY <1>2, <2>3, <3>1, <3>2, NumberedNext
    <3> QED
      BY <2>1, <2>3, <3>3
  <2> QED
    BY <1>6, <2>2, <2>3 DEF RecordWritten
<1>7. QueueStep /\ ~BlockLost
  BY DEF BlockLost
<1> QED
  BY <1>3, <1>4, <1>5, <1>6, <1>7 DEF QueueStep

\* In no step a caller begins a FlushSync.
NobodyWaits == \A c \in Callers : ~FlushSync(c)

LineInv == Lane /\ QueueInv /\ NumberInv

LEMMA LineInit == Init => LineInv
<1> SUFFICES ASSUME Init PROVE LineInv
  OBVIOUS
<1>1. /\ \A s \in Stores : block[s] = Empty
      /\ \A t \in Threads : chunk[t] = Empty
      /\ file = <<>> /\ fbuf = <<>> /\ s_seq = 0 /\ log_buff_ = Null
  BY DEF Init
<1>2. Buffered(Written) = {}
  <2>1. Written = <<>>
    BY <1>1 DEF Written
  <2> QED
    BY <2>1 DEF Buffered
<1>3. block["mmap"] = Empty /\ Carried = Empty
  BY <1>1, ThreadFacts DEF Carried, Stores
<1>4. Filled
  BY <1>1, <1>2, EmptyIsWhole DEF Filled
<1>5. SyncHands /\ NoTaker /\ Opening
  <2>1. pc[Ctl] = "down" /\ \A t \in Threads : pc[t] # "w_file"
    BY ThreadFacts DEF Init
  <2>2. \A c \in Callers : pc[c] = "idle"
    BY ThreadFacts DEF Init
  <2> QED
    BY <2>1, <2>2 DEF SyncHands, NoTaker, Opening
<1>6. HeapSeen
  BY <1>1, AppenderAssumption DEF HeapSeen, Stores
<1>7. QueueInv
  BY <1>2, <1>3, EmptyIsWhole DEF QueueInv, InQueue, Ordered
<1>8. NumberInv
  BY <1>1, <1>2, <1>3, EmptyIsWhole DEF NumberInv, Numbered, Stepped
<1> QED
  BY <1>4, <1>5, <1>6, <1>7, <1>8 DEF LineInv, Lane

LEMMA LineStep ==
  ASSUME AppenderInv, LineInv, [Next]_vars, [NobodyWaits]_vars
  PROVE  LineInv'
<1>1. Lane' /\ (~heaped' => QueueStep)
  <2>1. Lane
    BY DEF LineInv
  <2>2. CASE UNCHANGED vars
    <3>1. UNCHANGED <<memory, disk, s_seq, pc, after, log_buff_, heaped>>
      BY <2>2 DEF vars, data, memory, disk, config, counts, lost
    <3>2. SyncHands' /\ NoTaker' /\ Opening' /\ HeapSeen'
      BY <2>1, <3>1 DEF Lane, SyncHands, NoTaker, Opening, HeapSeen, memory
    <3> QED
      BY <2>1, <3>1, <3>2, LaneRests DEF Lane, QueueStep
  <2>3. CASE \E w \in Writers : WriteEnter(w) \/ WriteStep(w)
    BY <2>1, <2>3, LaneWrite
  <2>4. CASE NobodyWaits /\ \E c \in Callers : \/ Flush(c) \/ FlushSync(c) \/ CallerStep(c)
                                               \/ \E m \in Modes : SetModeStore(c, m)
    BY <2>1, <2>4, LaneCaller DEF NobodyWaits
  <2>5. CASE AsyncStep
    BY <2>1, <2>5, LaneAsync
  <2>6. CASE Open
    BY <2>1, <2>6, LaneOpen
  <2>7. CASE Close \/ CtlStep
    BY <2>1, <2>7, LaneCtl, LaneWrite DEF CtlStep
  <2>8. CASE Crash
    BY <2>1, <2>8, LaneCrash
  <2> QED
    BY <2>2, <2>3, <2>4, <2>5, <2>6, <2>7, <2>8 DEF Next
<1>2. QueueInv' /\ NumberInv'
  BY <1>1, QueueKept, NumbersKept DEF LineInv
<1> QED
  BY <1>1, <1>2 DEF LineInv

LEMMA LineInvHolds == Spec /\ [][NobodyWaits]_vars => []LineInv
<1>1. AppenderInv /\ LineInv /\ [Next]_vars /\ [NobodyWaits]_vars => LineInv'
  BY LineStep
<1> QED
  BY <1>1, LineInit, AppenderInvHolds, PTL DEF Spec

\* As long as nobody calls FlushSync, the file keeps the records of the buffer
\* in the order in which they were accepted, whatever the writers, the writer
\* thread, Close, Open and crashes do.
THEOREM FileKeepsOrder == Spec /\ [][NobodyWaits]_vars => []FileInOrder
<1>1. LineInv => FileInOrder
  BY DEF LineInv, QueueInv, InQueue, Ordered, Below, FileInOrder, Written
<1> QED
  BY <1>1, LineInvHolds, PTL

\* And as long as nothing was lost, the numbers of the blocks in the file leave
\* no gap, so that every one the decoder reports is a loss.
THEOREM MissingBlocksAreReal == Spec /\ [][NobodyWaits]_vars => []MissingIsReal
<1>1. AppenderInv /\ LineInv => MissingIsReal
  <2> SUFFICES ASSUME AppenderInv, LineInv, ~heaped, lostInCrash \cup lostInClose = {},
                      NEW i \in Buffered(file), NEW j \in Buffered(file), InTurn(file, i, j)
               PROVE  ~ReportsMissing(file[i], file[j])
    BY DEF MissingIsReal
  <2>1. file \in Seq(Blocks) /\ fbuf \in Seq(Blocks)
    BY DEF AppenderInv, TypeInv, DataOK
  <2>2. PICK z \in Nat, y \in Nat : z = Len(file) /\ y = Len(fbuf)
    BY <2>1, LenProperties
  <2>3. Len(Written) = z + y /\ \A k \in 1 .. z : Written[k] = file[k]
    BY <2>1, <2>2, ConcatProperties DEF Written
  <2>4. i \in 1 .. z /\ j \in 1 .. z /\ i < j /\ \A k \in Buffered(file) : k <= i \/ j <= k
    BY <2>2 DEF Buffered, InTurn
  <2>5. i \in Buffered(Written) /\ j \in Buffered(Written)
    BY <2>1, PrefixIsSome DEF SomeBuffered, Written
  <2>6. \A k \in Buffered(Written) : k <= i \/ j <= k
    <3> SUFFICES ASSUME NEW k \in Buffered(Written), ~(j <= k) PROVE k <= i
      OBVIOUS
    <3>1. k \in 1 .. z + y /\ Written[k].seq # 0
      BY <2>3 DEF Buffered
    <3>2. k \in 1 .. z
      BY <2>4, <3>1
    <3>3. k \in Buffered(file)
      BY <2>2, <2>3, <3>1, <3>2 DEF Buffered
    <3> QED
      BY <2>4, <3>3
  <2>7. InTurn(Written, i, j)
    BY <2>4, <2>6 DEF InTurn
  <2>8. Steps(Written[i], Written[j])
    BY <2>5, <2>7 DEF LineInv, NumberInv, Numbered, Stepped
  <2> QED
    BY <2>3, <2>4, <2>8 DEF Steps, ReportsMissing
<1> QED
  BY <1>1, LineInvHolds, AppenderInvHolds, PTL
=============================================================================
