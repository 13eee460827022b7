----------------------- MODULE XloggerAppenderProofs ------------------------
(***************************************************************************)
(* Theorems about XloggerAppender for every number of threads, every size  *)
(* of the block and every bound: its types, ExactlyOnce, and that it       *)
(* implements LogStore.                                                    *)
(***************************************************************************)
EXTENDS XloggerAppender, SequenceTheorems, TLAPS

-----------------------------------------------------------------------------
(* Lemmas about the operators.                                             *)

\* The value of __GetSeq is a non-zero value of the counter.
LEMMA NextSeqType ==
  ASSUME s_seq \in 0 .. SeqMod - 1
  PROVE  NextSeq \in 1 .. SeqMod - 1
<1>1. SeqMod \in Nat /\ SeqMod > 1
  BY AppenderAssumption
<1>2. (s_seq + 1) % SeqMod \in 0 .. SeqMod - 1
  BY <1>1
<1> QED
  BY <1>1, <1>2 DEF NextSeq

LEMMA EmptyType == Empty \in Blocks
<1>1. SeqMod \in Nat /\ SeqMod > 1
  BY AppenderAssumption
<1> QED
  BY <1>1 DEF Empty, Blocks

LEMMA SyncBlockType ==
  ASSUME NEW r \in Nat
  PROVE  SyncBlock({r}) \in Blocks
<1>1. SeqMod \in Nat /\ SeqMod > 1
  BY AppenderAssumption
<1> QED
  BY <1>1 DEF SyncBlock, Blocks

LEMMA BufferWriteType ==
  ASSUME NEW b \in Blocks, NEW rs \in SUBSET Nat, s_seq \in 0 .. SeqMod - 1
  PROVE  /\ BufferWrite(b, rs) \in Blocks
         /\ SeqAfterWrite(b) \in 0 .. SeqMod - 1
<1>1. SeqMod \in Nat /\ SeqMod > 1
  BY AppenderAssumption
<1>2. NextSeq \in 0 .. SeqMod - 1
  BY <1>1, NextSeqType
<1>3. b.seq \in 0 .. SeqMod - 1 /\ b.recs \in SUBSET Nat /\ b.len \in Nat
  BY DEF Blocks
<1>4. b.recs \cup rs \in SUBSET Nat
  BY <1>3, Zenon
<1>5. b.len + 1 \in Nat
  BY <1>3
<1>6. SeqAfterWrite(b) \in 0 .. SeqMod - 1
  BY <1>2 DEF SeqAfterWrite
<1>7. (IF b.len = 0 THEN NextSeq ELSE b.seq) \in 0 .. SeqMod - 1
  BY <1>2, <1>3
<1> HIDE DEF NextSeq
<1> QED
  BY <1>4, <1>5, <1>6, <1>7 DEF BufferWrite, Blocks

\* What __Log2File does to the two halves of the file: whatever part of it
\* stdio keeps, together they grow by the block that was written.
LEMMA Log2FileAppends ==
  ASSUME NEW t \in Threads, Log2File(t), chunk[t] \in Blocks,
         file \in Seq(Blocks), fbuf \in Seq(Blocks)
  PROVE  /\ file' \in Seq(Blocks) /\ fbuf' \in Seq(Blocks)
         /\ file' \o fbuf' = (file \o fbuf) \o <<chunk[t]>>
         /\ chunk' = [chunk EXCEPT ![t] = Empty]
<1> DEFINE all == Append(fbuf, chunk[t])
<1>1. all = fbuf \o <<chunk[t]>> /\ all \in Seq(Blocks) /\ Len(all) = Len(fbuf) + 1
  BY AppendProperties
<1>2. file \o all = (file \o fbuf) \o <<chunk[t]>>
  BY <1>1, ConcatAssociative
<1>3. chunk' = [chunk EXCEPT ![t] = Empty]
  BY DEF Log2File
<1>4. CASE mode = "async"
  <2>1. file' = file \o all /\ fbuf' = <<>>
    BY <1>4 DEF Log2File
  <2>2. file' \in Seq(Blocks) /\ file' \o fbuf' = file \o all
    BY <1>1, <2>1, ConcatProperties, ConcatEmptySeq
  <2> QED
    BY <1>2, <1>3, <2>1, <2>2
<1>5. CASE mode # "async"
  <2>1. PICK k \in 0 .. Len(all) : /\ file' = file \o SubSeq(all, 1, k)
                                   /\ fbuf' = SubSeq(all, k + 1, Len(all))
    BY <1>5 DEF Log2File
  <2> DEFINE s1 == SubSeq(all, 1, k)
             s2 == SubSeq(all, k + 1, Len(all))
  <2>2. Len(all) \in Nat /\ k \in 0 .. Len(all)
    BY <1>1, LenProperties
  <2>3. s1 \in Seq(Blocks) /\ s2 \in Seq(Blocks)
    <3>1. \A i \in 1 .. Len(all) : all[i] \in Blocks
      BY <1>1, ElementOfSeq
    <3>2. /\ \A i \in 1 .. k : all[i] \in Blocks
          /\ \A i \in k + 1 .. Len(all) : all[i] \in Blocks
      BY <2>2, <3>1
    <3> HIDE DEF all
    <3> QED
      BY <2>2, <3>2, SubSeqProperties
  <2>4. s1 \o s2 = all
    <3>1. 1 \in 1 .. Len(all) + 1 /\ k \in 1 - 1 .. Len(all) /\ Len(all) \in k .. Len(all)
      BY <2>2
    <3> HIDE DEF all
    <3>2. s1 \o s2 = SubSeq(all, 1, Len(all))
      BY <1>1, <3>1, ConcatAdjacentSubSeq
    <3> QED
      BY <1>1, <3>2, SubSeqFull
  <2>5. file' = file \o s1 /\ fbuf' = s2
    BY <2>1
  <2> HIDE DEF s1, s2
  <2>6. (file \o s1) \o s2 = file \o (s1 \o s2)
    BY <2>3, ConcatAssociative
  <2>7. file' \in Seq(Blocks) /\ fbuf' \in Seq(Blocks)
    BY <2>3, <2>5, ConcatProperties
  <2> QED
    BY <1>2, <1>3, <2>4, <2>5, <2>6, <2>7
<1> QED
  BY <1>4, <1>5

-----------------------------------------------------------------------------
(* Type correctness.                                                       *)

PcOK == pc \in [Threads -> Labels] /\ \A t \in Threads : pc[t] \in LabelsOf(t)

LEMMA ThreadFacts ==
  /\ Ctl \in Threads /\ Async \in Threads /\ Ctl # Async
  /\ \A t \in Threads : t \in Writers \/ t \in Callers \/ t = Ctl \/ t = Async
  /\ \A w \in Writers : w \in Threads /\ w \notin Callers /\ w # Ctl /\ w # Async
  /\ \A c \in Callers : c \in Threads /\ c \notin Writers /\ c # Ctl /\ c # Async
BY AppenderAssumption DEF Threads

\* Where a step may send a thread, and what it leaves alone.
LEMMA GotoType ==
  ASSUME PcOK, NEW t \in Threads, NEW l \in LabelsOf(t)
  PROVE  /\ Goto(t, l) => /\ PcOK' /\ pc'[t] = l
                          /\ \A u \in Threads \ {t} : pc'[u] = pc[u]
         /\ t # Async /\ GotoAndNotify(t, l) =>
              /\ PcOK' /\ pc'[t] = l
              /\ \A u \in Threads \ {t, Async} : pc'[u] = pc[u]
<1> DEFINE a == IF pc[Async] = "wait" THEN "top" ELSE pc[Async]
<1>1. l \in Labels
  BY DEF LabelsOf, Labels, WriteLabels, CallerLabels, AsyncLabels, CtlLabels
<1>2. "top" \in LabelsOf(Async) /\ "top" \in Labels
  BY ThreadFacts DEF LabelsOf, AsyncLabels, Labels
<1>3. a \in LabelsOf(Async) /\ a \in Labels
  BY <1>2, ThreadFacts DEF PcOK
<1>4. ASSUME Goto(t, l)
      PROVE  PcOK' /\ pc'[t] = l /\ \A u \in Threads \ {t} : pc'[u] = pc[u]
  BY <1>1, <1>4 DEF PcOK, Goto
<1>5. ASSUME t # Async, GotoAndNotify(t, l)
      PROVE  PcOK' /\ pc'[t] = l /\ \A u \in Threads \ {t, Async} : pc'[u] = pc[u]
  <2>1. pc' = [pc EXCEPT ![t] = l, ![Async] = a]
    BY <1>5, ThreadFacts DEF PcOK, GotoAndNotify
  <2> HIDE DEF a
  <2> QED
    BY <1>1, <1>3, <1>5, <2>1, ThreadFacts DEF PcOK
<1> QED
  BY <1>4, <1>5

\* The writer thread ends.
LEMMA GotoEndType ==
  ASSUME PcOK, GotoEnd
  PROVE  /\ PcOK'
         /\ pc'[Ctl] = IF pc[Ctl] = "c_join" THEN "c_wipe" ELSE pc[Ctl]
         /\ \A u \in Threads \ {Ctl, Async} : pc'[u] = pc[u]
         /\ pc'[Async] = "ended"
<1> DEFINE a == IF pc[Ctl] = "c_join" THEN "c_wipe" ELSE pc[Ctl]
<1>1. pc' = [pc EXCEPT ![Async] = "ended", ![Ctl] = a]
  BY ThreadFacts DEF PcOK, GotoEnd
<1>2. a \in LabelsOf(Ctl) /\ a \in Labels
  BY ThreadFacts DEF PcOK, LabelsOf, Labels, CtlLabels
<1>3. "ended" \in LabelsOf(Async) /\ "ended" \in Labels
  BY ThreadFacts DEF LabelsOf, Labels, AsyncLabels
<1> HIDE DEF a
<1>4. PcOK'
  BY <1>1, <1>2, <1>3, ThreadFacts DEF PcOK
<1> QED
  BY <1>1, <1>4, ThreadFacts DEF PcOK, a

DataOK ==
  /\ after \in {"open", "c_set"}
  /\ mode \in {"sync", "async"} /\ log_close_ \in BOOLEAN
  /\ log_buff_ \in Stores \cup {Null}
  /\ block \in [Stores -> Blocks] /\ chunk \in [Threads -> Blocks]
  /\ fbuf \in Seq(Blocks) /\ file \in Seq(Blocks)
  /\ s_seq \in 0 .. SeqMod - 1
  /\ accepted \in Nat /\ nwrites \in Nat /\ restarts \in Nat
  /\ lostInCrash \in SUBSET Nat /\ lostInClose \in SUBSET Nat
  /\ heaped \in BOOLEAN
  /\ owedFlush \in [Callers -> SUBSET Nat] /\ owedClose \in SUBSET Nat
  /\ parked \in BOOLEAN

\* The buffer object exists from Open until Close deletes it.
BufferThere == pc[Ctl] \in {"down", "c_file", "closed"} <=> log_buff_ = Null

TypeInv == PcOK /\ DataOK /\ BufferThere

LEMMA TypeInvIsTypeOK == TypeInv => TypeOK
BY DEF TypeInv, TypeOK, PcOK, DataOK

LEMMA DataUnchanged == DataOK /\ UNCHANGED data => DataOK'
BY DEF DataOK, data, config, memory, disk, counts, lost, owed

LEMMA ReturnType ==
  ASSUME DataOK, NEW t \in Writers \cup {Ctl}
  PROVE  Return(t) \in LabelsOf(t) /\ (t = Ctl => Return(t) \notin {"down", "c_file", "closed"})
BY ThreadFacts DEF Return, LabelsOf, CtlLabels, DataOK

LEMMA WriteLabelsType ==
  ASSUME NEW t \in Writers \cup {Ctl}, NEW l \in WriteLabels
  PROVE  l \in LabelsOf(t) /\ l \notin {"down", "c_file", "closed"}
BY ThreadFacts DEF LabelsOf, CtlLabels, WriteLabels

LEMMA PendingType == DataOK => Pending \in SUBSET Nat
<1>1. SUFFICES ASSUME DataOK, NEW r \in Pending PROVE r \in Nat
  OBVIOUS
<1>2. \A b \in Blocks : b.recs \in SUBSET Nat
  BY DEF Blocks
<1>3. ASSUME r \in InBuffers PROVE r \in Nat
  BY <1>1, <1>2, <1>3 DEF DataOK, InBuffers, Stores
<1>4. ASSUME r \in InChunks PROVE r \in Nat
  BY <1>1, <1>2, <1>4 DEF DataOK, InChunks
<1>5. ASSUME r \in BlockRecs(fbuf) PROVE r \in Nat
  <2>1. PICK i \in DOMAIN fbuf : r \in fbuf[i].recs
    BY <1>5 DEF BlockRecs
  <2>2. fbuf[i] \in Blocks
    BY <1>1, LenProperties, ElementOfSeq DEF DataOK
  <2> QED
    BY <1>2, <2>1, <2>2
<1> QED
  BY <1>3, <1>4, <1>5 DEF Pending

LEMMA Log2FileType ==
  ASSUME DataOK, NEW t \in Threads, Log2File(t)
  PROVE  /\ file' \in Seq(Blocks) /\ fbuf' \in Seq(Blocks)
         /\ chunk' \in [Threads -> Blocks]
<1>1. chunk[t] \in Blocks /\ file \in Seq(Blocks) /\ fbuf \in Seq(Blocks)
  BY DEF DataOK
<1> QED
  BY <1>1, Log2FileAppends, EmptyType DEF DataOK

LEMMA TakeBlockType ==
  ASSUME DataOK, NEW t \in Threads, log_buff_ # Null, TakeBlock(t)
  PROVE  block' \in [Stores -> Blocks] /\ chunk' \in [Threads -> Blocks]
BY EmptyType DEF DataOK, TakeBlock

\* Every step of Write keeps the types.
LEMMA WriteType ==
  ASSUME TypeInv, NEW t \in Writers \cup {Ctl}, WriteEnter(t) \/ WriteStep(t)
  PROVE  TypeInv'
<1>1. t \in Threads /\ t # Async
  BY ThreadFacts
<1>2. pc[t] \in WriteLabels \cup {"w_enter"} => (pc[t] \notin {"down", "c_file", "closed"})
  BY DEF WriteLabels
<1>3. Return(t) \in LabelsOf(t) /\ (t = Ctl => Return(t) \notin {"down", "c_file", "closed"})
  BY ReturnType DEF TypeInv
<1>4. \A l \in WriteLabels : l \in LabelsOf(t) /\ l \notin {"down", "c_file", "closed"}
  BY WriteLabelsType
\* All that is left to show of a step, once it is known where t goes.
<1>5. ASSUME NEW l \in LabelsOf(t), Goto(t, l) \/ GotoAndNotify(t, l), t = Ctl => l \notin {"down", "c_file", "closed"},
             t = Ctl => pc[t] \in WriteLabels \cup {"w_enter"},
             UNCHANGED log_buff_
      PROVE  PcOK' /\ BufferThere'
  <2>1. /\ PcOK' /\ pc'[t] = l
        /\ \A u \in Threads \ {t, Async} : pc'[u] = pc[u]
    BY <1>1, <1>5, GotoType DEF TypeInv
  <2>2. pc'[Ctl] \in {"down", "c_file", "closed"} <=> pc[Ctl] \in {"down", "c_file", "closed"}
    BY <1>2, <1>5, <2>1, ThreadFacts
  <2> QED
    BY <1>5, <2>1, <2>2 DEF TypeInv, BufferThere
<1>6. CASE WriteEnter(t)
  <2>1. DataOK'
    BY <1>6 DEF WriteEnter, TypeInv, DataOK, config, memory, disk, lost, owed
  <2>2. t = Ctl => pc[t] = "w_enter"
    BY <1>6 DEF WriteEnter, MayEnter
  <2>3. UNCHANGED log_buff_
    BY <1>6 DEF WriteEnter, config
  <2>4. "w_dispatch" \in WriteLabels
    BY DEF WriteLabels
  <2>5. PICK l \in {Return(t), "w_dispatch"} : Goto(t, l)
    BY <1>6 DEF WriteEnter
  <2> QED
    BY <1>3, <1>4, <1>5, <2>1, <2>2, <2>3, <2>4, <2>5 DEF TypeInv
<1>7. CASE WriteDispatch(t)
  <2>1. DataOK' /\ UNCHANGED log_buff_
    BY <1>7, DataUnchanged DEF TypeInv, WriteDispatch, Move, data, config
  <2>2. pc[t] \in WriteLabels /\ "w_sync" \in WriteLabels /\ "w_async" \in WriteLabels
    BY <1>7 DEF WriteDispatch, WriteLabels
  <2>3. PICK l \in {"w_sync", "w_async"} : Goto(t, l)
    BY <1>7 DEF WriteDispatch, Move
  <2> QED
    BY <1>4, <1>5, <2>1, <2>2, <2>3 DEF TypeInv
<1>8. CASE WriteAsyncRefused(t)
  <2>1. DataOK' /\ UNCHANGED log_buff_
    BY <1>8, DataUnchanged DEF TypeInv, WriteAsyncRefused, Move, data, config
  <2>2. pc[t] \in WriteLabels
    BY <1>8 DEF WriteAsyncRefused, WriteLabels
  <2>3. Goto(t, Return(t))
    BY <1>8 DEF WriteAsyncRefused, Move
  <2> QED
    BY <1>3, <1>5, <2>1, <2>2, <2>3 DEF TypeInv
<1>9. CASE WriteAsync(t)
  <2> DEFINE b == block[log_buff_]
             rs == IF b.len >= TipAt THEN {} ELSE {accepted + 1}
  <2>1. log_buff_ # Null /\ b \in Blocks
    BY <1>9 DEF WriteAsync, TypeInv, DataOK
  <2>2. accepted \in Nat /\ s_seq \in 0 .. SeqMod - 1
    BY DEF TypeInv, DataOK
  <2>3. rs \in SUBSET Nat
    BY <2>2
  <2>4. BufferWrite(b, rs) \in Blocks /\ SeqAfterWrite(b) \in 0 .. SeqMod - 1
    <3> HIDE DEF b, rs
    <3> QED
      BY <2>1, <2>2, <2>3, BufferWriteType
  <2>5. /\ block' = [block EXCEPT ![log_buff_] = BufferWrite(b, rs)]
        /\ s_seq' = SeqAfterWrite(b)
        /\ accepted' \in {accepted, accepted + 1}
        /\ UNCHANGED <<config, chunk, disk, nwrites, restarts, lost, owed>>
    BY <1>9 DEF WriteAsync
  <2>6. pc[t] \in WriteLabels
    BY <1>9 DEF WriteAsync, WriteLabels
  <2>7. Goto(t, Return(t)) \/ GotoAndNotify(t, Return(t))
    BY <1>9 DEF WriteAsync
  <2> HIDE DEF b, rs
  <2>8. block' \in [Stores -> Blocks] /\ accepted' \in Nat /\ s_seq' \in 0 .. SeqMod - 1
    <3>1. block \in [Stores -> Blocks]
      BY DEF TypeInv, DataOK
    <3>2. block' \in [Stores -> Blocks]
      BY <2>4, <2>5, <3>1
    <3>3. accepted' \in Nat
      BY <2>2, <2>5
    <3>4. s_seq' \in 0 .. SeqMod - 1
      BY <2>4, <2>5, Zenon
    <3> QED
      BY <3>2, <3>3, <3>4
  <2>9. DataOK'
    BY <2>5, <2>8 DEF TypeInv, DataOK, config, disk, lost, owed
  <2>10. UNCHANGED log_buff_
    BY <2>5 DEF config
  <2> QED
    BY <1>3, <1>5, <2>6, <2>7, <2>9, <2>10 DEF TypeInv
<1>10. CASE WriteSync(t)
  <2>1. accepted + 1 \in Nat /\ SyncBlock({accepted + 1}) \in Blocks
    BY SyncBlockType DEF TypeInv, DataOK
  <2>2. chunk' \in [Threads -> Blocks] /\ accepted' \in Nat
    BY <1>10, <2>1 DEF WriteSync, TypeInv, DataOK
  <2>3. DataOK' /\ UNCHANGED log_buff_
    BY <1>10, <2>2 DEF WriteSync, TypeInv, DataOK, config, disk, lost, owed
  <2>4. pc[t] \in WriteLabels /\ "w_file" \in WriteLabels /\ Goto(t, "w_file")
    BY <1>10 DEF WriteSync, WriteLabels
  <2> QED
    BY <1>4, <1>5, <2>3, <2>4 DEF TypeInv
<1>11. CASE WriteSyncFile(t)
  <2>1. /\ file' \in Seq(Blocks) /\ fbuf' \in Seq(Blocks)
        /\ chunk' \in [Threads -> Blocks]
    BY <1>1, <1>11, Log2FileType DEF WriteSyncFile, TypeInv
  <2>2. DataOK' /\ UNCHANGED log_buff_
    BY <1>11, <2>1 DEF WriteSyncFile, TypeInv, DataOK, config, counts, lost, owed
  <2>3. pc[t] \in WriteLabels /\ Goto(t, Return(t))
    BY <1>11 DEF WriteSyncFile, WriteLabels
  <2> QED
    BY <1>3, <1>5, <2>2, <2>3 DEF TypeInv
<1> QED
  BY <1>6, <1>7, <1>8, <1>9, <1>10, <1>11 DEF WriteStep

\* Every step of Flush, FlushSync and SetMode keeps the types.
LEMMA CallerType ==
  ASSUME TypeInv, NEW c \in Callers,
         Flush(c) \/ FlushSync(c) \/ CallerStep(c) \/ \E m \in Modes : SetModeStore(c, m)
  PROVE  TypeInv'
<1>1. c \in Threads /\ c # Async /\ c # Ctl
  BY ThreadFacts
<1>2. \A l \in {"idle"} \cup CallerLabels : l \in LabelsOf(c)
  BY ThreadFacts DEF LabelsOf
<1>3. ASSUME NEW l \in {"idle"} \cup CallerLabels, Goto(c, l) \/ GotoAndNotify(c, l),
             UNCHANGED log_buff_
      PROVE  PcOK' /\ BufferThere'
  <2>1. /\ PcOK' /\ pc'[c] = l
        /\ \A u \in Threads \ {c, Async} : pc'[u] = pc[u]
    BY <1>1, <1>2, <1>3, GotoType DEF TypeInv
  <2> QED
    BY <1>1, <1>3, <2>1, ThreadFacts DEF TypeInv, BufferThere
<1>4. ASSUME NEW P \in SUBSET Nat, owedFlush' = [owedFlush EXCEPT ![c] = P]
      PROVE  owedFlush' \in [Callers -> SUBSET Nat]
  BY <1>4 DEF TypeInv, DataOK
<1>5. CASE Flush(c)
  BY <1>3, <1>5, DataUnchanged DEF Flush, TypeInv, data, config
<1>6. CASE FlushSync(c)
  <2>1. owedFlush' \in [Callers -> SUBSET Nat]
    BY <1>4, <1>6, PendingType DEF FlushSync, TypeInv
  <2>2. DataOK' /\ UNCHANGED log_buff_
    BY <1>6, <2>1 DEF FlushSync, TypeInv, DataOK, config, memory, disk, counts, lost
  <2> QED
    BY <1>3, <1>6, <2>2 DEF FlushSync, TypeInv, CallerLabels
<1>7. CASE FlushSyncClosed(c) \/ FlushSyncReturn(c)
  <2>1. owedFlush' \in [Callers -> SUBSET Nat]
    BY <1>4, <1>7 DEF FlushSyncClosed, FlushSyncReturn
  <2>2. DataOK' /\ UNCHANGED log_buff_
    BY <1>7, <2>1 DEF FlushSyncClosed, FlushSyncReturn, TypeInv, DataOK,
                      config, memory, disk, counts, lost
  <2> QED
    BY <1>3, <1>7, <2>2 DEF FlushSyncClosed, FlushSyncReturn, TypeInv
<1>8. CASE FlushSyncTake(c)
  <2>1. block' \in [Stores -> Blocks] /\ chunk' \in [Threads -> Blocks]
    BY <1>1, <1>8, TakeBlockType DEF FlushSyncTake, TypeInv
  <2>2. DataOK' /\ UNCHANGED log_buff_
    BY <1>8, <2>1 DEF FlushSyncTake, TypeInv, DataOK, config, disk, counts, lost, owed
  <2> QED
    BY <1>3, <1>8, <2>2 DEF FlushSyncTake, TypeInv, CallerLabels
<1>9. CASE FlushSyncFile(c)
  <2>1. /\ file' \in Seq(Blocks) /\ fbuf' \in Seq(Blocks)
        /\ chunk' \in [Threads -> Blocks]
    BY <1>1, <1>9, Log2FileType DEF FlushSyncFile, TypeInv
  <2>2. DataOK' /\ UNCHANGED log_buff_
    BY <1>9, <2>1 DEF FlushSyncFile, TypeInv, DataOK, config, counts, lost, owed
  <2> QED
    BY <1>3, <1>9, <2>2 DEF FlushSyncFile, TypeInv, CallerLabels
<1>10. ASSUME NEW m \in Modes, SetModeStore(c, m)
       PROVE  TypeInv'
  <2>1. mode' \in {"sync", "async"}
    BY <1>10, AppenderAssumption DEF SetModeStore
  <2>2. DataOK' /\ UNCHANGED log_buff_
    BY <1>10, <2>1 DEF SetModeStore, TypeInv, DataOK, memory, disk, counts, lost, owed
  <2> QED
    BY <1>3, <1>10, <2>2 DEF SetModeStore, TypeInv, CallerLabels
<1>11. CASE SetModeStart(c)
  <2>1. DataOK' /\ UNCHANGED log_buff_
    BY <1>11, DataUnchanged DEF SetModeStart, TypeInv, data, config
  <2>2. CASE GotoAndNotify(c, "idle")
    BY <1>3, <2>1, <2>2 DEF TypeInv
  <2>3. CASE pc' = [pc EXCEPT ![c] = "idle", ![Async] = "top"]
    <3>1. "top" \in Labels /\ "top" \in LabelsOf(Async) /\ "idle" \in Labels
      BY ThreadFacts DEF Labels, LabelsOf, AsyncLabels
    <3>2. PcOK'
      BY <1>1, <1>2, <2>3, <3>1, ThreadFacts DEF TypeInv, PcOK
    <3>3. pc'[Ctl] = pc[Ctl]
      BY <1>1, <2>3, ThreadFacts DEF TypeInv, PcOK
    <3> QED
      BY <2>1, <3>2, <3>3 DEF TypeInv, BufferThere
  <2> QED
    BY <1>11, <2>2, <2>3 DEF SetModeStart
<1> QED
  BY <1>5, <1>6, <1>7, <1>8, <1>9, <1>10, <1>11 DEF CallerStep

\* Every step of the writer thread keeps the types.
LEMMA AsyncType ==
  ASSUME TypeInv, AsyncStep
  PROVE  TypeInv'
<1>1. Async \in Threads /\ \A l \in AsyncLabels : l \in LabelsOf(Async)
  BY ThreadFacts DEF LabelsOf
<1>2. ASSUME NEW l \in AsyncLabels, Goto(Async, l), UNCHANGED log_buff_
      PROVE  PcOK' /\ BufferThere'
  <2>1. PcOK' /\ \A u \in Threads \ {Async} : pc'[u] = pc[u]
    BY <1>1, <1>2, GotoType DEF TypeInv
  <2> QED
    BY <1>2, <2>1, ThreadFacts DEF TypeInv, BufferThere
<1>3. ASSUME GotoEnd, UNCHANGED log_buff_
      PROVE  PcOK' /\ BufferThere'
  BY <1>3, GotoEndType DEF TypeInv, BufferThere
<1>4. CASE AsyncNoBuffer
  BY <1>3, <1>4, DataUnchanged DEF AsyncNoBuffer, TypeInv, data, config
<1>5. CASE AsyncTake
  <2>1. block' \in [Stores -> Blocks] /\ chunk' \in [Threads -> Blocks]
    BY <1>1, <1>5, TakeBlockType DEF AsyncTake, TypeInv
  <2>2. DataOK' /\ UNCHANGED log_buff_
    BY <1>5, <2>1 DEF AsyncTake, TypeInv, DataOK, config, disk, counts, lost, owed
  <2> QED
    BY <1>2, <1>5, <2>2 DEF AsyncTake, TypeInv, AsyncLabels
<1>6. CASE AsyncFile
  <2>1. /\ file' \in Seq(Blocks) /\ fbuf' \in Seq(Blocks)
        /\ chunk' \in [Threads -> Blocks]
    BY <1>1, <1>6, Log2FileType DEF AsyncFile, TypeInv
  <2>2. DataOK' /\ UNCHANGED log_buff_
    BY <1>6, <2>1 DEF AsyncFile, TypeInv, DataOK, config, counts, lost, owed
  <2> QED
    BY <1>2, <1>6, <2>2 DEF AsyncFile, TypeInv, AsyncLabels
<1>7. CASE AsyncCheck
  BY <1>2, <1>3, <1>7, DataUnchanged DEF AsyncCheck, TypeInv, AsyncLabels, data, config
<1>8. CASE AsyncWait \/ AsyncTimeout
  BY <1>2, <1>8, DataUnchanged DEF AsyncWait, AsyncTimeout, Move, TypeInv, AsyncLabels,
                                   data, config
<1> QED
  BY <1>4, <1>5, <1>6, <1>7, <1>8 DEF AsyncStep

\* Every step of Open and Close keeps the types.
LEMMA CtlType ==
  ASSUME TypeInv,
         \/ Open \/ OpenStart \/ OpenFile
         \/ Close \/ CloseSet \/ CloseNotify \/ CloseJoin \/ CloseWipe \/ CloseFile
  PROVE  TypeInv'
<1>1. Ctl \in Threads /\ Ctl # Async /\ \A l \in CtlLabels : l \in LabelsOf(Ctl)
  BY ThreadFacts DEF LabelsOf
<1>2. ASSUME NEW l \in CtlLabels, Goto(Ctl, l) \/ GotoAndNotify(Ctl, l)
      PROVE  PcOK' /\ pc'[Ctl] = l
  BY <1>1, <1>2, GotoType DEF TypeInv
<1>3. CASE Open
  <2>1. PICK s \in OpenStores : /\ log_buff_' = s
                                /\ chunk' = [chunk EXCEPT ![Ctl] = block[s]]
                                /\ block' = [block EXCEPT ![s] = Empty]
    BY <1>3 DEF Open
  <2>2. s \in Stores /\ s # Null
    BY AppenderAssumption
  <2>3. block' \in [Stores -> Blocks] /\ chunk' \in [Threads -> Blocks]
    BY <2>1, <2>2, EmptyType DEF TypeInv, DataOK
  <2>4. DataOK'
    BY <1>3, <2>1, <2>2, <2>3 DEF Open, TypeInv, DataOK, disk, counts, lost, owed
  <2> QED
    BY <1>2, <1>3, <2>1, <2>2, <2>4 DEF Open, TypeInv, BufferThere, CtlLabels
<1>4. CASE OpenStart
  <2>1. PICK m \in Modes :
          /\ mode' = m
          /\ pc' = [pc EXCEPT ![Ctl] = IF chunk[Ctl].len > 0 THEN "o_file" ELSE "w_enter",
                              ![Async] = IF m = "async" THEN "top" ELSE "off"]
    BY <1>4 DEF OpenStart
  <2>2. mode' \in {"sync", "async"}
    BY <2>1, AppenderAssumption
  <2>3. DataOK' /\ UNCHANGED log_buff_
    BY <1>4, <2>2 DEF OpenStart, TypeInv, DataOK, memory, disk, counts, lost, owed
  <2> DEFINE l == IF chunk[Ctl].len > 0 THEN "o_file" ELSE "w_enter"
             a == IF m = "async" THEN "top" ELSE "off"
  <2>4. l \in CtlLabels /\ l \notin {"down", "c_file", "closed"} /\ l \in Labels
    BY DEF CtlLabels, Labels
  <2>5. a \in LabelsOf(Async) /\ a \in Labels
    BY ThreadFacts DEF LabelsOf, Labels, AsyncLabels
  <2>6. pc' = [pc EXCEPT ![Ctl] = l, ![Async] = a]
    BY <2>1
  <2> HIDE DEF l, a
  <2>7. PcOK' /\ pc'[Ctl] = l
    BY <1>1, <2>4, <2>5, <2>6, ThreadFacts DEF TypeInv, PcOK
  <2>8. pc[Ctl] = "o_start"
    BY <1>4 DEF OpenStart
  <2> QED
    BY <2>3, <2>4, <2>7, <2>8 DEF TypeInv, BufferThere
<1>5. CASE OpenFile
  <2>1. /\ file' \in Seq(Blocks) /\ fbuf' \in Seq(Blocks)
        /\ chunk' \in [Threads -> Blocks]
    BY <1>1, <1>5, Log2FileType DEF OpenFile, TypeInv
  <2>2. DataOK' /\ UNCHANGED log_buff_
    BY <1>5, <2>1 DEF OpenFile, TypeInv, DataOK, config, counts, lost, owed
  <2> QED
    BY <1>2, <1>5, <2>2 DEF OpenFile, TypeInv, BufferThere, CtlLabels
<1>6. CASE Close
  <2>1. DataOK' /\ UNCHANGED log_buff_
    BY <1>6 DEF Close, TypeInv, DataOK, memory, disk, counts, lost, owed
  <2> QED
    BY <1>2, <1>6, <2>1 DEF Close, TypeInv, BufferThere, CtlLabels
<1>7. CASE CloseSet
  <2>1. owedClose' \in SUBSET Nat /\ parked' \in BOOLEAN
    BY <1>7, PendingType DEF CloseSet, TypeInv
  <2>2. DataOK' /\ UNCHANGED log_buff_
    BY <1>7, <2>1 DEF CloseSet, TypeInv, DataOK, memory, disk, counts, lost
  <2> QED
    BY <1>2, <1>7, <2>2 DEF CloseSet, TypeInv, BufferThere, CtlLabels
<1>8. CASE CloseNotify
  BY <1>2, <1>8, DataUnchanged DEF CloseNotify, TypeInv, BufferThere, CtlLabels, data, config
<1>9. CASE CloseJoin
  BY <1>2, <1>9, DataUnchanged DEF CloseJoin, Move, TypeInv, BufferThere, CtlLabels, data, config
<1>10. CASE CloseWipe
  <2>1. log_buff_ \in Stores
    BY <1>10 DEF CloseWipe, TypeInv, BufferThere, DataOK
  <2>2. block[log_buff_].recs \in SUBSET Nat
    BY <2>1 DEF TypeInv, DataOK, Blocks
  <2>3. lostInClose' \in SUBSET Nat
    BY <1>10, <2>2 DEF CloseWipe, TypeInv, DataOK
  <2>4. block' \in [Stores -> Blocks]
    BY <1>10, EmptyType DEF CloseWipe, TypeInv, DataOK
  <2>5. DataOK' /\ log_buff_' = Null
    BY <1>10, <2>3, <2>4 DEF CloseWipe, TypeInv, DataOK, disk, counts, owed
  <2> QED
    BY <1>2, <1>10, <2>5 DEF CloseWipe, TypeInv, BufferThere, CtlLabels
<1>11. CASE CloseFile
  <2>1. file' \in Seq(Blocks) /\ fbuf' \in Seq(Blocks)
    BY <1>11, ConcatProperties, EmptySeq DEF CloseFile, TypeInv, DataOK
  <2>2. DataOK' /\ UNCHANGED log_buff_
    BY <1>11, <2>1 DEF CloseFile, TypeInv, DataOK, config, memory, counts, lost, owed
  <2> QED
    BY <1>2, <1>11, <2>2 DEF CloseFile, TypeInv, BufferThere, CtlLabels
<1> QED
  BY <1>3, <1>4, <1>5, <1>6, <1>7, <1>8, <1>9, <1>10, <1>11

\* What a new process starts with has the right types.
LEMMA StartLabels ==
  ASSUME pc' = [t \in Threads |-> IF t = Ctl THEN "down" ELSE IF t = Async THEN "off" ELSE "idle"]
  PROVE  PcOK' /\ pc'[Ctl] = "down"
BY ThreadFacts DEF PcOK, Labels, LabelsOf, AsyncLabels, CtlLabels

LEMMA CrashType ==
  ASSUME TypeInv, Crash
  PROVE  TypeInv'
<1>1. PcOK' /\ pc'[Ctl] = "down" /\ log_buff_' = Null
  BY StartLabels DEF Crash
<1>2. block' \in [Stores -> Blocks] /\ chunk' \in [Threads -> Blocks]
  BY EmptyType DEF Crash, TypeInv, DataOK
<1>3. fbuf' \in Seq(Blocks)
  BY EmptySeq DEF Crash
<1>4. lostInCrash' \in SUBSET Nat
  <2>1. Pending \in SUBSET Nat /\ lostInCrash \in SUBSET Nat
    BY PendingType DEF TypeInv, DataOK
  <2>2. lostInCrash' = lostInCrash \cup InChunks \cup BlockRecs(fbuf) \cup block["heap"].recs
    BY DEF Crash
  <2>3. lostInCrash' \subseteq lostInCrash \cup Pending
    BY <2>2 DEF Pending, InBuffers
  <2> QED
    BY <2>1, <2>3
<1>5. s_seq' \in 0 .. SeqMod - 1 /\ restarts' \in Nat
  BY AppenderAssumption DEF Crash, TypeInv, DataOK
<1>6. owedFlush' \in [Callers -> SUBSET Nat]
  BY DEF Crash
<1>7. DataOK'
  BY <1>1, <1>2, <1>3, <1>4, <1>5, <1>6 DEF Crash, TypeInv, DataOK
<1> QED
  BY <1>1, <1>7 DEF TypeInv, BufferThere

LEMMA InitType == Init => TypeInv
<1> SUFFICES ASSUME Init PROVE TypeInv
  OBVIOUS
<1>1. PcOK /\ pc[Ctl] = "down" /\ log_buff_ = Null
  BY ThreadFacts DEF Init, PcOK, Labels, LabelsOf, AsyncLabels, CtlLabels
<1>2. block \in [Stores -> Blocks] /\ chunk \in [Threads -> Blocks]
  BY EmptyType DEF Init
<1>3. fbuf \in Seq(Blocks) /\ file \in Seq(Blocks)
  BY EmptySeq DEF Init
<1>4. s_seq \in 0 .. SeqMod - 1
  BY AppenderAssumption DEF Init
<1> QED
  BY <1>1, <1>2, <1>3, <1>4 DEF Init, TypeInv, DataOK, BufferThere

LEMMA NextType == TypeInv /\ [Next]_vars => TypeInv'
<1> SUFFICES ASSUME TypeInv, [Next]_vars PROVE TypeInv'
  OBVIOUS
<1>1. CASE \E w \in Writers : WriteEnter(w) \/ WriteStep(w)
  BY <1>1, WriteType
<1>2. CASE \E c \in Callers : \/ Flush(c) \/ FlushSync(c) \/ CallerStep(c)
                              \/ \E m \in Modes : SetModeStore(c, m)
  BY <1>2, CallerType
<1>3. CASE AsyncStep
  BY <1>3, AsyncType
<1>4. CASE Open \/ Close \/ CtlStep
  BY <1>4, CtlType, WriteType DEF CtlStep
<1>5. CASE Crash
  BY <1>5, CrashType
<1>6. CASE UNCHANGED vars
  BY <1>6, DataUnchanged DEF TypeInv, PcOK, BufferThere, vars, data, config
<1> QED
  BY <1>1, <1>2, <1>3, <1>4, <1>5, <1>6 DEF Next

\* The fields of the appender have their types in every reachable state, and
\* every thread is inside an operation that it may run.
THEOREM TypeCorrect == Spec => []TypeOK
<1>1. TypeInv /\ [Next]_vars => TypeInv'
  BY NextType
<1> QED
  BY <1>1, InitType, TypeInvIsTypeOK, PTL DEF Spec

-----------------------------------------------------------------------------
(* Exactly once: the inductive invariant, what each kind of hand-over does *)
(* to the places a record can be in, and one step per operation.           *)

(* The inductive invariant.                                                *)

\* The labels at which a thread carries a block.
Carrying == {"w_file", "f_file", "a_file", "o_start", "o_file"}

EmptyHands == \A t \in Threads : pc[t] \notin Carrying => chunk[t].recs = {}

EmptyBlocks ==
  /\ \A s \in Stores : block[s].len = 0 => block[s].recs = {}
  /\ \A t \in Threads : chunk[t].len = 0 => chunk[t].recs = {}

\* Until Open starts the writer thread, no other thread is inside anything.
NotStarted ==
  pc[Ctl] \in {"down", "o_start"} =>
    after = "open" /\ \A t \in Threads \ {Ctl} : pc[t] \in {"idle", "off"}

Written == file \o fbuf

\* The numbers 1 .. n, split into the parts B to L.
Split(B, C, W, K, L, n) ==
  /\ B \cap C = {} /\ (B \cup C) \cap W = {}
  /\ (B \cup C \cup W) \cap (K \cup L) = {} /\ K \cap L = {}
  /\ B \cup C \cup W \cup K \cup L = 1 .. n

BlocksApart == block["mmap"].recs \cap block["heap"].recs = {}
ChunksApart == \A t, u \in Threads : t # u => chunk[t].recs \cap chunk[u].recs = {}
RecsApart(s) == \A i, j \in 1 .. Len(s) : i # j => s[i].recs \cap s[j].recs = {}

Account ==
  /\ Split(InBuffers, InChunks, BlockRecs(Written), lostInCrash, lostInClose, accepted)
  /\ BlocksApart /\ ChunksApart /\ RecsApart(Written)

AppenderInv == TypeInv /\ EmptyHands /\ EmptyBlocks /\ NotStarted /\ Account

-----------------------------------------------------------------------------
(* The records of sequences, of the buffers and of the threads' hands.     *)

LEMMA ConcatRecs ==
  ASSUME NEW s \in Seq(Blocks), NEW u \in Seq(Blocks)
  PROVE  BlockRecs(s \o u) = BlockRecs(s) \cup BlockRecs(u)
<1>1. /\ Len(s) \in Nat /\ Len(u) \in Nat
      /\ DOMAIN s = 1 .. Len(s) /\ DOMAIN u = 1 .. Len(u)
  BY LenProperties
<1>2. /\ s \o u \in Seq(Blocks) /\ Len(s \o u) = Len(s) + Len(u)
      /\ \A i \in 1 .. Len(s) + Len(u) :
           (s \o u)[i] = IF i <= Len(s) THEN s[i] ELSE u[i - Len(s)]
  BY ConcatProperties
<1>3. DOMAIN (s \o u) = 1 .. Len(s) + Len(u)
  BY <1>2, LenProperties
<1> DEFINE w == s \o u
<1>4. ASSUME NEW r \in BlockRecs(w) PROVE r \in BlockRecs(s) \cup BlockRecs(u)
  <2>1. PICK i \in 1 .. Len(s) + Len(u) : r \in w[i].recs
    BY <1>3, <1>4 DEF BlockRecs
  <2>2. CASE i <= Len(s)
    <3>1. i \in DOMAIN s /\ w[i] = s[i]
      BY <1>1, <1>2, <2>1, <2>2
    <3> QED
      BY <2>1, <3>1 DEF BlockRecs
  <2>3. CASE ~(i <= Len(s))
    <3>1. i - Len(s) \in DOMAIN u /\ w[i] = u[i - Len(s)]
      BY <1>1, <1>2, <2>1, <2>3
    <3> QED
      BY <2>1, <3>1 DEF BlockRecs
  <2> QED
    BY <2>2, <2>3
<1>5. ASSUME NEW r \in BlockRecs(s) \cup BlockRecs(u) PROVE r \in BlockRecs(w)
  <2>1. CASE r \in BlockRecs(s)
    <3>1. PICK i \in DOMAIN s : r \in s[i].recs
      BY <2>1 DEF BlockRecs
    <3>2. i \in DOMAIN w /\ w[i] = s[i]
      BY <1>1, <1>2, <1>3, <3>1
    <3> QED
      BY <3>1, <3>2 DEF BlockRecs
  <2>2. CASE r \in BlockRecs(u)
    <3>1. PICK i \in DOMAIN u : r \in u[i].recs
      BY <2>2 DEF BlockRecs
    <3>2. Len(s) + i \in DOMAIN w /\ w[Len(s) + i] = u[i]
      BY <1>1, <1>2, <1>3, <3>1
    <3> QED
      BY <3>1, <3>2 DEF BlockRecs
  <2> QED
    BY <2>1, <2>2, <1>5
<1> QED
  BY <1>4, <1>5

LEMMA SingletonRecs ==
  ASSUME NEW b \in Blocks
  PROVE  <<b>> \in Seq(Blocks) /\ BlockRecs(<<b>>) = b.recs
BY DEF BlockRecs

\* Appending a block of records that are not there yet.
LEMMA AppendRecsApart ==
  ASSUME NEW s \in Seq(Blocks), NEW b \in Blocks,
         RecsApart(s), b.recs \cap BlockRecs(s) = {}
  PROVE  /\ RecsApart(s \o <<b>>)
         /\ BlockRecs(s \o <<b>>) = BlockRecs(s) \cup b.recs
<1> DEFINE w == s \o <<b>>
<1>1. /\ <<b>> \in Seq(Blocks) /\ Len(<<b>>) = 1 /\ <<b>>[1] = b
      /\ Len(s) \in Nat /\ DOMAIN s = 1 .. Len(s)
  BY LenProperties
<1>2. /\ Len(w) = Len(s) + 1
      /\ \A i \in 1 .. Len(s) : w[i] = s[i]
      /\ w[Len(s) + 1] = b
  BY <1>1, ConcatProperties
<1>3. \A i \in 1 .. Len(s) : s[i].recs \cap b.recs = {}
  BY <1>1 DEF BlockRecs
<1> HIDE DEF w
<1>4. RecsApart(w)
  <2> SUFFICES ASSUME NEW i \in 1 .. Len(w), NEW j \in 1 .. Len(w), i # j
               PROVE  w[i].recs \cap w[j].recs = {}
    BY DEF RecsApart
  <2>1. CASE i \in 1 .. Len(s) /\ j \in 1 .. Len(s)
    BY <1>2, <2>1 DEF RecsApart
  <2>2. CASE i = Len(s) + 1 /\ j \in 1 .. Len(s)
    BY <1>2, <1>3, <2>2
  <2>3. CASE j = Len(s) + 1 /\ i \in 1 .. Len(s)
    BY <1>2, <1>3, <2>3
  <2> QED
    BY <1>1, <1>2, <2>1, <2>2, <2>3
<1> QED
  BY <1>4, ConcatRecs, SingletonRecs DEF w

\* A prefix of the written blocks is as far apart as the whole.
LEMMA PrefixRecsApart ==
  ASSUME NEW s \in Seq(Blocks), NEW u \in Seq(Blocks), RecsApart(s \o u)
  PROVE  RecsApart(s) /\ BlockRecs(s) \cap BlockRecs(u) = {}
<1> DEFINE w == s \o u
<1>1. /\ Len(s) \in Nat /\ Len(u) \in Nat
      /\ DOMAIN s = 1 .. Len(s) /\ DOMAIN u = 1 .. Len(u)
  BY LenProperties
<1>2. /\ Len(w) = Len(s) + Len(u)
      /\ \A i \in 1 .. Len(s) + Len(u) :
           w[i] = IF i <= Len(s) THEN s[i] ELSE u[i - Len(s)]
  BY ConcatProperties
<1> HIDE DEF w
<1>3. RecsApart(w)
  BY DEF w
<1>4. RecsApart(s)
  <2> SUFFICES ASSUME NEW i \in 1 .. Len(s), NEW j \in 1 .. Len(s), i # j
               PROVE  s[i].recs \cap s[j].recs = {}
    BY DEF RecsApart
  <2>1. /\ i \in 1 .. Len(w) /\ j \in 1 .. Len(w)
        /\ w[i] = s[i] /\ w[j] = s[j]
    BY <1>1, <1>2
  <2> QED
    BY <1>3, <2>1 DEF RecsApart
<1>5. ASSUME NEW r \in BlockRecs(s) \cap BlockRecs(u) PROVE FALSE
  <2>1. PICK i \in 1 .. Len(s), j \in 1 .. Len(u) : r \in s[i].recs /\ r \in u[j].recs
    BY <1>1, <1>5 DEF BlockRecs
  <2>2. /\ i \in 1 .. Len(w) /\ Len(s) + j \in 1 .. Len(w) /\ i # Len(s) + j
        /\ w[i] = s[i] /\ w[Len(s) + j] = u[j]
    BY <1>1, <1>2, <2>1
  <2> QED
    BY <1>3, <2>1, <2>2 DEF RecsApart
<1> QED
  BY <1>4, <1>5

\* Thread t's hands change from chunk[t] to b.
LEMMA ChunkUpdate ==
  ASSUME chunk \in [Threads -> Blocks], NEW t \in Threads, NEW b,
         chunk' = [chunk EXCEPT ![t] = b],
         ChunksApart, b.recs \cap (InChunks \ chunk[t].recs) = {}
  PROVE  /\ InChunks' = (InChunks \ chunk[t].recs) \cup b.recs
         /\ ChunksApart'
<1>1. chunk'[t] = b /\ \A u \in Threads \ {t} : chunk'[u] = chunk[u]
  OBVIOUS
<1>2. \A u \in Threads \ {t} : chunk[u].recs \cap chunk[t].recs = {}
  BY DEF ChunksApart
<1>3. \A u \in Threads \ {t} : chunk[u].recs \subseteq InChunks \ chunk[t].recs
  BY <1>2 DEF InChunks
<1>4. ChunksApart'
  BY <1>1, <1>3 DEF ChunksApart
<1>5. InChunks' = (InChunks \ chunk[t].recs) \cup b.recs
  <2>1. InChunks' = UNION {chunk'[u].recs : u \in Threads}
    BY DEF InChunks
  <2>2. ASSUME NEW r \in InChunks' PROVE r \in (InChunks \ chunk[t].recs) \cup b.recs
    BY <1>1, <1>3, <2>1, <2>2
  <2>3. ASSUME NEW r \in (InChunks \ chunk[t].recs) \cup b.recs PROVE r \in InChunks'
    BY <1>1, <2>1, <2>3 DEF InChunks
  <2> QED
    BY <2>2, <2>3
<1> QED
  BY <1>4, <1>5

\* The block of store s changes to b.
LEMMA BlockUpdate ==
  ASSUME block \in [Stores -> Blocks], NEW s \in Stores, NEW b,
         block' = [block EXCEPT ![s] = b],
         BlocksApart, b.recs \cap (InBuffers \ block[s].recs) = {}
  PROVE  /\ InBuffers' = (InBuffers \ block[s].recs) \cup b.recs
         /\ BlocksApart'
BY DEF Stores, InBuffers, BlocksApart

-----------------------------------------------------------------------------
(* What the kinds of hand-over do to the account.                          *)

LEMMA SplitNew ==
  ASSUME NEW B, NEW C, NEW W, NEW K, NEW L, NEW n \in Nat, Split(B, C, W, K, L, n)
  PROVE  /\ Split(B \cup {n + 1}, C, W, K, L, n + 1)
         /\ Split(B, C \cup {n + 1}, W, K, L, n + 1)
         /\ n + 1 \notin B \cup C \cup W \cup K \cup L
<1>1. 1 .. n + 1 = (1 .. n) \cup {n + 1} /\ n + 1 \notin 1 .. n
  OBVIOUS
<1>2. n + 1 \notin B \cup C \cup W \cup K \cup L
  BY <1>1 DEF Split
<1> QED
  BY <1>1, <1>2 DEF Split

LEMMA SplitMove ==
  ASSUME NEW B, NEW C, NEW W, NEW K, NEW L, NEW n, Split(B, C, W, K, L, n)
  PROVE  /\ \A M \in SUBSET B : /\ Split(B \ M, C \cup M, W, K, L, n)
                                /\ Split(B \ M, C, W, K, L \cup M, n)
         /\ \A M \in SUBSET C : Split(B, C \ M, W \cup M, K, L, n)
         /\ \A M \in SUBSET B : \A F \in SUBSET W :
              Split(B \ M, {}, W \ F, K \cup C \cup F \cup M, L, n)
BY DEF Split

LEMMA AccountType ==
  ASSUME TypeInv
  PROVE  /\ Written \in Seq(Blocks)
         /\ BlockRecs(Written) = BlockRecs(file) \cup BlockRecs(fbuf)
BY ConcatProperties, ConcatRecs DEF TypeInv, DataOK, Written

LEMMA AccountUnchanged ==
  ASSUME Account, UNCHANGED <<block, chunk, fbuf, file, accepted, lost>>
  PROVE  Account'
<1>1. /\ InBuffers' = InBuffers /\ InChunks' = InChunks /\ Written' = Written
      /\ accepted' = accepted /\ lostInCrash' = lostInCrash /\ lostInClose' = lostInClose
  BY DEF lost, InBuffers, InChunks, Written
<1>2. Split(InBuffers, InChunks, BlockRecs(Written), lostInCrash, lostInClose, accepted)'
  BY <1>1 DEF Account, Split, BlockRecs
<1>3. BlocksApart' /\ ChunksApart' /\ RecsApart(Written)'
  BY <1>1 DEF Account, BlocksApart, ChunksApart, RecsApart
<1> QED
  BY <1>2, <1>3 DEF Account

\* A thread puts the block it carries into the file.
LEMMA FileAccount ==
  ASSUME AppenderInv, NEW t \in Threads, Log2File(t),
         UNCHANGED <<block, accepted, lost>>
  PROVE  Account'
<1> DEFINE c == chunk[t].recs
<1>1. /\ TypeInv /\ Account /\ chunk \in [Threads -> Blocks] /\ chunk[t] \in Blocks
      /\ file \in Seq(Blocks) /\ fbuf \in Seq(Blocks)
  BY DEF AppenderInv, TypeInv, DataOK
<1>2. /\ Written' = Written \o <<chunk[t]>>
      /\ chunk' = [chunk EXCEPT ![t] = Empty]
  BY <1>1, Log2FileAppends DEF Written
<1>3. c \subseteq InChunks
  BY DEF InChunks
<1>4. InChunks' = InChunks \ c /\ ChunksApart'
  <2>1. Empty.recs = {}
    BY DEF Empty
  <2> QED
    BY <1>1, <1>2, <2>1, ChunkUpdate DEF Account
<1>5. c \cap BlockRecs(Written) = {}
  BY <1>1, <1>3 DEF Account, Split
<1>6. RecsApart(Written') /\ BlockRecs(Written') = BlockRecs(Written) \cup c
  BY <1>1, <1>2, <1>5, AccountType, AppendRecsApart DEF Account
<1>7. Split(InBuffers, InChunks \ c, BlockRecs(Written) \cup c, lostInCrash, lostInClose, accepted)
  BY <1>1, <1>3, SplitMove DEF Account
<1>8. InBuffers' = InBuffers /\ BlocksApart' /\ lostInCrash' = lostInCrash
      /\ lostInClose' = lostInClose /\ accepted' = accepted
  BY <1>1 DEF InBuffers, BlocksApart, Account, lost
<1>9. Split(InBuffers, InChunks, BlockRecs(Written), lostInCrash, lostInClose, accepted)'
  BY <1>4, <1>6, <1>7, <1>8 DEF Split, BlockRecs
<1> QED
  BY <1>4, <1>6, <1>8, <1>9 DEF Account, RecsApart

\* A thread with empty hands takes the block of store s.
LEMMA TakeAccount ==
  ASSUME AppenderInv, NEW t \in Threads, NEW s \in Stores, pc[t] \notin Carrying,
         chunk' = [chunk EXCEPT ![t] = block[s]],
         block' = [block EXCEPT ![s] = Empty],
         UNCHANGED <<disk, accepted, lostInCrash, lostInClose>>
  PROVE  Account'
<1> DEFINE b == block[s].recs
<1>1. /\ TypeInv /\ Account /\ chunk[t].recs = {}
      /\ block \in [Stores -> Blocks] /\ chunk \in [Threads -> Blocks]
  BY DEF AppenderInv, TypeInv, DataOK, EmptyHands
<1>2. b \subseteq InBuffers /\ b \cap InChunks = {}
  BY <1>1 DEF Account, Split, InBuffers, Stores
<1>3. InChunks' = InChunks \cup b /\ ChunksApart'
  BY <1>1, <1>2, ChunkUpdate DEF Account
<1>4. InBuffers' = InBuffers \ b /\ BlocksApart'
  <2>1. Empty.recs = {}
    BY DEF Empty
  <2> QED
    BY <1>1, <2>1, BlockUpdate DEF Account
<1>5. Split(InBuffers \ b, InChunks \cup b, BlockRecs(Written), lostInCrash, lostInClose, accepted)
  BY <1>1, <1>2, SplitMove DEF Account
<1>6. Written' = Written /\ lostInCrash' = lostInCrash
      /\ lostInClose' = lostInClose /\ accepted' = accepted
  BY DEF Written, disk, lost
<1>7. Split(InBuffers, InChunks, BlockRecs(Written), lostInCrash, lostInClose, accepted)'
  BY <1>3, <1>4, <1>5, <1>6 DEF Split, BlockRecs
<1>8. RecsApart(Written)'
  BY <1>1, <1>6 DEF Account, RecsApart
<1> QED
  BY <1>3, <1>4, <1>7, <1>8 DEF Account

\* A new record enters the block of store s, or a tip that is no record.
LEMMA BufferAccount ==
  ASSUME AppenderInv, NEW s \in Stores, NEW b,
         NEW rs, \/ rs = {} /\ accepted' = accepted
                 \/ rs = {accepted + 1} /\ accepted' = accepted + 1,
         b.recs = block[s].recs \cup rs,
         block' = [block EXCEPT ![s] = b],
         UNCHANGED <<chunk, disk, lost>>
  PROVE  Account'
<1>1. /\ TypeInv /\ Account /\ block \in [Stores -> Blocks] /\ accepted \in Nat
  BY DEF AppenderInv, TypeInv, DataOK
<1>2. /\ Split(InBuffers \cup rs, InChunks, BlockRecs(Written), lostInCrash, lostInClose, accepted')
      /\ rs \cap InBuffers = {}
  <2>1. CASE rs = {}
    <3>1. accepted' = accepted
      <4>1. rs # {accepted + 1}
        BY <2>1
      <4> QED
        BY <4>1
    <3>2. InBuffers \cup rs = InBuffers
      BY <2>1
    <3> QED
      BY <1>1, <2>1, <3>1, <3>2 DEF Account
  <2>2. CASE rs = {accepted + 1} /\ accepted' = accepted + 1
    <3> DEFINE W == BlockRecs(Written)
    <3>1. Split(InBuffers, InChunks, W, lostInCrash, lostInClose, accepted)
      BY <1>1 DEF Account
    <3> HIDE DEF W
    <3>2. /\ Split(InBuffers \cup {accepted + 1}, InChunks, W, lostInCrash, lostInClose, accepted + 1)
          /\ accepted + 1 \notin InBuffers
      BY <1>1, <3>1, SplitNew
    <3> QED
      BY <2>2, <3>2 DEF W
  <2> QED
    BY <2>1, <2>2
<1>3. block[s].recs \subseteq InBuffers
  BY DEF InBuffers, Stores
<1>4. InBuffers' = InBuffers \cup rs /\ BlocksApart'
  BY <1>1, <1>2, <1>3, BlockUpdate DEF Account
<1>5. Written' = Written /\ lostInCrash' = lostInCrash /\ lostInClose' = lostInClose
      /\ InChunks' = InChunks
  BY DEF Written, disk, lost, InChunks
<1>6. Split(InBuffers, InChunks, BlockRecs(Written), lostInCrash, lostInClose, accepted)'
  BY <1>2, <1>4, <1>5 DEF Split, BlockRecs
<1>7. RecsApart(Written)' /\ ChunksApart'
  BY <1>1, <1>5 DEF Account, RecsApart, ChunksApart
<1> QED
  BY <1>4, <1>6, <1>7 DEF Account

\* A new record enters the hands of the thread that logs it.
LEMMA SyncAccount ==
  ASSUME AppenderInv, NEW t \in Threads, WriteSync(t)
  PROVE  Account'
<1> DEFINE W == BlockRecs(Written)
           b == SyncBlock({accepted + 1})
<1>1. /\ TypeInv /\ Account /\ chunk \in [Threads -> Blocks] /\ accepted \in Nat
      /\ chunk[t].recs = {}
  BY DEF WriteSync, AppenderInv, TypeInv, DataOK, EmptyHands, Carrying
<1>2. /\ chunk' = [chunk EXCEPT ![t] = b] /\ accepted' = accepted + 1
      /\ UNCHANGED <<block, disk, lost>>
  BY DEF WriteSync
<1>3. b.recs = {accepted + 1}
  BY DEF SyncBlock
<1>4. Split(InBuffers, InChunks, W, lostInCrash, lostInClose, accepted)
  BY <1>1 DEF Account
<1> HIDE DEF W, b
<1>5. /\ Split(InBuffers, InChunks \cup {accepted + 1}, W, lostInCrash, lostInClose, accepted + 1)
      /\ accepted + 1 \notin InChunks
  BY <1>1, <1>4, SplitNew
<1>6. InChunks' = InChunks \cup {accepted + 1} /\ ChunksApart'
  <2>1. b.recs \cap (InChunks \ chunk[t].recs) = {}
    BY <1>3, <1>5
  <2> QED
    BY <1>1, <1>2, <1>3, <2>1, ChunkUpdate DEF Account
<1>7. Written' = Written /\ lostInCrash' = lostInCrash /\ lostInClose' = lostInClose
      /\ InBuffers' = InBuffers /\ BlocksApart'
  BY <1>1, <1>2 DEF Written, disk, lost, InBuffers, BlocksApart, Account
<1>8. Split(InBuffers, InChunks, BlockRecs(Written), lostInCrash, lostInClose, accepted)'
  BY <1>2, <1>5, <1>6, <1>7 DEF Split, BlockRecs, W
<1>9. RecsApart(Written)'
  BY <1>1, <1>7 DEF Account, RecsApart
<1> QED
  BY <1>6, <1>7, <1>8, <1>9 DEF Account

\* Close wipes the block of the appender.
LEMMA WipeAccount ==
  ASSUME AppenderInv, CloseWipe
  PROVE  Account'
<1> DEFINE M == block[log_buff_].recs
<1>1. /\ TypeInv /\ Account /\ block \in [Stores -> Blocks] /\ log_buff_ \in Stores
  BY DEF CloseWipe, AppenderInv, TypeInv, DataOK, BufferThere
<1>2. /\ block' = [block EXCEPT ![log_buff_] = Empty] /\ lostInClose' = lostInClose \cup M
      /\ UNCHANGED <<chunk, disk, accepted, lostInCrash>>
  BY DEF CloseWipe, counts
<1>3. InBuffers' = InBuffers \ M /\ BlocksApart'
  <2>1. Empty.recs = {}
    BY DEF Empty
  <2> QED
    BY <1>1, <1>2, <2>1, BlockUpdate DEF Account
<1>4. M \subseteq InBuffers
  BY <1>1 DEF InBuffers, Stores
<1>5. Split(InBuffers \ M, InChunks, BlockRecs(Written), lostInCrash, lostInClose \cup M, accepted)
  BY <1>1, <1>4, SplitMove DEF Account
<1>6. Written' = Written /\ InChunks' = InChunks /\ ChunksApart'
  BY <1>1, <1>2 DEF Written, disk, InChunks, ChunksApart, Account
<1>7. Split(InBuffers, InChunks, BlockRecs(Written), lostInCrash, lostInClose, accepted)'
  BY <1>2, <1>3, <1>5, <1>6 DEF Split, BlockRecs
<1>8. RecsApart(Written)'
  BY <1>1, <1>6 DEF Account, RecsApart
<1> QED
  BY <1>3, <1>6, <1>7, <1>8 DEF Account

\* Close writes out what stdio holds.
LEMMA CloseFileAccount ==
  ASSUME AppenderInv, CloseFile
  PROVE  Account'
<1>1. /\ TypeInv /\ Account /\ file \in Seq(Blocks) /\ fbuf \in Seq(Blocks)
  BY DEF AppenderInv, TypeInv, DataOK
<1>2. Written' = Written
  BY <1>1, ConcatProperties, ConcatEmptySeq DEF CloseFile, Written
<1>3. /\ InBuffers' = InBuffers /\ InChunks' = InChunks
      /\ accepted' = accepted /\ lostInCrash' = lostInCrash /\ lostInClose' = lostInClose
      /\ block' = block /\ chunk' = chunk
  BY DEF CloseFile, memory, counts, lost, InBuffers, InChunks
<1>4. Split(InBuffers, InChunks, BlockRecs(Written), lostInCrash, lostInClose, accepted)'
  BY <1>1, <1>2, <1>3 DEF Account, Split, BlockRecs
<1>5. BlocksApart' /\ ChunksApart' /\ RecsApart(Written)'
  BY <1>1, <1>2, <1>3 DEF Account, BlocksApart, ChunksApart, RecsApart
<1> QED
  BY <1>4, <1>5 DEF Account

\* A crash takes everything that is neither in the mapped block nor in the
\* file.
LEMMA CrashAccount ==
  ASSUME AppenderInv, Crash
  PROVE  Account'
<1> DEFINE M == block["heap"].recs
           F == BlockRecs(fbuf)
<1>1. /\ TypeInv /\ Account /\ block \in [Stores -> Blocks] /\ chunk \in [Threads -> Blocks]
      /\ file \in Seq(Blocks) /\ fbuf \in Seq(Blocks)
  BY DEF AppenderInv, TypeInv, DataOK
<1>2. Empty.recs = {}
  BY DEF Empty
<1>3. /\ block' = [block EXCEPT !["heap"] = Empty] /\ chunk' = [t \in Threads |-> Empty]
      /\ fbuf' = <<>> /\ file' = file /\ accepted' = accepted /\ lostInClose' = lostInClose
      /\ lostInCrash' = lostInCrash \cup InChunks \cup F \cup M
  BY DEF Crash
<1>4. InBuffers' = InBuffers \ M /\ BlocksApart'
  BY <1>1, <1>2, <1>3, BlockUpdate DEF Account, Stores
<1>5. InChunks' = {} /\ ChunksApart'
  BY <1>2, <1>3 DEF InChunks, ChunksApart
<1>6. Written' = file
  BY <1>1, <1>3, ConcatEmptySeq DEF Written
<1>7. RecsApart(file) /\ BlockRecs(file) = BlockRecs(Written) \ F
  <2>1. RecsApart(file) /\ BlockRecs(file) \cap F = {}
    BY <1>1, PrefixRecsApart DEF Account, Written
  <2> QED
    BY <1>1, <2>1, AccountType
<1>8. M \subseteq InBuffers /\ F \subseteq BlockRecs(Written)
  BY <1>1, AccountType DEF InBuffers
<1>9. Split(InBuffers \ M, {}, BlockRecs(Written) \ F, lostInCrash \cup InChunks \cup F \cup M,
            lostInClose, accepted)
  BY <1>1, <1>8, SplitMove DEF Account
<1>10. BlockRecs(Written') = BlockRecs(Written) \ F /\ RecsApart(Written')
  BY <1>6, <1>7
<1>11. Split(InBuffers, InChunks, BlockRecs(Written), lostInCrash, lostInClose, accepted)'
  BY <1>3, <1>4, <1>5, <1>9, <1>10 DEF Split, BlockRecs
<1> QED
  BY <1>4, <1>5, <1>10, <1>11 DEF Account, RecsApart

-----------------------------------------------------------------------------
(* What each operation does to the hands of the threads.                   *)

Hands == EmptyHands /\ EmptyBlocks /\ NotStarted

\* A step that sends thread t to l, wakes the writer thread perhaps, and
\* changes what is in the hands of t only.
LEMMA HandsStep ==
  ASSUME TypeInv, Hands, NEW t \in Threads, NEW l \in LabelsOf(t), NEW b,
         Goto(t, l) \/ (t # Async /\ GotoAndNotify(t, l)),
         chunk' = chunk \/ chunk' = [chunk EXCEPT ![t] = b],
         pc[t] \in Carrying /\ l \notin Carrying => chunk'[t].recs = {},
         chunk' # chunk /\ l \notin Carrying => b.recs = {},
         b.len = 0 => b.recs = {},
         \A s \in Stores : block'[s].len = 0 => block'[s].recs = {},
         pc[Ctl] \notin {"down", "o_start"},
         t = Ctl => l \notin {"down", "o_start"}
  PROVE  Hands'
<1>1. chunk \in [Threads -> Blocks] /\ PcOK
  BY DEF TypeInv, DataOK
<1>2. /\ pc'[t] = l
      /\ \A u \in Threads \ {t, Async} : pc'[u] = pc[u]
      /\ t # Async => pc'[Async] = pc[Async] \/ pc[Async] = "wait"
  <2>1. /\ pc'[t] = l
        /\ \A u \in Threads \ {t, Async} : pc'[u] = pc[u]
    BY <1>1, GotoType
  <2>2. t # Async => pc'[Async] = pc[Async] \/ pc[Async] = "wait"
    BY <1>1, ThreadFacts DEF PcOK, Goto, GotoAndNotify
  <2> QED
    BY <2>1, <2>2
<1>3. \A u \in Threads \ {t} : chunk'[u] = chunk[u]
  BY <1>1
<1>4. EmptyHands'
  <2>1. ASSUME NEW u \in Threads \ {t}, pc'[u] \notin Carrying PROVE chunk'[u].recs = {}
    <3>1. pc[u] \notin Carrying
      BY <1>2, <2>1 DEF Carrying
    <3> QED
      BY <1>3, <3>1 DEF Hands, EmptyHands
  <2>2. ASSUME pc'[t] \notin Carrying PROVE chunk'[t].recs = {}
    <3>1. CASE chunk' = chunk
      BY <1>2, <2>2, <3>1 DEF Hands, EmptyHands
    <3>2. CASE chunk' # chunk
      BY <1>1, <1>2, <2>2, <3>2
    <3> QED
      BY <3>1, <3>2
  <2> QED
    BY <2>1, <2>2 DEF EmptyHands
<1>5. EmptyBlocks'
  BY <1>1, <1>3 DEF Hands, EmptyBlocks
<1>6. NotStarted'
  <2>1. pc'[Ctl] \notin {"down", "o_start"}
    BY <1>2, ThreadFacts
  <2> QED
    BY <2>1 DEF NotStarted
<1> QED
  BY <1>4, <1>5, <1>6 DEF Hands

\* The same for a step of the writer thread that ends it.
LEMMA HandsEnd ==
  ASSUME TypeInv, Hands, GotoEnd, UNCHANGED <<block, chunk>>,
         pc[Async] \notin Carrying \cup {"idle", "off"}
  PROVE  Hands'
<1>1. /\ pc'[Ctl] = IF pc[Ctl] = "c_join" THEN "c_wipe" ELSE pc[Ctl]
      /\ \A u \in Threads \ {Ctl, Async} : pc'[u] = pc[u]
  BY GotoEndType DEF TypeInv
<1>2. pc[Ctl] \notin {"down", "o_start"}
  BY ThreadFacts DEF Hands, NotStarted
<1>3. EmptyHands'
  <2> SUFFICES ASSUME NEW u \in Threads, pc'[u] \notin Carrying PROVE chunk[u].recs = {}
    BY DEF EmptyHands
  <2>1. pc[u] \notin Carrying
    BY <1>1 DEF Carrying
  <2> QED
    BY <2>1 DEF Hands, EmptyHands
<1>4. NotStarted'
  BY <1>1, <1>2 DEF NotStarted
<1> QED
  BY <1>3, <1>4 DEF Hands, EmptyBlocks

LEMMA Log2FileHands ==
  ASSUME TypeInv, Hands, NEW t \in Threads, Log2File(t), UNCHANGED block
  PROVE  /\ chunk' = [chunk EXCEPT ![t] = Empty] /\ chunk'[t].recs = {}
         /\ \A s \in Stores : block'[s].len = 0 => block'[s].recs = {}
BY DEF TypeInv, DataOK, Hands, EmptyBlocks, Log2File, Empty

\* A thread whose label is not one of rest is only found after Open.
LEMMA Started ==
  ASSUME Hands
  PROVE  /\ \A t \in Threads \ {Ctl} :
              pc[t] \notin {"idle", "off"} => pc[Ctl] \notin {"down", "o_start"}
         /\ Published => pc[Ctl] \notin {"down", "o_start"}
BY DEF Hands, NotStarted, Published

LEMMA WriteHands ==
  ASSUME TypeInv, Hands, NEW t \in Writers \cup {Ctl}, WriteEnter(t) \/ WriteStep(t)
  PROVE  Hands'
<1>1. t \in Threads /\ t # Async /\ DataOK
  BY ThreadFacts DEF TypeInv
<1>2. pc[Ctl] \notin {"down", "o_start"}
  <2>1. pc[t] \in WriteLabels \cup {"w_enter"} \/ (t # Ctl /\ Published)
    BY ThreadFacts DEF WriteEnter, MayEnter, WriteStep, WriteDispatch, WriteAsyncRefused,
                       WriteAsync, WriteSync, WriteSyncFile, WriteLabels
  <2> QED
    BY <1>1, <2>1, Started DEF WriteLabels
<1>3. /\ Return(t) \in LabelsOf(t) \ Carrying
      /\ t = Ctl => Return(t) \notin {"down", "o_start"}
  BY <1>1, ReturnType DEF Return, DataOK, Carrying
<1>4. \A l \in WriteLabels : l \in LabelsOf(t) /\ l \notin {"down", "o_start"}
  BY WriteLabelsType DEF WriteLabels
<1>5. \A s \in Stores : block[s].len = 0 => block[s].recs = {}
  BY DEF Hands, EmptyBlocks
\* The steps that leave blocks and hands alone.
<1>6. ASSUME NEW l \in LabelsOf(t), Goto(t, l), t = Ctl => l \notin {"down", "o_start"},
             pc[t] \notin Carrying, UNCHANGED <<block, chunk>>
      PROVE  Hands'
  <2>1. \A s \in Stores : block'[s].len = 0 => block'[s].recs = {}
    BY <1>5, <1>6
  <2>2. chunk' = chunk /\ Empty.recs = {}
    BY <1>6 DEF Empty
  <2> QED
    BY <1>1, <1>2, <1>6, <2>1, <2>2, HandsStep
<1>7. CASE WriteEnter(t)
  <2>1. pc[t] \notin Carrying /\ UNCHANGED <<block, chunk>>
    BY <1>7 DEF WriteEnter, MayEnter, Carrying, memory
  <2>2. "w_dispatch" \in WriteLabels
    BY DEF WriteLabels
  <2>3. PICK l \in {Return(t), "w_dispatch"} : Goto(t, l)
    BY <1>7 DEF WriteEnter
  <2> QED
    BY <1>3, <1>4, <1>6, <2>1, <2>2, <2>3
<1>8. CASE WriteDispatch(t)
  <2>1. pc[t] \notin Carrying /\ UNCHANGED <<block, chunk>>
    BY <1>8 DEF WriteDispatch, Move, Carrying, data, memory
  <2>2. "w_sync" \in WriteLabels /\ "w_async" \in WriteLabels
    BY DEF WriteLabels
  <2>3. PICK l \in {"w_sync", "w_async"} : Goto(t, l)
    BY <1>8 DEF WriteDispatch, Move
  <2> QED
    BY <1>4, <1>6, <2>1, <2>2, <2>3
<1>9. CASE WriteAsyncRefused(t)
  BY <1>3, <1>6, <1>9 DEF WriteAsyncRefused, Move, Carrying, data, memory
<1>10. CASE WriteAsync(t)
  <2> DEFINE b == block[log_buff_]
             rs == IF b.len >= TipAt THEN {} ELSE {accepted + 1}
  <2>1. /\ pc[t] \notin Carrying /\ UNCHANGED chunk /\ log_buff_ # Null
        /\ block' = [block EXCEPT ![log_buff_] = BufferWrite(b, rs)]
        /\ Goto(t, Return(t)) \/ GotoAndNotify(t, Return(t))
    BY <1>10 DEF WriteAsync, Carrying
  <2>2. block \in [Stores -> Blocks] /\ log_buff_ \in Stores /\ b.len \in Nat
    BY <1>1, <2>1 DEF DataOK, Blocks
  <2>3. BufferWrite(b, rs).len = b.len + 1
    BY DEF BufferWrite
  <2>4. \A s \in Stores : block'[s].len = 0 => block'[s].recs = {}
    <3> HIDE DEF rs
    <3> QED
      BY <1>5, <2>1, <2>2, <2>3
  <2> HIDE DEF b, rs
  <2>5. Empty.len = 0 => Empty.recs = {}
    BY DEF Empty
  <2> QED
    BY <1>1, <1>2, <1>3, <2>1, <2>4, <2>5, HandsStep
<1>11. CASE WriteSync(t)
  <2> DEFINE b == SyncBlock({accepted + 1})
  <2>1. /\ pc[t] \notin Carrying /\ UNCHANGED block
        /\ chunk' = [chunk EXCEPT ![t] = b] /\ Goto(t, "w_file")
        /\ "w_file" \in Carrying /\ "w_file" \in WriteLabels
    BY <1>11 DEF WriteSync, Carrying, WriteLabels
  <2>2. b.len # 0
    BY DEF SyncBlock
  <2> HIDE DEF b
  <2> QED
    BY <1>1, <1>2, <1>4, <1>5, <2>1, <2>2, HandsStep
<1>12. CASE WriteSyncFile(t)
  <2>1. Log2File(t) /\ UNCHANGED block /\ Goto(t, Return(t))
    BY <1>12 DEF WriteSyncFile
  <2>2. Empty.recs = {}
    BY DEF Empty
  <2> QED
    BY <1>1, <1>2, <1>3, <2>1, <2>2, Log2FileHands, HandsStep
<1> QED
  BY <1>7, <1>8, <1>9, <1>10, <1>11, <1>12 DEF WriteStep

LEMMA CallerHands ==
  ASSUME TypeInv, Hands, NEW c \in Callers,
         Flush(c) \/ FlushSync(c) \/ CallerStep(c) \/ \E m \in Modes : SetModeStore(c, m)
  PROVE  Hands'
<1>1. c \in Threads /\ c # Async /\ c # Ctl /\ DataOK /\ PcOK
  BY ThreadFacts DEF TypeInv
<1>2. pc[Ctl] \notin {"down", "o_start"}
  <2>1. pc[c] \in CallerLabels \/ Published
    BY DEF Flush, FlushSync, CallerStep, SetModeStore, FlushSyncClosed, FlushSyncTake,
           FlushSyncFile, FlushSyncReturn, SetModeStart, CallerLabels
  <2> QED
    BY <1>1, <2>1, Started DEF CallerLabels
<1>3. \A l \in {"idle"} \cup CallerLabels : l \in LabelsOf(c)
  BY ThreadFacts DEF LabelsOf
<1>4. \A s \in Stores : block[s].len = 0 => block[s].recs = {}
  BY DEF Hands, EmptyBlocks
<1>5. Empty.recs = {}
  BY DEF Empty
\* The steps that leave blocks and hands alone.
<1>6. ASSUME NEW l \in LabelsOf(c), Goto(c, l) \/ GotoAndNotify(c, l),
             pc[c] \notin Carrying, UNCHANGED <<block, chunk>>
      PROVE  Hands'
  <2>1. \A s \in Stores : block'[s].len = 0 => block'[s].recs = {}
    BY <1>4, <1>6
  <2>2. chunk' = chunk
    BY <1>6
  <2> QED
    BY <1>1, <1>2, <1>5, <1>6, <2>1, <2>2, HandsStep
<1>7. CASE Flush(c) \/ FlushSync(c) \/ FlushSyncClosed(c) \/ FlushSyncReturn(c)
  <2>1. pc[c] \notin Carrying /\ UNCHANGED <<block, chunk>>
    BY <1>7 DEF Flush, FlushSync, FlushSyncClosed, FlushSyncReturn, Carrying, data, memory
  <2>2. PICK l \in {"idle", "f_take"} : Goto(c, l) \/ GotoAndNotify(c, l)
    BY <1>7 DEF Flush, FlushSync, FlushSyncClosed, FlushSyncReturn
  <2> QED
    BY <1>3, <1>6, <2>1, <2>2 DEF CallerLabels
<1>8. CASE FlushSyncTake(c)
  <2> DEFINE b == block[log_buff_]
             l == IF b.len > 0 THEN "f_file" ELSE "f_return"
  <2>1. /\ log_buff_ \in Stores /\ pc[c] = "f_take" /\ Goto(c, l)
        /\ chunk' = [chunk EXCEPT ![c] = b] /\ block' = [block EXCEPT ![log_buff_] = Empty]
    BY <1>1, <1>8 DEF FlushSyncTake, TakeBlock, DataOK
  <2>2. \A s \in Stores : block'[s].len = 0 => block'[s].recs = {}
    BY <1>1, <1>4, <1>5, <2>1 DEF DataOK
  <2>3. l \notin Carrying => b.recs = {}
    BY <1>1, <1>4, <2>1 DEF Carrying, DataOK, Blocks
  <2>4. l \in LabelsOf(c) /\ (b.len = 0 => b.recs = {}) /\ pc[c] \notin Carrying
    BY <1>3, <1>4, <2>1 DEF CallerLabels, Carrying
  <2> HIDE DEF b, l
  <2> QED
    BY <1>1, <1>2, <2>1, <2>2, <2>3, <2>4, HandsStep
<1>9. CASE FlushSyncFile(c)
  <2>1. Log2File(c) /\ UNCHANGED block /\ Goto(c, "f_return") /\ "f_return" \in LabelsOf(c)
    BY <1>3, <1>9 DEF FlushSyncFile, CallerLabels
  <2> QED
    BY <1>1, <1>2, <1>5, <2>1, Log2FileHands, HandsStep
<1>10. ASSUME NEW m \in Modes, SetModeStore(c, m)
       PROVE  Hands'
  BY <1>3, <1>6, <1>10 DEF SetModeStore, Carrying, memory, CallerLabels
<1>11. CASE SetModeStart(c)
  <2>1. pc[c] \notin Carrying /\ UNCHANGED <<block, chunk>>
    BY <1>11 DEF SetModeStart, Carrying, data, memory
  <2>2. CASE GotoAndNotify(c, "idle")
    BY <1>3, <1>6, <2>1, <2>2
  <2>3. CASE /\ pc' = [pc EXCEPT ![c] = "idle", ![Async] = "top"]
             /\ pc[Async] \in {"off", "ended"}
    <3>1. /\ pc'[c] = "idle" /\ pc'[Async] = "top"
          /\ \A u \in Threads \ {c, Async} : pc'[u] = pc[u]
      BY <1>1, <2>3, ThreadFacts DEF PcOK
    <3>2. EmptyHands'
      <4> SUFFICES ASSUME NEW u \in Threads, pc'[u] \notin Carrying PROVE chunk[u].recs = {}
        BY <2>1 DEF EmptyHands
      <4>1. pc[u] \notin Carrying
        BY <2>1, <2>3, <3>1 DEF Carrying
      <4> QED
        BY <4>1 DEF Hands, EmptyHands
    <3>3. NotStarted'
      BY <1>1, <1>2, <3>1, ThreadFacts DEF NotStarted
    <3> QED
      BY <2>1, <3>2, <3>3 DEF Hands, EmptyBlocks
  <2> QED
    BY <1>11, <2>2, <2>3 DEF SetModeStart, AsyncRunning
<1> QED
  BY <1>7, <1>8, <1>9, <1>10, <1>11 DEF CallerStep

LEMMA AsyncHands ==
  ASSUME TypeInv, Hands, AsyncStep
  PROVE  Hands'
<1>1. Async \in Threads /\ Async # Ctl /\ DataOK
  BY ThreadFacts DEF TypeInv
<1>2. pc[Ctl] \notin {"down", "o_start"}
  <2>1. pc[Async] \notin {"idle", "off"}
    BY DEF AsyncStep, AsyncNoBuffer, AsyncTake, AsyncFile, AsyncCheck, AsyncWait, AsyncTimeout
  <2> QED
    BY <1>1, <2>1, Started
<1>3. \A l \in AsyncLabels : l \in LabelsOf(Async)
  BY ThreadFacts DEF LabelsOf
<1>4. \A s \in Stores : block[s].len = 0 => block[s].recs = {}
  BY DEF Hands, EmptyBlocks
<1>5. Empty.recs = {}
  BY DEF Empty
<1>6. ASSUME NEW l \in AsyncLabels, Goto(Async, l),
             pc[Async] \notin Carrying, UNCHANGED <<block, chunk>>
      PROVE  Hands'
  <2>1. \A s \in Stores : block'[s].len = 0 => block'[s].recs = {}
    BY <1>4, <1>6
  <2>2. chunk' = chunk /\ l \in LabelsOf(Async)
    BY <1>3, <1>6
  <2> QED
    BY <1>1, <1>2, <1>5, <1>6, <2>1, <2>2, HandsStep
<1>7. CASE AsyncNoBuffer
  BY <1>7, HandsEnd DEF AsyncNoBuffer, Carrying, data, memory
<1>8. CASE AsyncTake
  <2> DEFINE b == block[log_buff_]
             l == IF b.len > 0 THEN "a_file" ELSE "a_check"
  <2>1. /\ log_buff_ \in Stores /\ pc[Async] = "top" /\ Goto(Async, l)
        /\ chunk' = [chunk EXCEPT ![Async] = b] /\ block' = [block EXCEPT ![log_buff_] = Empty]
    BY <1>1, <1>8 DEF AsyncTake, TakeBlock, DataOK
  <2>2. \A s \in Stores : block'[s].len = 0 => block'[s].recs = {}
    BY <1>1, <1>4, <1>5, <2>1 DEF DataOK
  <2>3. l \notin Carrying => b.recs = {}
    BY <1>1, <1>4, <2>1 DEF Carrying, DataOK, Blocks
  <2>4. l \in LabelsOf(Async) /\ (b.len = 0 => b.recs = {}) /\ pc[Async] \notin Carrying
    BY <1>3, <1>4, <2>1 DEF AsyncLabels, Carrying
  <2> HIDE DEF b, l
  <2> QED
    BY <1>1, <1>2, <2>1, <2>2, <2>3, <2>4, HandsStep
<1>9. CASE AsyncFile
  <2>1. Log2File(Async) /\ UNCHANGED block /\ Goto(Async, "a_check")
        /\ "a_check" \in LabelsOf(Async)
    BY <1>3, <1>9 DEF AsyncFile, AsyncLabels
  <2> QED
    BY <1>1, <1>2, <1>5, <2>1, Log2FileHands, HandsStep
<1>10. CASE AsyncCheck
  BY <1>6, <1>10, HandsEnd DEF AsyncCheck, Carrying, AsyncLabels, data, memory
<1>11. CASE AsyncWait \/ AsyncTimeout
  BY <1>6, <1>11 DEF AsyncWait, AsyncTimeout, Move, Carrying, AsyncLabels, data, memory
<1> QED
  BY <1>7, <1>8, <1>9, <1>10, <1>11 DEF AsyncStep

LEMMA CtlHands ==
  ASSUME TypeInv, Hands,
         \/ Open \/ OpenStart \/ OpenFile
         \/ Close \/ CloseSet \/ CloseNotify \/ CloseJoin \/ CloseWipe \/ CloseFile
  PROVE  Hands'
<1>1. Ctl \in Threads /\ Ctl # Async /\ DataOK /\ PcOK
  BY ThreadFacts DEF TypeInv
<1>2. \A l \in CtlLabels : l \in LabelsOf(Ctl)
  BY ThreadFacts DEF LabelsOf
<1>3. \A s \in Stores : block[s].len = 0 => block[s].recs = {}
  BY DEF Hands, EmptyBlocks
<1>4. Empty.recs = {}
  BY DEF Empty
<1>5. ASSUME NEW l \in CtlLabels, Goto(Ctl, l) \/ GotoAndNotify(Ctl, l),
             l \notin {"down", "o_start"}, pc[Ctl] \notin Carrying \cup {"down", "o_start"},
             UNCHANGED chunk, block' = block \/ block' = [block EXCEPT ![log_buff_] = Empty]
      PROVE  Hands'
  <2>1. \A s \in Stores : block'[s].len = 0 => block'[s].recs = {}
    BY <1>1, <1>3, <1>4, <1>5 DEF DataOK
  <2>2. chunk' = chunk /\ l \in LabelsOf(Ctl)
    BY <1>2, <1>5
  <2> QED
    BY <1>1, <1>4, <1>5, <2>1, <2>2, HandsStep
<1>6. CASE Open
  <2>1. PICK s \in OpenStores : /\ chunk' = [chunk EXCEPT ![Ctl] = block[s]]
                                /\ block' = [block EXCEPT ![s] = Empty]
    BY <1>6 DEF Open
  <2>2. /\ pc[Ctl] = "down" /\ Goto(Ctl, "o_start") /\ "o_start" \in CtlLabels
        /\ after' = after /\ s \in Stores
    BY <1>6, AppenderAssumption DEF Open, CtlLabels
  <2>3. pc'[Ctl] = "o_start" /\ \A u \in Threads \ {Ctl} : pc'[u] = pc[u] /\ chunk'[u] = chunk[u]
    BY <1>1, <1>2, <2>1, <2>2, GotoType DEF DataOK
  <2>4. EmptyHands'
    BY <2>3 DEF Hands, EmptyHands, Carrying
  <2>5. \A r \in Stores : block'[r].len = 0 => block'[r].recs = {}
    BY <1>1, <1>3, <1>4, <2>1 DEF DataOK
  <2>6. \A u \in Threads : chunk'[u].len = 0 => chunk'[u].recs = {}
    BY <1>1, <1>3, <2>1, <2>2, <2>3 DEF DataOK, Hands, EmptyBlocks
  <2>7. NotStarted'
    BY <2>2, <2>3 DEF Hands, NotStarted
  <2> QED
    BY <2>4, <2>5, <2>6, <2>7 DEF Hands, EmptyBlocks
<1>7. CASE OpenStart
  <2> DEFINE l == IF chunk[Ctl].len > 0 THEN "o_file" ELSE "w_enter"
  <2>1. PICK m \in Modes :
          pc' = [pc EXCEPT ![Ctl] = l, ![Async] = IF m = "async" THEN "top" ELSE "off"]
    BY <1>7 DEF OpenStart
  <2>2. pc[Ctl] = "o_start" /\ UNCHANGED <<block, chunk>>
    BY <1>7 DEF OpenStart, memory
  <2>3. pc'[Ctl] = l /\ \A u \in Threads \ {Ctl, Async} : pc'[u] = pc[u]
    BY <1>1, <2>1, ThreadFacts DEF PcOK
  <2>4. pc[Async] \notin Carrying
    BY <1>1, <2>2, ThreadFacts DEF Hands, NotStarted, Carrying
  <2>5. l \notin Carrying => chunk[Ctl].recs = {}
    BY <1>1 DEF Hands, EmptyBlocks, Carrying, DataOK, Blocks
  <2>6. l \notin {"down", "o_start"}
    OBVIOUS
  <2> HIDE DEF l
  <2>7. EmptyHands'
    <3> SUFFICES ASSUME NEW u \in Threads, pc'[u] \notin Carrying PROVE chunk[u].recs = {}
      BY <2>2 DEF EmptyHands
    <3>1. CASE u = Ctl
      BY <2>3, <2>5, <3>1
    <3>2. CASE u # Ctl
      <4>1. pc[u] \notin Carrying
        BY <2>3, <2>4, <3>2
      <4> QED
        BY <4>1 DEF Hands, EmptyHands
    <3> QED
      BY <3>1, <3>2
  <2> QED
    BY <2>2, <2>3, <2>6, <2>7 DEF Hands, EmptyBlocks, NotStarted
<1>8. CASE OpenFile
  <2>1. /\ Log2File(Ctl) /\ UNCHANGED block /\ Goto(Ctl, "w_enter")
        /\ "w_enter" \in CtlLabels /\ pc[Ctl] = "o_file"
    BY <1>8 DEF OpenFile, CtlLabels
  <2> QED
    BY <1>1, <1>2, <1>4, <2>1, Log2FileHands, HandsStep
<1>9. CASE Close \/ CloseSet \/ CloseNotify \/ CloseJoin \/ CloseWipe \/ CloseFile
  <2>1. PICK l \in {"w_enter", "c_notify", "c_join", "c_wipe", "c_file", "closed"} :
          Goto(Ctl, l) \/ GotoAndNotify(Ctl, l)
    BY <1>9 DEF Close, CloseSet, CloseNotify, CloseJoin, Move, CloseWipe, CloseFile
  <2>2. /\ pc[Ctl] \notin Carrying \cup {"down", "o_start"} /\ UNCHANGED chunk
        /\ block' = block \/ block' = [block EXCEPT ![log_buff_] = Empty]
    BY <1>9 DEF Close, CloseSet, CloseNotify, CloseJoin, Move, CloseWipe, CloseFile, Carrying,
                data, memory
  <2> QED
    BY <1>5, <2>1, <2>2 DEF CtlLabels
<1> QED
  BY <1>6, <1>7, <1>8, <1>9

LEMMA CrashHands ==
  ASSUME TypeInv, Hands, Crash
  PROVE  Hands'
<1>1. Empty.recs = {} /\ chunk' = [t \in Threads |-> Empty]
  BY DEF Empty, Crash
<1>2. EmptyHands'
  BY <1>1 DEF EmptyHands
<1>3. EmptyBlocks'
  BY <1>1 DEF Crash, EmptyBlocks, Hands, TypeInv, DataOK
<1>4. NotStarted'
  BY DEF Crash, NotStarted
<1> QED
  BY <1>2, <1>3, <1>4 DEF Hands

-----------------------------------------------------------------------------
(* The theorem.                                                            *)

LEMMA AppenderInvInit == Init => AppenderInv
<1> SUFFICES ASSUME Init PROVE AppenderInv
  OBVIOUS
<1>1. TypeInv
  BY InitType
<1>2. Empty.recs = {}
  BY DEF Empty
<1>3. EmptyHands /\ EmptyBlocks /\ NotStarted
  BY <1>2 DEF Init, EmptyHands, EmptyBlocks, NotStarted
<1>4. InBuffers = {} /\ InChunks = {} /\ BlocksApart /\ ChunksApart
  BY <1>2 DEF Init, InBuffers, InChunks, BlocksApart, ChunksApart, Stores
<1>5. Written = <<>>
  BY <1>1, ConcatEmptySeq DEF Init, Written, TypeInv, DataOK
<1>6. BlockRecs(Written) = {} /\ RecsApart(Written)
  BY <1>5 DEF BlockRecs, RecsApart
<1>7. Split({}, {}, {}, {}, {}, 0)
  BY DEF Split
<1>8. Split(InBuffers, InChunks, BlockRecs(Written), lostInCrash, lostInClose, accepted)
  BY <1>4, <1>6, <1>7 DEF Init
<1> QED
  BY <1>1, <1>3, <1>4, <1>6, <1>8 DEF AppenderInv, Account

LEMMA AccountNext ==
  ASSUME AppenderInv, [Next]_vars
  PROVE  Account'
<1>1. Account /\ DataOK
  BY DEF AppenderInv, TypeInv
<1>2. ASSUME NEW t \in Writers \cup {Ctl}, WriteEnter(t) \/ WriteStep(t)
      PROVE  Account'
  <2>1. t \in Threads
    BY ThreadFacts
  <2>2. CASE WriteEnter(t) \/ WriteDispatch(t) \/ WriteAsyncRefused(t)
    BY <1>1, <2>2, AccountUnchanged DEF WriteEnter, WriteDispatch, WriteAsyncRefused, Move,
                                        data, memory, disk, counts
  <2>3. CASE WriteAsync(t)
    <3> DEFINE b == block[log_buff_]
               rs == IF b.len >= TipAt THEN {} ELSE {accepted + 1}
    <3>1. /\ log_buff_ # Null /\ UNCHANGED <<chunk, disk, lost>>
          /\ block' = [block EXCEPT ![log_buff_] = BufferWrite(b, rs)]
          /\ \/ rs = {} /\ accepted' = accepted
             \/ rs = {accepted + 1} /\ accepted' = accepted + 1
      BY <2>3 DEF WriteAsync
    <3>2. log_buff_ \in Stores
      BY <1>1, <3>1 DEF DataOK
    <3>3. BufferWrite(b, rs).recs = b.recs \cup rs
      BY DEF BufferWrite
    <3> HIDE DEF rs
    <3> QED
      BY <3>1, <3>2, <3>3, BufferAccount
  <2>4. CASE WriteSync(t)
    BY <2>1, <2>4, SyncAccount
  <2>5. CASE WriteSyncFile(t)
    BY <2>1, <2>5, FileAccount DEF WriteSyncFile, counts
  <2> QED
    BY <1>2, <2>2, <2>3, <2>4, <2>5 DEF WriteStep
<1>3. ASSUME NEW t \in Threads, pc[t] \notin Carrying, log_buff_ # Null, TakeBlock(t),
             UNCHANGED <<disk, accepted, lostInCrash, lostInClose>>
      PROVE  Account'
  BY <1>1, <1>3, TakeAccount DEF TakeBlock, DataOK
<1>4. ASSUME NEW c \in Callers,
             Flush(c) \/ FlushSync(c) \/ CallerStep(c) \/ \E m \in Modes : SetModeStore(c, m)
      PROVE  Account'
  <2>1. c \in Threads
    BY ThreadFacts
  <2>2. CASE \/ Flush(c) \/ FlushSync(c) \/ FlushSyncClosed(c) \/ FlushSyncReturn(c)
             \/ SetModeStart(c) \/ \E m \in Modes : SetModeStore(c, m)
    BY <1>1, <2>2, AccountUnchanged
       DEF Flush, FlushSync, FlushSyncClosed, FlushSyncReturn, SetModeStart, SetModeStore,
           data, memory, disk, counts
  <2>3. CASE FlushSyncTake(c)
    BY <1>3, <2>1, <2>3 DEF FlushSyncTake, Carrying, counts, lost
  <2>4. CASE FlushSyncFile(c)
    BY <2>1, <2>4, FileAccount DEF FlushSyncFile, counts
  <2> QED
    BY <1>4, <2>2, <2>3, <2>4 DEF CallerStep
<1>5. CASE AsyncStep
  <2>1. CASE AsyncNoBuffer \/ AsyncCheck \/ AsyncWait \/ AsyncTimeout
    BY <1>1, <2>1, AccountUnchanged DEF AsyncNoBuffer, AsyncCheck, AsyncWait, AsyncTimeout,
                                        Move, data, memory, disk, counts
  <2>2. CASE AsyncTake
    BY <1>3, <2>2, ThreadFacts DEF AsyncTake, Carrying, counts, lost
  <2>3. CASE AsyncFile
    BY <2>3, FileAccount, ThreadFacts DEF AsyncFile, counts
  <2> QED
    BY <1>5, <2>1, <2>2, <2>3 DEF AsyncStep
<1>6. CASE Open \/ Close \/ CtlStep
  <2>1. CASE OpenStart \/ Close \/ CloseSet \/ CloseNotify \/ CloseJoin
    BY <1>1, <2>1, AccountUnchanged DEF OpenStart, Close, CloseSet, CloseNotify, CloseJoin,
                                        Move, data, memory, disk, counts
  <2>2. CASE Open
    <3>1. PICK s \in OpenStores : /\ chunk' = [chunk EXCEPT ![Ctl] = block[s]]
                                  /\ block' = [block EXCEPT ![s] = Empty]
      BY <2>2 DEF Open
    <3>2. s \in Stores /\ Ctl \in Threads /\ pc[Ctl] \notin Carrying
      BY <2>2, ThreadFacts, AppenderAssumption DEF Open, Carrying
    <3>3. UNCHANGED <<disk, accepted, lostInCrash, lostInClose>>
      BY <2>2 DEF Open, counts
    <3> QED
      BY <3>1, <3>2, <3>3, TakeAccount
  <2>3. CASE OpenFile
    BY <2>3, FileAccount, ThreadFacts DEF OpenFile, counts
  <2>4. CASE CloseWipe \/ CloseFile
    BY <2>4, WipeAccount, CloseFileAccount
  <2> QED
    BY <1>2, <1>6, <2>1, <2>2, <2>3, <2>4 DEF CtlStep
<1>7. CASE Crash
  BY <1>7, CrashAccount
<1>8. CASE UNCHANGED vars
  BY <1>1, <1>8, AccountUnchanged DEF vars, data, memory, disk, counts
<1> QED
  BY <1>2, <1>4, <1>5, <1>6, <1>7, <1>8 DEF Next

LEMMA HandsNext ==
  ASSUME AppenderInv, [Next]_vars
  PROVE  Hands'
<1>1. TypeInv /\ Hands
  BY DEF AppenderInv, Hands
<1>2. CASE UNCHANGED vars
  BY <1>1, <1>2 DEF vars, data, config, memory, Hands, EmptyHands, EmptyBlocks, NotStarted
<1>3. CASE Next
  BY <1>1, <1>3, WriteHands, CallerHands, AsyncHands, CtlHands, CrashHands DEF Next, CtlStep
<1> QED
  BY <1>2, <1>3

LEMMA AppenderInvNext == AppenderInv /\ [Next]_vars => AppenderInv'
<1> SUFFICES ASSUME AppenderInv, [Next]_vars PROVE AppenderInv'
  OBVIOUS
<1>1. TypeInv'
  BY NextType DEF AppenderInv
<1>2. Hands' /\ Account'
  BY AccountNext, HandsNext
<1> QED
  BY <1>1, <1>2 DEF AppenderInv, Hands

LEMMA AppenderInvHolds == Spec => []AppenderInv
<1>1. AppenderInv /\ [Next]_vars => AppenderInv'
  BY AppenderInvNext
<1> QED
  BY <1>1, AppenderInvInit, PTL DEF Spec

LEMMA AccountIsExactlyOnce == AppenderInv => ExactlyOnce
<1> SUFFICES ASSUME AppenderInv PROVE ExactlyOnce
  OBVIOUS
<1> DEFINE F == BlockRecs(file)
           G == BlockRecs(fbuf)
<1>1. /\ TypeInv /\ Account /\ file \in Seq(Blocks) /\ fbuf \in Seq(Blocks)
  BY DEF AppenderInv, TypeInv, DataOK
<1>2. BlockRecs(Written) = F \cup G /\ F \cap G = {}
  BY <1>1, AccountType, PrefixRecsApart DEF Account, Written
<1>3. Split(InBuffers, InChunks, F \cup G, lostInCrash, lostInClose, accepted)
  BY <1>1, <1>2 DEF Account
<1> HIDE DEF F, G
<1>4. Places = <<InBuffers, InChunks, G, F, lostInCrash, lostInClose>>
  BY DEF Places, F, G
<1>5. Records = UNION {Places[i] : i \in 1 .. 6}
  <2>1. UNION {Places[i] : i \in 1 .. 6}
          = InBuffers \cup InChunks \cup G \cup F \cup lostInCrash \cup lostInClose
    BY <1>4
  <2> QED
    BY <1>3, <2>1 DEF Split, Records
<1>6. \A i, j \in 1 .. 6 : i # j => Places[i] \cap Places[j] = {}
  <2>1. /\ InBuffers \cap InChunks = {} /\ InBuffers \cap G = {} /\ InBuffers \cap F = {}
        /\ InBuffers \cap lostInCrash = {} /\ InBuffers \cap lostInClose = {}
        /\ InChunks \cap G = {} /\ InChunks \cap F = {}
        /\ InChunks \cap lostInCrash = {} /\ InChunks \cap lostInClose = {}
        /\ G \cap lostInCrash = {} /\ G \cap lostInClose = {}
        /\ F \cap lostInCrash = {} /\ F \cap lostInClose = {}
        /\ lostInCrash \cap lostInClose = {} /\ F \cap G = {}
    BY <1>2, <1>3, Zenon DEF Split
  <2>2. \A i \in 1 .. 6 : i = 1 \/ i = 2 \/ i = 3 \/ i = 4 \/ i = 5 \/ i = 6
    OBVIOUS
  <2>3. /\ Places[1] = InBuffers /\ Places[2] = InChunks /\ Places[3] = G
        /\ Places[4] = F /\ Places[5] = lostInCrash /\ Places[6] = lostInClose
    BY <1>4
  <2> HIDE DEF Places
  <2> QED
    BY <2>1, <2>2, <2>3
<1> QED
  BY <1>1, <1>5, <1>6 DEF ExactlyOnce, Account, BlocksApart, ChunksApart, RecsApart, Written

\* At every moment every accepted record is in exactly one place, whatever the
\* threads do, in whatever order, and wherever the process dies.
THEOREM ExactlyOnceCorrect == Spec => []ExactlyOnce
BY AppenderInvHolds, AccountIsExactlyOnce, PTL

-----------------------------------------------------------------------------
(* XloggerAppender implements LogStore. In every state the records are     *)
(* divided among what is pending, stored and lost, so it is enough to know *)
(* of a step which of these grow, and whether the buffer object is there:  *)
(* what the others give up follows.                                        *)

Stored == BlockRecs(file)
Lost == lostInCrash \cup lostInClose
Up == log_buff_ # Null

\* The numbers 1 .. n, split into what is pending, stored and lost.
ThreeParts(P, S, L, n) ==
  /\ P \cap S = {} /\ (P \cup S) \cap L = {}
  /\ P \cup S \cup L = 1 .. n

Divided == ThreeParts(Pending, Stored, Lost, accepted)

-----------------------------------------------------------------------------
(* The division, and what a step does to it.                               *)

LEMMA InvDivides == AppenderInv => Divided
<1> SUFFICES ASSUME AppenderInv PROVE Divided
  OBVIOUS
<1> DEFINE G == BlockRecs(fbuf)
<1>1. TypeInv /\ Account /\ file \in Seq(Blocks) /\ fbuf \in Seq(Blocks)
  BY DEF AppenderInv, TypeInv, DataOK
<1>2. BlockRecs(Written) = Stored \cup G /\ Stored \cap G = {}
  BY <1>1, AccountType, PrefixRecsApart DEF Account, Written, Stored
<1>3. Split(InBuffers, InChunks, Stored \cup G, lostInCrash, lostInClose, accepted)
  BY <1>1, <1>2 DEF Account
<1>4. Pending = InBuffers \cup InChunks \cup G
  BY DEF Pending
<1> HIDE DEF G
<1> QED
  BY <1>2, <1>3, <1>4 DEF Split, Divided, ThreeParts, Lost

\* A step that only stores.
LEMMA StoringStep ==
  ASSUME Divided, Divided', accepted' = accepted, Stored \subseteq Stored', Lost' = Lost,
         Up' = Up
  PROVE  Promise!Store
<1> DEFINE S == Stored' \ Stored
<1>1. S \subseteq Pending /\ Pending' = Pending \ S /\ Stored' = Stored \cup S
  BY DEF Divided, ThreeParts
<1> QED
  BY <1>1 DEF Promise!Store, Stored, Lost, Up

\* A step that accepts a record.
LEMMA AcceptingStep ==
  ASSUME Divided, Divided', accepted \in Nat, accepted' = accepted + 1,
         Stored' = Stored, Lost' = Lost, Up, Up' = Up
  PROVE  Promise!Accept
<1> DEFINE r == accepted + 1
<1>1. 1 .. r = (1 .. accepted) \cup {r} /\ r \notin 1 .. accepted
  OBVIOUS
<1> HIDE DEF r
<1>2. accepted' = r
  BY DEF r
<1>3. Pending' = Pending \cup {r} /\ r \notin Pending \cup Stored \cup Lost
  BY <1>1, <1>2 DEF Divided, ThreeParts
<1> QED
  BY <1>3 DEF Promise!Accept, Promise!Known, Stored, Lost, Up

\* A step that takes the appender down, and records with it.
LEMMA GoingDownStep ==
  ASSUME Divided, Divided', accepted' = accepted, Stored' = Stored, Lost \subseteq Lost', ~Up'
  PROVE  Promise!GoDown
<1> DEFINE S == Lost' \ Lost
<1>1. S \subseteq Pending /\ Pending' = Pending \ S /\ Lost' = Lost \cup S
  BY DEF Divided, ThreeParts
<1> QED
  BY <1>1 DEF Promise!GoDown, Stored, Lost, Up

\* A step that brings the appender up.
LEMMA OpeningStep ==
  ASSUME Divided, Divided', accepted' = accepted, Stored' = Stored, Lost' = Lost, ~Up, Up'
  PROVE  Promise!Open
<1>1. Pending' = Pending
  BY DEF Divided, ThreeParts
<1> QED
  BY <1>1 DEF Promise!Open, Stored, Lost, Up

-----------------------------------------------------------------------------
(* What the operations do to the file and to what is lost.                 *)

\* Neither stored, nor lost, nor opened, nor closed.
Aside == UNCHANGED <<file, lostInCrash, lostInClose, log_buff_>>

LEMMA AsideKeeps ==
  ASSUME Aside
  PROVE  Stored' = Stored /\ Lost' = Lost /\ Up' = Up
BY DEF Aside, Stored, Lost, Up, BlockRecs

\* Whatever part of the file stdio keeps, what the system had stays.
LEMMA Log2FileStores ==
  ASSUME DataOK, NEW t \in Threads, Log2File(t)
  PROVE  Stored \subseteq Stored'
<1> DEFINE all == Append(fbuf, chunk[t])
<1>1. file \in Seq(Blocks) /\ all \in Seq(Blocks)
  BY AppendProperties DEF DataOK
<1>2. \E k \in 0 .. Len(all) : file' = file \o SubSeq(all, 1, k)
  <2>1. SubSeq(all, 1, Len(all)) = all /\ Len(all) \in 0 .. Len(all)
    BY <1>1, LenProperties, SubSeqFull
  <2> HIDE DEF all
  <2> QED
    BY <2>1 DEF Log2File, all
<1>3. PICK k \in 0 .. Len(all) : file' = file \o SubSeq(all, 1, k)
  BY <1>2
<1>4. SubSeq(all, 1, k) \in Seq(Blocks)
  BY <1>1, SubSeqProperties
<1> HIDE DEF all
<1>5. BlockRecs(file \o SubSeq(all, 1, k)) = BlockRecs(file) \cup BlockRecs(SubSeq(all, 1, k))
  BY <1>1, <1>4, ConcatRecs
<1> QED
  BY <1>3, <1>5 DEF Stored, BlockRecs

-----------------------------------------------------------------------------
(* The theorem.                                                            *)

LEMMA InitImplements == Init => Promise!Init
<1> SUFFICES ASSUME Init PROVE Promise!Init
  OBVIOUS
<1>1. Empty.recs = {}
  BY DEF Empty
<1>2. InBuffers = {} /\ InChunks = {}
  BY <1>1 DEF Init, InBuffers, InChunks, Stores
<1>3. BlockRecs(fbuf) = {} /\ BlockRecs(file) = {}
  BY DEF Init, BlockRecs
<1>4. Pending = {} /\ lostInCrash \cup lostInClose = {} /\ log_buff_ = Null
  BY <1>2, <1>3 DEF Init, Pending
<1>5. (log_buff_ # Null) = FALSE
  BY <1>4
<1> QED
  BY <1>3, <1>4, <1>5 DEF Promise!Init

LEMMA StepImplements ==
  ASSUME AppenderInv, AppenderInv', [Next]_vars
  PROVE  [Promise!Next]_(Promise!vars)
<1>1. Divided /\ DataOK /\ BufferThere
  BY InvDivides DEF AppenderInv, TypeInv
<1>2. Divided'
  BY InvDivides, PTL
\* The steps that move a record inside the appender, or none at all, and
\* those that write a block to the file.
<1>3. ASSUME Aside, accepted' = accepted
      PROVE  Promise!Store
  BY <1>1, <1>2, <1>3, AsideKeeps, StoringStep
<1>4. ASSUME NEW t \in Threads, Log2File(t),
             UNCHANGED <<accepted, lostInCrash, lostInClose, log_buff_>>
      PROVE  Promise!Store
  <2>1. Stored \subseteq Stored'
    BY <1>1, <1>4, Log2FileStores
  <2>2. Lost' = Lost /\ Up' = Up
    BY <1>4 DEF Lost, Up
  <2> QED
    BY <1>1, <1>2, <1>4, <2>1, <2>2, StoringStep
\* The steps that accept a record.
<1>5. ASSUME Aside, accepted' = accepted + 1, Up
      PROVE  Promise!Accept
  <2>1. accepted \in Nat
    BY <1>1 DEF DataOK
  <2> QED
    BY <1>1, <1>2, <1>5, <2>1, AsideKeeps, AcceptingStep
<1>6. ASSUME NEW t \in Writers \cup {Ctl}, WriteEnter(t) \/ WriteStep(t)
      PROVE  Promise!Next
  <2>1. t \in Threads
    BY ThreadFacts
  <2>2. CASE WriteEnter(t) \/ WriteDispatch(t) \/ WriteAsyncRefused(t)
    <3>1. Aside /\ accepted' = accepted
      BY <2>2 DEF WriteEnter, WriteDispatch, WriteAsyncRefused, Move, Aside, data, config, disk,
                  counts, lost
    <3> QED
      BY <1>3, <3>1 DEF Promise!Next
  <2>3. CASE WriteAsync(t)
    <3>1. /\ Aside /\ Up
          /\ accepted' = accepted \/ accepted' = accepted + 1
      BY <2>3 DEF WriteAsync, Aside, Up, config, disk, lost
    <3> QED
      BY <1>3, <1>5, <3>1 DEF Promise!Next
  <2>4. CASE WriteSync(t)
    <3>1. Aside /\ Up /\ accepted' = accepted + 1
      BY <2>4 DEF WriteSync, Aside, Up, config, disk, lost
    <3> QED
      BY <1>5, <3>1 DEF Promise!Next
  <2>5. CASE WriteSyncFile(t)
    BY <1>4, <2>1, <2>5 DEF WriteSyncFile, config, counts, lost, Promise!Next
  <2> QED
    BY <1>6, <2>2, <2>3, <2>4, <2>5 DEF WriteStep
<1>7. ASSUME NEW c \in Callers,
             Flush(c) \/ FlushSync(c) \/ CallerStep(c) \/ \E m \in Modes : SetModeStore(c, m)
      PROVE  Promise!Next
  <2>1. c \in Threads
    BY ThreadFacts
  <2>2. CASE FlushSyncFile(c)
    BY <1>4, <2>1, <2>2 DEF FlushSyncFile, config, counts, lost, Promise!Next
  <2>3. CASE ~FlushSyncFile(c)
    <3>1. Aside /\ accepted' = accepted
      BY <1>7, <2>3
         DEF CallerStep, Flush, FlushSync, FlushSyncClosed, FlushSyncTake, FlushSyncReturn,
             SetModeStart, SetModeStore, Aside, data, config, disk, counts, lost
    <3> QED
      BY <1>3, <3>1 DEF Promise!Next
  <2> QED
    BY <2>2, <2>3
<1>8. CASE AsyncStep
  <2>1. CASE AsyncFile
    BY <1>4, <2>1, ThreadFacts DEF AsyncFile, config, counts, lost, Promise!Next
  <2>2. CASE ~AsyncFile
    <3>1. Aside /\ accepted' = accepted
      BY <1>8, <2>2 DEF AsyncStep, AsyncNoBuffer, AsyncTake, AsyncCheck, AsyncWait, AsyncTimeout,
                        Move, Aside, data, config, disk, counts, lost
    <3> QED
      BY <1>3, <3>1 DEF Promise!Next
  <2> QED
    BY <2>1, <2>2
<1>9. CASE Open \/ Close \/ CtlStep
  <2>1. CASE Open
    <3>1. log_buff_' \in Stores /\ UNCHANGED <<file, accepted, lostInCrash, lostInClose>>
      BY <2>1, AppenderAssumption DEF Open, disk, counts
    <3>2. Up' /\ Stored' = Stored /\ Lost' = Lost
      BY <3>1, AppenderAssumption DEF Up, Stored, Lost, BlockRecs
    <3>3. ~Up
      BY <1>1, <2>1 DEF BufferThere, Open, Up
    <3> QED
      BY <1>1, <1>2, <3>1, <3>2, <3>3, OpeningStep DEF Promise!Next
  <2>2. CASE Close \/ OpenStart \/ CloseSet \/ CloseNotify \/ CloseJoin
    <3>1. Aside /\ accepted' = accepted
      BY <2>2 DEF Close, OpenStart, CloseSet, CloseNotify, CloseJoin, Move, Aside, data, config,
                  disk, counts, lost
    <3> QED
      BY <1>3, <3>1 DEF Promise!Next
  <2>3. CASE OpenFile
    BY <1>4, <2>3, ThreadFacts DEF OpenFile, config, counts, lost, Promise!Next
  <2>4. CASE CloseWipe
    <3>1. /\ accepted' = accepted /\ file' = file /\ lostInCrash' = lostInCrash
          /\ lostInClose' = lostInClose \cup block[log_buff_].recs /\ log_buff_' = Null
      BY <2>4 DEF CloseWipe, disk, counts
    <3>2. Lost \subseteq Lost' /\ Stored' = Stored /\ ~Up'
      BY <3>1 DEF Lost, Stored, Up, BlockRecs
    <3> QED
      BY <1>1, <1>2, <3>1, <3>2, GoingDownStep DEF Promise!Next
  <2>5. CASE CloseFile
    <3>1. /\ file' = file \o fbuf /\ file \in Seq(Blocks) /\ fbuf \in Seq(Blocks)
          /\ UNCHANGED <<accepted, lostInCrash, lostInClose, log_buff_>>
      BY <1>1, <2>5 DEF CloseFile, DataOK, config, counts, lost
    <3>2. BlockRecs(file \o fbuf) = BlockRecs(file) \cup BlockRecs(fbuf)
      BY <3>1, ConcatRecs
    <3>3. Stored \subseteq Stored' /\ Lost' = Lost /\ Up' = Up
      BY <3>1, <3>2 DEF Stored, Lost, Up, BlockRecs
    <3> QED
      BY <1>1, <1>2, <3>1, <3>3, StoringStep DEF Promise!Next
  <2> QED
    BY <1>6, <1>9, <2>1, <2>2, <2>3, <2>4, <2>5 DEF CtlStep
<1>10. CASE Crash
  <2>1. /\ accepted' = accepted /\ file' = file /\ lostInClose' = lostInClose
        /\ lostInCrash \subseteq lostInCrash' /\ log_buff_' = Null
    BY <1>10 DEF Crash
  <2>2. Lost \subseteq Lost' /\ Stored' = Stored /\ ~Up'
    BY <2>1 DEF Lost, Stored, Up, BlockRecs
  <2> QED
    BY <1>1, <1>2, <2>1, <2>2, GoingDownStep DEF Promise!Next
<1>11. CASE UNCHANGED vars
  <2>1. Aside /\ accepted' = accepted
    BY <1>11 DEF vars, data, config, disk, counts, lost, Aside
  <2> QED
    BY <1>3, <2>1 DEF Promise!Next
<1> QED
  BY <1>6, <1>7, <1>8, <1>9, <1>10, <1>11 DEF Next

\* Whatever the threads do, and wherever the process dies, a user of the
\* appender sees LogStore: a record that was accepted is pending until it is
\* stored, is stored once, and is lost only in a step that takes the appender
\* down.
THEOREM AppenderImplements == Spec => ImplementsLogStore
<1>1. AppenderInv /\ AppenderInv' /\ [Next]_vars => [Promise!Next]_(Promise!vars)
  BY StepImplements
<1> QED
  BY <1>1, AppenderInvHolds, InitImplements, PTL DEF Spec, ImplementsLogStore, Promise!Spec
=============================================================================
