------------------------------ MODULE LogBlock ------------------------------
(***************************************************************************)
(* One LogBaseBuffer in the memory-mapped file, store by store: a write    *)
(* compresses behind the end of the block, encrypts from the first cell    *)
(* that was left plain on, and counts the new cells in the header last.    *)
(* The process may die between any two stores; what it has stored stays in *)
(* the mapping, and the next process takes it for a block if the header    *)
(* says so.  The blocks go to the file of the day, where XlogReaders finds *)
(* them.                                                                   *)
(*                                                                         *)
(* What compression produces is any sequence of cells, encryption adds     *)
(* Cipher to a cell.  memset is taken to clear from the head on, as the    *)
(* C libraries of the platforms do.                                        *)
(***************************************************************************)
EXTENDS XlogReaders

CONSTANTS
  BlockMax,     \* kBufferBlockLength
  Bytes,        \* values of a payload cell
  Sizes,        \* how many cells a write may compress to
  Tea,          \* TEA_BLOCK_LEN
  Crypts,       \* is_crypt_: the values to try
  LastHour,     \* the last hour of a day
  MaxWrites,    \* bound: writes
  MaxTicks,      \* bound: hours that begin
  MaxCrashes    \* bound: crashes

ASSUME BlockAssumption ==
  /\ BlockMax \in Nat /\ BlockMax > HeaderLen + TailerLen
  /\ Bytes \subseteq Nat /\ Sizes \subseteq Nat \ {0}
  /\ Tea \in Nat \ {0} /\ Crypts \subseteq BOOLEAN
  /\ Magic \in Nat \ {MagicEnd} /\ LastHour \in Nat

Cipher == 100
Payloads == UNION {[1 .. n -> Bytes] : n \in Sizes}

VARIABLES
  is_crypt_,
  mem,                \* the mapping
  length,             \* buff_.Length()
  remain,             \* remain_nocrypt_len_
  at,                 \* where the process is
  job,                \* cells to store, where, and how many of them are new
  chunk,              \* the block on its way to the file
  file,               \* today's log file
  hour,
  given,              \* payload whose write is complete, of the block
  recovered,          \* the block comes from a process that died
  log,                \* what is in the file: blocks, synchronous or not, and torn ones
  writes, ticks, crashes

memory == <<mem, length, remain>>
counts == <<writes, ticks, crashes>>
vars   == <<is_crypt_, memory, at, job, chunk, file, hour, given, recovered, log, counts>>

Zeros == [i \in 1 .. BlockMax |-> 0]
NoJob == [from |-> 0, out |-> <<>>, new |-> 0]
Header(n) == <<Magic, hour, hour, n>>

Init ==
  /\ is_crypt_ \in Crypts
  /\ mem = Zeros /\ length = 0 /\ remain = 0
  /\ at = "idle" /\ job = NoJob /\ chunk = <<>> /\ file = <<>>
  /\ hour = 0 /\ given = <<>> /\ recovered = FALSE /\ log = <<>>
  /\ writes = 0 /\ ticks = 0 /\ crashes = 0

Put(m, from, cells) ==
  [i \in 1 .. BlockMax |-> IF i >= from /\ i < from + Len(cells) THEN cells[i - from + 1] ELSE m[i]]

-----------------------------------------------------------------------------
(* LogBaseBuffer::Write.                                                   *)

\* Variant: the end cell has no room of its own.
RoomWithoutTailer(used) == BlockMax - used

\* avail_out of the compressor.
Room(used) == BlockMax - used - TailerLen

\* __Reset if the block is empty; the compressor stores what it has room
\* for behind the block.
WriteCompress == \E data \in Payloads :
  LET used == IF length = 0 THEN HeaderLen ELSE length
      base == IF length = 0 THEN Put(Zeros, 1, Header(0)) ELSE mem
      n    == Min({Len(data), Room(used)})
      out  == SubSeq(data, 1, n)
  IN
  /\ at = "idle" /\ writes < MaxWrites
  /\ writes' = writes + 1
  /\ length' = used
  /\ mem' = Put(base, used + 1, out)
  /\ IF n = 0 THEN UNCHANGED <<at, job>>
     ELSE /\ at' = "crypt"
          /\ job' = [from |-> used - remain + 1, new |-> n,
                     out |-> SubSeq(mem, used - remain + 1, used) \o out]
  /\ UNCHANGED <<is_crypt_, remain, chunk, file, hour, given, recovered, log, ticks, crashes>>

\* Variant: the cells of whole groups are counted as plain ones too.
RestOfAll(n) == IF is_crypt_ THEN n ELSE 0

\* _remain_nocrypt_len: the cells behind the last whole group.
Rest(n) == IF is_crypt_ THEN n % Tea ELSE 0

Whole(n) == IF is_crypt_ THEN n - Rest(n) ELSE 0

\* CryptAsyncLog: whole groups are encrypted, the rest stays plain.
Encrypted(cells) ==
  [i \in DOMAIN cells |-> IF i <= Whole(Len(cells)) THEN cells[i] + Cipher ELSE cells[i]]

\* Variant: the new cells are counted before they are encrypted.
WriteCryptCountedFirst == \E n \in 1 .. Len(job.out) :
  /\ at = "crypt"
  /\ \/ /\ job.new > 0
        /\ mem' = [mem EXCEPT ![4] = @ + job.new]
        /\ length' = length + job.new
        /\ given' = given \o SubSeq(job.out, Len(job.out) - job.new + 1, Len(job.out))
        /\ job' = [job EXCEPT !.new = 0]
        /\ UNCHANGED at
     \/ /\ job.new = 0
        /\ mem' = Put(mem, job.from, SubSeq(Encrypted(job.out), 1, n))
        /\ at' = IF n = Len(job.out) THEN "len" ELSE "dying"
        /\ n < Len(job.out) => crashes < MaxCrashes
        /\ UNCHANGED <<length, given, job>>
  /\ UNCHANGED <<is_crypt_, remain, chunk, file, hour, recovered, log, counts>>

\* buff_.Write copies the result back, so many cells of it before a crash.
WriteCrypt == \E n \in 1 .. Len(job.out) :
  /\ at = "crypt"
  /\ mem' = Put(mem, job.from, SubSeq(Encrypted(job.out), 1, n))
  /\ at' = IF n = Len(job.out) THEN "len" ELSE "dying"
  /\ n < Len(job.out) => crashes < MaxCrashes
  /\ UNCHANGED <<is_crypt_, length, remain, job, chunk, file, hour, given, recovered, log,
                 counts>>

\* UpdateLogLen, the store that makes the write part of the block.
WriteLen ==
  /\ at = "len"
  /\ mem' = [mem EXCEPT ![4] = @ + job.new]
  /\ length' = length + job.new
  /\ remain' = Rest(Len(job.out))
  /\ given' = given \o SubSeq(job.out, Len(job.out) - job.new + 1, Len(job.out))
  /\ job' = NoJob /\ at' = "idle"
  /\ UNCHANGED <<is_crypt_, chunk, file, hour, recovered, log, counts>>

-----------------------------------------------------------------------------
(* LogBaseBuffer::Flush.                                                   *)

\* GetLogLen, which asks for a magic first.
StoredLen == IF length >= HeaderLen /\ mem[1] = Magic THEN mem[4] ELSE 0

\* A block without payload is cleared.
FlushEmpty ==
  /\ at \in {"idle", "fixed"} /\ StoredLen = 0
  /\ at = "idle" => length # 0
  /\ mem' = Zeros /\ length' = 0 /\ remain' = 0
  /\ given' = <<>> /\ recovered' = FALSE
  /\ at' = "idle"
  /\ UNCHANGED <<is_crypt_, job, chunk, file, hour, log, counts>>

\* UpdateLogHour: the hour of the flush.
FlushHour ==
  /\ at \in {"idle", "fixed"} /\ StoredLen # 0
  /\ mem' = [mem EXCEPT ![3] = hour]
  /\ at' = "tail"
  /\ UNCHANGED <<is_crypt_, length, remain, job, chunk, file, hour, given, recovered, log,
                 counts>>

\* SetTailerInfo; the block is copied out.
FlushTail ==
  /\ at = "tail"
  /\ mem' = Put(mem, length + 1, <<MagicEnd>>)
  /\ length' = length + TailerLen
  /\ chunk' = SubSeq(mem', 1, length')
  /\ at' = "clear"
  /\ UNCHANGED <<is_crypt_, remain, job, file, hour, given, recovered, log, counts>>

\* __Clear: from the first cleared cell on there is no block in the mapping.
FlushClear == \E n \in 1 .. BlockMax :
  /\ at = "clear"
  /\ mem' = Put(mem, 1, SubSeq(Zeros, 1, n))
  /\ length' = 0 /\ remain' = 0
  /\ at' = IF n = BlockMax THEN "file" ELSE "dying"
  /\ n < BlockMax => crashes < MaxCrashes
  /\ UNCHANGED <<is_crypt_, job, chunk, file, hour, given, recovered, log, counts>>

Entry(whole) == [start |-> Len(file) + 1, whole |-> whole, payload |-> given,
                 sync |-> FALSE, recovered |-> recovered]

\* __Log2File.
FileWrite ==
  /\ at = "file"
  /\ file' = file \o chunk
  /\ log' = Append(log, Entry(TRUE))
  /\ chunk' = <<>> /\ given' = <<>> /\ recovered' = FALSE
  /\ at' = "idle"
  /\ UNCHANGED <<is_crypt_, memory, job, hour, counts>>

\* Write into a buffer of its own: a block of one record, neither compressed
\* nor encrypted, as sync mode and the appender's own remarks need it.
WriteSync == \E data \in Payloads :
  /\ at = "idle" /\ writes < MaxWrites
  /\ writes' = writes + 1
  /\ file' = file \o Header(Len(data)) \o data \o <<MagicEnd>>
  /\ log' = Append(log, [start |-> Len(file) + 1, whole |-> TRUE, payload |-> data,
                         sync |-> TRUE, recovered |-> FALSE])
  /\ UNCHANGED <<is_crypt_, memory, at, job, chunk, hour, given, recovered, ticks, crashes>>

-----------------------------------------------------------------------------
(* The environment, and the next process.                                  *)

\* The process dies. On its way to the file a block may be cut off anywhere.
Crash ==
  /\ crashes < MaxCrashes
  /\ crashes' = crashes + 1
  /\ \/ UNCHANGED <<file, log>>
     \/ /\ at = "file"
        /\ \E n \in 1 .. Len(chunk) - 1 : file' = file \o SubSeq(chunk, 1, n)
        /\ log' = Append(log, Entry(FALSE))
  /\ length' = 0 /\ remain' = 0 /\ job' = NoJob /\ chunk' = <<>>
  /\ at' = "dead"
  /\ UNCHANGED <<is_crypt_, mem, hour, given, recovered, writes, ticks>>

\* __Fix: what begins with a magic is a block as long as its header says.
\* The test for a length beyond the mapping never succeeds.
Fix ==
  /\ at = "dead"
  /\ length' = IF mem[1] = Magic THEN mem[4] + HeaderLen ELSE 0
  /\ recovered' = TRUE
  /\ given' = IF mem[1] = Magic THEN given ELSE <<>>
  /\ at' = "fixed"
  /\ UNCHANGED <<is_crypt_, mem, remain, job, chunk, file, hour, log, counts>>

\* The next hour, or the first one of the next day with its own file.
Tick ==
  /\ at \in {"idle", "dead"} /\ ticks < MaxTicks
  /\ ticks' = ticks + 1
  /\ \/ hour < LastHour /\ hour' = hour + 1 /\ UNCHANGED <<file, log>>
     \/ hour = LastHour /\ hour' = 0 /\ file' = <<>> /\ log' = <<>>
  /\ UNCHANGED <<is_crypt_, memory, at, job, chunk, given, recovered, writes, crashes>>

Next ==
  \/ at # "dead" /\ Crash
  \/ at # "dying" /\ (\/ WriteCompress \/ WriteCrypt \/ WriteLen \/ WriteSync
                      \/ FlushEmpty \/ FlushHour \/ FlushTail \/ FlushClear \/ FileWrite
                      \/ Fix \/ Tick)

Spec == Init /\ [][Next]_vars

-----------------------------------------------------------------------------
(* Properties.                                                             *)

WholeStarts == {e.start : e \in {log[i] : i \in {j \in DOMAIN log : log[j].whole}}}
Torn == \E i \in DOMAIN log : ~log[i].whole

TypeOK ==
  /\ mem \in [1 .. BlockMax -> Nat] /\ length \in 0 .. BlockMax
  /\ remain \in 0 .. Tea - 1
  /\ at \in {"idle", "crypt", "len", "tail", "clear", "file", "dying", "dead", "fixed"}
  /\ hour \in 0 .. LastHour

\* A block always has room for its end cell behind it, however full writes
\* and recoveries make it.
RoomForTailer == at \in {"idle", "crypt", "len", "tail", "fixed"} => length + TailerLen <= BlockMax

\* What a decoder makes of an asynchronous block's cells.
Decrypted(cells) ==
  [i \in DOMAIN cells |-> IF i <= Whole(Len(cells)) THEN cells[i] - Cipher ELSE cells[i]]

Payload(f, p) == SubSeq(f, p + HeaderLen, p + HeaderLen + LogLen(f, p) - 1)

\* What a decoder reads out of a block: the magic tells it which ones are
\* synchronous, and it decrypts all others.
Read(f, e) == IF e.sync THEN Payload(f, e.start) ELSE Decrypted(Payload(f, e.start))

\* A decoder reads out of each block in the file the payload of exactly the
\* writes that had been completed, however many crashes there were between
\* the stores of a write or of a flush. With encryption, a block of a process
\* that died may have lost the cells of its last, incomplete group: the write
\* that was under way has encrypted them already.
CommittedIsReadable ==
  \A i \in DOMAIN log : log[i].whole =>
    LET read == Read(file, log[i])
        sent == log[i].payload
        sure == IF is_crypt_ /\ log[i].recovered THEN Whole(Len(sent)) ELSE Len(sent)
    IN /\ Len(read) = Len(sent)
       /\ \A j \in 1 .. sure : read[j] = sent[j]

\* The decoder loses a block only behind a torn one or behind a block it
\* has lost: as long as it is in step, nothing in a payload and no
\* coincidence of hours and lengths with a magic can bring it out of step.
LossStartsAtTear ==
  LET read == DartBlocks(file) IN
  /\ \A i \in DOMAIN log :
       /\ log[i].whole
       /\ i > 1 => log[i - 1].whole /\ log[i - 1].start \in read
       => log[i].start \in read
  /\ ~Torn => read = WholeStarts

\* The port reads every block that the script reads, unless something passes
\* for a block, a torn one or payload, before the script's start: the script
\* starts where it finds two blocks in a row, which may be behind what the
\* port takes for a block.
PortReadsAsMuch ==
  LET starts == ScriptStarts(file) IN
  (\A p \in GoodBlocks(file) \ WholeStarts : \E q \in starts : q < p)
  => ScriptBlocks(file) \subseteq DartBlocks(file)

\* The blocks with records of the hours from b up to and without e.
Wanted(b, e) ==
  {p \in WholeStarts : EndHour(file, p) >= b /\ BeginHour(file, p) < e}

\* In a file without a torn block GetPeriodLogs ends behind the last block
\* with records of the hours asked for, and begins at the first one, or before
\* it, if some block in the file begins in an earlier hour than one before it:
\* a remark of the appender's own, written past the log block, may cause that.
PeriodIsExact ==
  ~Torn => \A b, e \in 0 .. LastHour + 1 :
    LET wanted == Wanted(b, e)
        found  == PeriodLogs(file, b, e)
        first  == Min(wanted)
        last   == Behind(file, Max(wanted))
    IN b < e /\ wanted # {} =>
         /\ found.end = last /\ found.begin \in 1 .. first
         /\ (\A p, q \in WholeStarts : p < q => BeginHour(file, p) <= BeginHour(file, q))
            => found.begin = first

=============================================================================
