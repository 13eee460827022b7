--------------------------- MODULE LogBlockProofs ---------------------------
(***************************************************************************)
(* All properties of LogBlock, for any size of the block and of the        *)
(* cipher's groups, whatever the compressor produces and however often the *)
(* process dies.                                                           *)
(***************************************************************************)
EXTENDS LogBlock, SequenceTheorems, WellFoundedInduction, TLAPS

\* Of n cells, how many a cipher (c) leaves plain behind its whole groups,
\* how many stand before those, and how many are enciphered.
Plain(c, n) == IF c THEN n % Tea ELSE 0
Kept(c, n) == n - Plain(c, n)
Enciphered(c, n) == IF c THEN Kept(c, n) ELSE 0

\* What cell j of a block with payload g is, and that the first n cells of
\* memory m are that.
CellOf(c, g, j) == IF j <= Enciphered(c, Len(g)) THEN g[j] + Cipher ELSE g[j]
Sound(c, m, g, n) == \A j \in 1 .. n : m[HeaderLen + j] = CellOf(c, g, j)

Places == {"idle", "crypt", "len", "tail", "clear", "file", "dying", "dead", "fixed"}

Entries == [start : Nat, whole : BOOLEAN, payload : Seq(Nat), sync : BOOLEAN, recovered : BOOLEAN]

BlockTypes ==
  /\ is_crypt_ \in BOOLEAN
  /\ mem \in [1 .. BlockMax -> Nat] /\ length \in 0 .. BlockMax /\ remain \in 0 .. Tea - 1
  /\ at \in Places
  /\ job.from \in Nat /\ job.out \in Seq(Nat) /\ job.new \in Nat
  /\ chunk \in Seq(Nat) /\ file \in Seq(Nat)
  /\ hour \in 0 .. LastHour /\ given \in Seq(Nat) /\ recovered \in BOOLEAN
  /\ log \in Seq(Entries)

\* A mapping that begins with a magic has the payload that has been given,
\* and room behind it; length says the same of an open block.
SizeInv ==
  /\ mem[1] = Magic => mem[4] = Len(given) /\ HeaderLen + Len(given) + TailerLen <= BlockMax
  /\ at \in {"idle", "crypt", "len", "tail", "fixed"} =>
       IF length = 0 THEN given = <<>> /\ at \in {"idle", "fixed"}
       ELSE mem[1] = Magic /\ length = HeaderLen + Len(given)

\* A write knows which cells were left plain, and takes them with it; a
\* block whose process died is not written to any more.
JobInv ==
  /\ at = "fixed" => recovered
  /\ at \in {"idle", "crypt", "len"} => remain = Plain(is_crypt_, Len(given)) /\ ~recovered
  /\ at \in {"crypt", "len"} =>
       /\ job.from = length - remain + 1
       /\ Len(job.out) = remain + job.new
       /\ length + job.new + TailerLen <= BlockMax
       /\ \A i \in 1 .. remain : job.out[i] = given[Len(given) - remain + i]
  /\ at = "len" =>
       \A i \in 1 .. Len(job.out) :
         mem[job.from + i - 1] =
           IF i <= Enciphered(is_crypt_, Len(job.out)) THEN job.out[i] + Cipher ELSE job.out[i]

\* The cells of whole groups are sound from the end of their write on,
\* whatever is under way; the rest are sound when nothing is.
CellsInv ==
  mem[1] = Magic =>
    /\ Sound(is_crypt_, mem, given, Kept(is_crypt_, Len(given)))
    /\ at \in {"idle", "crypt"} \/ (at = "tail" /\ ~recovered) =>
         Sound(is_crypt_, mem, given, Len(given))

\* The block on its way to the file, which the mapping is cleared of first.
ChunkInv ==
  /\ at \in {"clear", "file"} =>
       /\ Len(chunk) = HeaderLen + Len(given) + TailerLen
       /\ chunk[4] = Len(given)
       /\ Sound(is_crypt_, chunk, given, Kept(is_crypt_, Len(given)))
       /\ ~recovered => Sound(is_crypt_, chunk, given, Len(given))
  /\ at = "file" => mem[1] # Magic /\ length = 0 /\ remain = 0

\* A block in file f.
ReadableIn(c, f, e) ==
  /\ e.start \in Nat \ {0} /\ e.payload \in Seq(Nat)
  /\ e.start + HeaderLen + Len(e.payload) <= Len(f)
  /\ f[e.start + 3] = Len(e.payload)
  /\ \A j \in 1 .. Len(e.payload) :
       LET cell == f[e.start + HeaderLen + j - 1] IN
       IF e.sync THEN cell = e.payload[j]
       ELSE \/ cell = CellOf(c, e.payload, j)
            \/ c /\ e.recovered /\ j > Enciphered(c, Len(e.payload))

FileInv == \A i \in DOMAIN log : log[i].whole => ReadableIn(is_crypt_, file, log[i])

BlockInv == BlockTypes /\ SizeInv /\ JobInv /\ CellsInv /\ ChunkInv /\ FileInv

-----------------------------------------------------------------------------
(* Counting cells.                                                         *)

LEMMA BlockConstants ==
  /\ BlockMax \in Nat /\ BlockMax > HeaderLen + TailerLen /\ HeaderLen = 4 /\ TailerLen = 1
  /\ Bytes \subseteq Nat /\ Sizes \subseteq Nat \ {0} /\ Tea \in Nat \ {0} /\ Cipher = 100
  /\ Magic \in Nat /\ Magic # 0 /\ LastHour \in Nat /\ Crypts \subseteq BOOLEAN
BY BlockAssumption DEF HeaderLen, TailerLen, MagicEnd, Cipher

LEMMA Lengths == HeaderLen = 4 /\ TailerLen = 1 /\ BlockMax \in Nat /\ BlockMax > 5
BY BlockConstants

LEMMA Remainder ==
  ASSUME NEW t \in Nat \ {0}, NEW q \in Nat, NEW r \in 0 .. t - 1
  PROVE  (t * q + r) % t = r
OBVIOUS

LEMMA Division ==
  ASSUME NEW t \in Nat \ {0}, NEW n \in Nat
  PROVE  /\ n % t \in 0 .. t - 1 /\ n % t <= n /\ n \div t \in Nat
         /\ n = t * (n \div t) + (n % t)
OBVIOUS

LEMMA Counts ==
  ASSUME NEW c \in BOOLEAN, NEW n \in Nat
  PROVE  /\ Plain(c, n) \in 0 .. Tea - 1 /\ Plain(c, n) <= n
         /\ Kept(c, n) \in 0 .. n /\ Enciphered(c, n) \in 0 .. n
         /\ Kept(c, n) = n - Plain(c, n) /\ Enciphered(c, n) <= Kept(c, n)
         /\ c => Enciphered(c, n) = Kept(c, n)
         /\ ~c => Plain(c, n) = 0 /\ Kept(c, n) = n /\ Enciphered(c, n) = 0
<1>1. Plain(c, n) \in 0 .. Tea - 1 /\ Plain(c, n) <= n
  <2>1. Tea \in Nat \ {0}
    BY BlockConstants
  <2>2. n % Tea \in 0 .. Tea - 1 /\ n % Tea <= n
    BY <2>1, Division
  <2>3. 0 \in 0 .. Tea - 1 /\ 0 <= n
    BY <2>1
  <2> QED
    BY <2>2, <2>3 DEF Plain
<1> QED
  BY <1>1 DEF Kept, Enciphered, Plain

LEMMA NatCounts ==
  ASSUME NEW c \in BOOLEAN, NEW n \in Nat
  PROVE  Plain(c, n) \in Nat /\ Kept(c, n) \in Nat /\ Enciphered(c, n) \in Nat
<1>1. Plain(c, n) \in 0 .. Tea - 1 /\ Kept(c, n) \in 0 .. n /\ Enciphered(c, n) \in 0 .. n
  BY Counts
<1>2. Tea \in Nat
  BY BlockConstants
<1> QED
  BY <1>1, <1>2

\* The plain rest of a block and what comes behind it leave the same rest as
\* the whole block.
LEMMA RestOfRest ==
  ASSUME NEW c \in BOOLEAN, NEW a \in Nat, NEW b \in Nat
  PROVE  Plain(c, a + b) = Plain(c, Plain(c, a) + b)
<1>1. CASE c
  <2>1. PICK q \in Nat, r \in 0 .. Tea - 1 : a = Tea * q + r /\ r = a % Tea
    BY BlockConstants, Division
  <2>2. PICK p \in Nat, s \in 0 .. Tea - 1 : r + b = Tea * p + s /\ s = (r + b) % Tea
    <3>1. r + b \in Nat
      OBVIOUS
    <3> QED
      BY <3>1, BlockConstants, Division
  <2>3. a + b = Tea * (q + p) + s
    <3>1. Tea * (q + p) = Tea * q + Tea * p
      BY BlockConstants
    <3>2. Tea * q \in Nat /\ Tea * p \in Nat
      BY BlockConstants
    <3> QED
      BY <2>1, <2>2, <3>1, <3>2
  <2>4. (a + b) % Tea = s
    <3>1. q + p \in Nat /\ Tea \in Nat \ {0}
      BY BlockConstants
    <3>2. (Tea * (q + p) + s) % Tea = s
      BY <3>1, Remainder
    <3> QED
      BY <2>3, <3>2
  <2> QED
    BY <1>1, <2>1, <2>2, <2>4 DEF Plain
<1>2. CASE ~c
  BY <1>2 DEF Plain
<1> QED
  BY <1>1, <1>2

LEMMA CountsAdd ==
  ASSUME NEW c \in BOOLEAN, NEW a \in Nat, NEW b \in Nat
  PROVE  /\ Kept(c, a + b) = Kept(c, a) + Kept(c, Plain(c, a) + b)
         /\ Kept(c, a) <= Kept(c, a + b)
         /\ c => Enciphered(c, a + b) = Kept(c, a) + Enciphered(c, Plain(c, a) + b)
<1>1. Plain(c, a + b) = Plain(c, Plain(c, a) + b)
  BY RestOfRest
<1>2. /\ Plain(c, a) \in Nat /\ Plain(c, a) + b \in Nat /\ a + b \in Nat
      /\ Plain(c, a) <= a /\ Plain(c, a + b) \in Nat
  BY Counts, BlockConstants
<1>3. Kept(c, Plain(c, a) + b) \in Nat
  BY <1>2, Counts
<1> QED
  BY <1>1, <1>2, <1>3 DEF Kept, Enciphered

LEMMA CodeCounts ==
  ASSUME NEW n
  PROVE  Rest(n) = Plain(is_crypt_, n) /\ Whole(n) = Enciphered(is_crypt_, n)
BY DEF Rest, Whole, Plain, Kept, Enciphered

-----------------------------------------------------------------------------
(* Cells in memory and in sequences.                                       *)

Memory == [1 .. BlockMax -> Nat]

\* Memory k is memory m with cells stored from a position on.
Stored(k, m, from, cells) ==
  /\ k \in Memory
  /\ \A i \in 1 .. BlockMax : i < from \/ i >= from + Len(cells) => k[i] = m[i]
  /\ \A i \in 1 .. Len(cells) : from + i - 1 \in 1 .. BlockMax => k[from + i - 1] = cells[i]

LEMMA PutStores ==
  ASSUME NEW m \in Memory, NEW from \in Nat, NEW cells \in Seq(Nat)
  PROVE  Stored(Put(m, from, cells), m, from, cells)
<1>1. Put(m, from, cells) \in Memory
  BY Lengths DEF Put, Memory
<1>2. ASSUME NEW i \in 1 .. BlockMax, i < from \/ i >= from + Len(cells)
      PROVE  Put(m, from, cells)[i] = m[i]
  BY <1>2 DEF Put
<1>3. ASSUME NEW i \in 1 .. Len(cells), from + i - 1 \in 1 .. BlockMax
      PROVE  Put(m, from, cells)[from + i - 1] = cells[i]
  <2>1. from + i - 1 >= from /\ from + i - 1 < from + Len(cells) /\ (from + i - 1) - from + 1 = i
    OBVIOUS
  <2>2. Put(m, from, cells)[from + i - 1] = cells[(from + i - 1) - from + 1]
    BY <1>3, <2>1 DEF Put
  <2> QED
    BY <2>1, <2>2
<1> QED
  BY <1>1, <1>2, <1>3 DEF Stored

LEMMA EncryptedCells ==
  ASSUME NEW cells \in Seq(Nat), is_crypt_ \in BOOLEAN
  PROVE  /\ Encrypted(cells) \in Seq(Nat) /\ Len(Encrypted(cells)) = Len(cells)
         /\ \A i \in 1 .. Len(cells) :
              Encrypted(cells)[i] =
                IF i <= Enciphered(is_crypt_, Len(cells)) THEN cells[i] + Cipher ELSE cells[i]
<1>1. DOMAIN cells = 1 .. Len(cells) /\ Len(cells) \in Nat
  OBVIOUS
<1>2. Encrypted(cells) = [i \in 1 .. Len(cells) |->
        IF i <= Enciphered(is_crypt_, Len(cells)) THEN cells[i] + Cipher ELSE cells[i]]
  BY <1>1, CodeCounts DEF Encrypted
<1>3. \A i \in 1 .. Len(cells) : cells[i] \in Nat /\ cells[i] + Cipher \in Nat
  BY <1>1, BlockConstants
<1>4. Encrypted(cells) \in [1 .. Len(cells) -> Nat]
  BY <1>2, <1>3
<1>5. Encrypted(cells) \in Seq(Nat)
  BY <1>1, <1>4, SeqDef
<1>6. Len(Encrypted(cells)) = Len(cells)
  BY <1>1, <1>4, <1>5
<1> QED
  BY <1>2, <1>5, <1>6

LEMMA Slice ==
  ASSUME NEW s, NEW m \in Nat \ {0}, NEW n \in Nat, m <= n + 1,
         \A i \in m .. n : s[i] \in Nat
  PROVE  /\ SubSeq(s, m, n) \in Seq(Nat) /\ Len(SubSeq(s, m, n)) = n - m + 1
         /\ \A i \in 1 .. n - m + 1 : SubSeq(s, m, n)[i] = s[m + i - 1]
BY SubSeqProperties

LEMMA Prefix ==
  ASSUME NEW s, NEW n \in Nat, \A i \in 1 .. n : s[i] \in Nat
  PROVE  /\ SubSeq(s, 1, n) \in Seq(Nat) /\ Len(SubSeq(s, 1, n)) = n
         /\ \A i \in 1 .. n : SubSeq(s, 1, n)[i] = s[i]
<1>1. 1 \in Nat \ {0} /\ 1 <= n + 1 /\ n - 1 + 1 = n
  OBVIOUS
<1>2. /\ SubSeq(s, 1, n) \in Seq(Nat) /\ Len(SubSeq(s, 1, n)) = n - 1 + 1
      /\ \A i \in 1 .. n - 1 + 1 : SubSeq(s, 1, n)[i] = s[1 + i - 1]
  BY <1>1, Slice
<1>3. \A i \in 1 .. n : 1 + i - 1 = i
  OBVIOUS
<1> QED
  BY <1>1, <1>2, <1>3

LEMMA Joined ==
  ASSUME NEW s \in Seq(Nat), NEW t \in Seq(Nat)
  PROVE  /\ s \o t \in Seq(Nat) /\ Len(s \o t) = Len(s) + Len(t)
         /\ Len(s) \in Nat /\ Len(t) \in Nat
         /\ \A i \in 1 .. Len(s) : (s \o t)[i] = s[i]
         /\ \A i \in 1 .. Len(t) : (s \o t)[Len(s) + i] = t[i]
<1>1. \A i \in 1 .. Len(s) : (s \o t)[i] = s[i]
  BY ConcatProperties
<1>2. ASSUME NEW i \in 1 .. Len(t)
      PROVE  (s \o t)[Len(s) + i] = t[i]
  OBVIOUS
<1> QED
  BY <1>1, <1>2

LEMMA Associates ==
  ASSUME NEW s \in Seq(Nat), NEW t \in Seq(Nat), NEW u \in Seq(Nat)
  PROVE  (s \o t) \o u = s \o (t \o u)
BY ConcatAssociative, SMTT(30)

LEMMA MinOfTwo ==
  ASSUME NEW a \in Nat, NEW b \in Nat
  PROVE  /\ Min({a, b}) \in Nat /\ Min({a, b}) <= a /\ Min({a, b}) <= b
BY DEF Min

LEMMA PayloadCells ==
  ASSUME NEW data \in Payloads
  PROVE  data \in Seq(Nat) /\ Len(data) \in Nat \ {0}
<1>1. PICK n \in Sizes : data \in [1 .. n -> Bytes]
  BY DEF Payloads
<1>2. n \in Nat \ {0} /\ data \in [1 .. n -> Nat]
  BY <1>1, BlockConstants
<1>3. data \in Seq(Nat)
  BY <1>2, SeqDef
<1>4. Len(data) = n
  BY <1>2, <1>3
<1> QED
  BY <1>2, <1>3, <1>4

LEMMA HeaderCells ==
  ASSUME hour \in Nat, NEW n \in Nat
  PROVE  /\ Header(n) \in Seq(Nat) /\ Len(Header(n)) = 4
         /\ Header(n)[1] = Magic /\ Header(n)[3] = hour /\ Header(n)[4] = n
BY BlockConstants DEF Header

\* A block in the file stays what it is when something is written behind it.
LEMMA ReadableStays ==
  ASSUME NEW c \in BOOLEAN, NEW f \in Seq(Nat), NEW more \in Seq(Nat),
         NEW e, ReadableIn(c, f, e)
  PROVE  ReadableIn(c, f \o more, e)
<1>1. /\ Len(f) \in Nat /\ Len(more) \in Nat /\ Len(f \o more) = Len(f) + Len(more)
      /\ \A i \in 1 .. Len(f) : (f \o more)[i] = f[i]
  BY Joined
<1>2. PICK z \in Nat, y \in Nat, b \in Nat \ {0}, l \in Nat :
        /\ z = Len(f) /\ y = Len(f \o more) /\ b = e.start /\ l = Len(e.payload)
  <2>1. Len(f) \in Nat /\ Len(f \o more) \in Nat
    BY <1>1
  <2>2. e.start \in Nat \ {0} /\ Len(e.payload) \in Nat
    BY DEF ReadableIn
  <2> QED
    BY <2>1, <2>2
<1>n. z <= y /\ b + HeaderLen + l <= z
  <2>1. z <= y
    BY <1>1, <1>2
  <2> QED
    BY <1>2, <2>1 DEF ReadableIn
<1>3. /\ b + 3 \in 1 .. z /\ b + HeaderLen + l <= y
      /\ \A j \in 1 .. l : b + HeaderLen + j - 1 \in 1 .. z
  BY <1>n, Lengths
<1>4. (f \o more)[b + 3] = f[b + 3]
  BY <1>1, <1>2, <1>3
<1>5. \A j \in 1 .. l : (f \o more)[b + HeaderLen + j - 1] = f[b + HeaderLen + j - 1]
  BY <1>1, <1>2, <1>3
<1> QED
  BY <1>2, <1>3, <1>4, <1>5 DEF ReadableIn

-----------------------------------------------------------------------------
(* The initial states.                                                     *)

LEMMA InitBlock == Init => BlockInv
<1> SUFFICES ASSUME Init  PROVE BlockInv
  OBVIOUS
<1>1. mem \in Memory /\ mem[1] = 0 /\ mem[1] # Magic
  BY BlockConstants DEF Init, Zeros, Memory
<1>2. <<>> \in Seq(Nat) /\ Len(<<>>) = 0
  OBVIOUS
<1>3. is_crypt_ \in BOOLEAN
  BY BlockConstants DEF Init
<1>4. Plain(is_crypt_, 0) = 0
  BY <1>3, Counts, BlockConstants
<1>5. BlockTypes
  <2>1. job.from = 0 /\ job.out = <<>> /\ job.new = 0
    BY DEF Init, NoJob
  <2>2. log \in Seq(Entries) /\ chunk \in Seq(Nat) /\ file \in Seq(Nat) /\ given \in Seq(Nat)
    BY DEF Init
  <2>3. length \in 0 .. BlockMax /\ remain \in 0 .. Tea - 1 /\ hour \in 0 .. LastHour
    BY BlockConstants DEF Init
  <2>4. at \in Places /\ recovered \in BOOLEAN
    BY DEF Init, Places
  <2>5. job.from \in Nat /\ job.out \in Seq(Nat) /\ job.new \in Nat
    BY <1>2, <2>1
  <2> QED
    BY <1>1, <1>3, <2>2, <2>3, <2>4, <2>5 DEF BlockTypes, Memory
<1>6. SizeInv
  BY <1>1 DEF Init, SizeInv
<1>7. JobInv
  BY <1>2, <1>4 DEF Init, JobInv
<1>8. CellsInv /\ ChunkInv
  BY <1>1 DEF Init, CellsInv, ChunkInv
<1>9. FileInv
  BY DEF Init, FileInv
<1> QED
  BY <1>5, <1>6, <1>7, <1>8, <1>9 DEF BlockInv

-----------------------------------------------------------------------------
(* The stores of a write.                                                  *)

\* What a cell of the mapping is depends on nothing but the payload's first
\* cells.
LEMMA SoundInMemory ==
  ASSUME NEW c, NEW m, NEW k, NEW g, NEW n \in Nat, Sound(c, m, g, n),
         \A j \in 1 .. n : k[HeaderLen + j] = m[HeaderLen + j]
  PROVE  Sound(c, k, g, n)
BY DEF Sound

LEMMA CompressStep == BlockInv /\ WriteCompress => BlockInv'
<1> SUFFICES ASSUME BlockInv, WriteCompress  PROVE BlockInv'
  OBVIOUS
<1>1. PICK data \in Payloads :
        LET used == IF length = 0 THEN HeaderLen ELSE length
            base == IF length = 0 THEN Put(Zeros, 1, Header(0)) ELSE mem
            n    == Min({Len(data), Room(used)})
            out  == SubSeq(data, 1, n)
        IN
        /\ at = "idle"
        /\ length' = used
        /\ mem' = Put(base, used + 1, out)
        /\ IF n = 0 THEN UNCHANGED <<at, job>>
           ELSE /\ at' = "crypt"
                /\ job' = [from |-> used - remain + 1, new |-> n,
                           out |-> SubSeq(mem, used - remain + 1, used) \o out]
        /\ UNCHANGED <<is_crypt_, remain, chunk, file, hour, given, recovered, log>>
  BY DEF WriteCompress
<1> DEFINE used == IF length = 0 THEN HeaderLen ELSE length
           base == IF length = 0 THEN Put(Zeros, 1, Header(0)) ELSE mem
           n    == Min({Len(data), Room(used)})
           out  == SubSeq(data, 1, n)
           keep == SubSeq(mem, used - remain + 1, used)
<1>2. /\ length = 0 => used = HeaderLen /\ base = Put(Zeros, 1, Header(0))
      /\ length # 0 => used = length /\ base = mem
  OBVIOUS
<1>3. /\ at = "idle" /\ length' = used /\ mem' = Put(base, used + 1, out)
      /\ n = 0 => at' = "idle" /\ job' = job
      /\ n # 0 => /\ at' = "crypt"
                  /\ job' = [from |-> used - remain + 1, new |-> n, out |-> keep \o out]
  BY <1>1
<1>4. n = Min({Len(data), Room(used)}) /\ out = SubSeq(data, 1, n)
  OBVIOUS
<1>5. keep = SubSeq(mem, used - remain + 1, used)
  OBVIOUS
<1> HIDE DEF used, base, n, out, keep
<1>6. /\ is_crypt_' = is_crypt_ /\ given' = given /\ recovered' = recovered /\ log' = log
      /\ file' = file /\ chunk' = chunk /\ hour' = hour /\ remain' = remain
  BY <1>1
<1>7. /\ is_crypt_ \in BOOLEAN /\ mem \in Memory /\ remain \in 0 .. Tea - 1
      /\ hour \in Nat /\ given \in Seq(Nat)
      /\ job.from \in Nat /\ job.out \in Seq(Nat) /\ job.new \in Nat
  BY BlockConstants DEF BlockInv, BlockTypes, Memory
<1>len. PICK L \in Nat : L = Len(given)
  BY <1>7
<1>rem. remain = Plain(is_crypt_, L) /\ ~recovered
  BY <1>3, <1>len DEF BlockInv, JobInv
<1>8. /\ remain \in Nat /\ remain <= L
      /\ Enciphered(is_crypt_, L) \in Nat /\ Enciphered(is_crypt_, L) <= L - remain
  <2>1. /\ Plain(is_crypt_, L) \in 0 .. Tea - 1 /\ Plain(is_crypt_, L) <= L
        /\ Enciphered(is_crypt_, L) \in 0 .. L
        /\ Kept(is_crypt_, L) = L - Plain(is_crypt_, L)
        /\ Enciphered(is_crypt_, L) <= Kept(is_crypt_, L)
    BY <1>7, Counts
  <2>2. Tea \in Nat
    BY BlockConstants
  <2> QED
    BY <1>rem, <2>1, <2>2
<1>9. /\ used = HeaderLen + L /\ used + TailerLen <= BlockMax
      /\ base \in Memory /\ base[1] = Magic /\ base[4] = L
      /\ Sound(is_crypt_, base, given, L)
      /\ keep \in Seq(Nat) /\ Len(keep) = remain
      /\ \A i \in 1 .. remain : keep[i] = given[L - remain + i]
  <2>1. CASE length = 0
    <3>1. given = <<>> /\ L = 0 /\ remain = 0
      <4>1. given = <<>>
        BY <1>3, <2>1 DEF BlockInv, SizeInv
      <4>2. L = 0
        BY <1>len, <4>1
      <4> QED
        BY <1>8, <4>1, <4>2
    <3>2. Header(0) \in Seq(Nat) /\ Len(Header(0)) = 4 /\ Header(0)[1] = Magic /\ Header(0)[4] = 0
      BY <1>7, HeaderCells
    <3>3. base \in Memory /\ base[1] = Magic /\ base[4] = 0
      <4>1. Zeros \in Memory
        BY DEF Zeros, Memory
      <4>2. Stored(base, Zeros, 1, Header(0))
        BY <1>2, <2>1, <3>2, <4>1, PutStores
      <4> QED
        BY <3>2, <4>2, Lengths DEF Stored
    <3>4. used = 4 /\ keep = SubSeq(mem, 5, 4)
      BY <1>2, <1>5, <2>1, <3>1, Lengths
    <3>5. SubSeq(mem, 5, 4) = <<>>
      BY SubSeqProperties
    <3>6. keep \in Seq(Nat) /\ Len(keep) = 0
      BY <3>4, <3>5
    <3> QED
      BY <3>1, <3>3, <3>4, <3>6, Lengths DEF Sound
  <2>2. CASE length # 0
    <3>1. /\ mem[1] = Magic /\ length = HeaderLen + L /\ mem[4] = L
          /\ HeaderLen + L + TailerLen <= BlockMax
      BY <1>3, <1>len, <2>2 DEF BlockInv, SizeInv
    <3>2. Sound(is_crypt_, mem, given, L)
      BY <1>3, <1>len, <3>1 DEF BlockInv, CellsInv
    <3>3. used = HeaderLen + L /\ base = mem
      BY <1>2, <2>2, <3>1
    <3>4. PICK m \in Nat \ {0} : m = used - remain + 1
      BY <1>8, <3>3, Lengths
    <3>5. /\ used \in Nat /\ m <= used + 1 /\ used - m + 1 = remain
          /\ \A i \in m .. used : i \in 1 .. BlockMax
      BY <1>8, <3>1, <3>3, <3>4, Lengths
    <3>n. \A i \in m .. used : mem[i] \in Nat
      BY <1>7, <3>5 DEF Memory
    <3>6. /\ keep \in Seq(Nat) /\ Len(keep) = remain
          /\ \A i \in 1 .. remain : keep[i] = mem[m + i - 1]
      <4>1. keep = SubSeq(mem, m, used)
        BY <1>5, <3>4
      <4> QED
        BY <3>5, <3>n, <4>1, Slice
    <3>7. ASSUME NEW i \in 1 .. remain
          PROVE  keep[i] = given[L - remain + i]
      <4>1. PICK j \in 1 .. L : j = L - remain + i
        BY <1>8
      <4>2. m + i - 1 = HeaderLen + j
        BY <1>8, <3>3, <3>4, <4>1, Lengths
      <4>3. keep[i] = mem[HeaderLen + j]
        BY <3>6, <4>2
      <4>4. mem[HeaderLen + j] = CellOf(is_crypt_, given, j)
        BY <3>2 DEF Sound
      <4>5. ~(j <= Enciphered(is_crypt_, L))
        BY <1>8, <4>1
      <4> QED
        BY <1>len, <4>1, <4>3, <4>4, <4>5 DEF CellOf
    <3> QED
      BY <1>7, <3>1, <3>2, <3>3, <3>6, <3>7
  <2> QED
    BY <2>1, <2>2
<1>u. used \in Nat /\ used + TailerLen <= BlockMax /\ used = HeaderLen + L
  BY <1>9, Lengths
<1>10. /\ n \in Nat /\ used + n + TailerLen <= BlockMax
       /\ out \in Seq(Nat) /\ Len(out) = n
  <2>1. data \in Seq(Nat) /\ Len(data) \in Nat
    BY PayloadCells
  <2>2. PICK room \in Nat : room = Room(used) /\ room = BlockMax - used - TailerLen
    BY <1>u, Lengths DEF Room
  <2>3. n \in Nat /\ n <= Len(data) /\ n <= room
    BY <1>4, <2>1, <2>2, MinOfTwo
  <2>4. \A i \in 1 .. n : data[i] \in Nat
    BY <2>1, <2>3
  <2>5. out \in Seq(Nat) /\ Len(out) = n
    BY <1>4, <2>3, <2>4, Prefix
  <2> QED
    BY <1>u, <2>2, <2>3, <2>5, Lengths
<1>11. /\ mem' \in Memory /\ mem'[1] = Magic /\ mem'[4] = L
       /\ Sound(is_crypt_, mem', given, L)
       /\ length' = HeaderLen + L
  <2>1. used + 1 \in Nat /\ used < BlockMax
    BY <1>u, Lengths
  <2>2. Stored(mem', base, used + 1, out)
    BY <1>3, <1>9, <1>10, <2>1, PutStores
  <2>3. ASSUME NEW i \in 1 .. used
        PROVE  mem'[i] = base[i]
    <3>1. i \in 1 .. BlockMax /\ i < used + 1
      BY <1>u, <2>1, Lengths
    <3> QED
      BY <2>2, <3>1 DEF Stored
  <2>4. \A j \in 1 .. L : mem'[HeaderLen + j] = base[HeaderLen + j]
    <3>1. \A j \in 1 .. L : HeaderLen + j \in 1 .. used
      BY <1>u, Lengths
    <3> QED
      BY <2>3, <3>1
  <2>5. mem'[1] = base[1] /\ mem'[4] = base[4]
    <3>1. 1 \in 1 .. used /\ 4 \in 1 .. used
      BY <1>u, Lengths
    <3> QED
      BY <2>3, <3>1
  <2>6. mem' \in Memory
    BY <2>2 DEF Stored
  <2>7. Sound(is_crypt_, mem', given, L)
    BY <1>7, <1>9, <2>4, SoundInMemory
  <2> QED
    BY <1>3, <1>9, <2>5, <2>6, <2>7
<1>12. Sound(is_crypt_, mem', given, Kept(is_crypt_, L))
  <2>1. Kept(is_crypt_, L) \in 0 .. L
    BY <1>7, Counts
  <2> QED
    BY <1>7, <1>11, <2>1 DEF Sound
<1>13. /\ at' \in {"idle", "crypt"}
       /\ job'.from \in Nat /\ job'.out \in Seq(Nat) /\ job'.new \in Nat
  <2>1. CASE n = 0
    BY <1>3, <1>7, <2>1
  <2>2. CASE n # 0
    <3>1. used - remain + 1 \in Nat
      BY <1>u, <1>8, Lengths
    <3>n. keep \o out \in Seq(Nat)
      BY <1>9, <1>10
    <3>2. job'.from = used - remain + 1 /\ job'.out = keep \o out /\ job'.new = n
      BY <1>3, <2>2
    <3> QED
      BY <1>3, <1>10, <2>2, <3>1, <3>n, <3>2
  <2> QED
    BY <2>1, <2>2
<1>14. BlockTypes'
  <2>1. length' \in 0 .. BlockMax
    BY <1>u, <1>11, Lengths
  <2>2. at' \in Places
    BY <1>13 DEF Places
  <2> QED
    BY <1>6, <1>11, <1>13, <2>1, <2>2 DEF BlockInv, BlockTypes, Memory
<1>15. SizeInv'
  <2>1. length' # 0 /\ HeaderLen + L + TailerLen <= BlockMax
    BY <1>u, <1>11, Lengths
  <2> QED
    BY <1>6, <1>11, <1>len, <2>1 DEF SizeInv
<1>16. JobInv'
  <2>1. remain' = Plain(is_crypt_', Len(given')) /\ ~recovered'
    BY <1>6, <1>len, <1>rem
  <2>2. at' # "len"
    BY <1>13
  <2>3. ASSUME at' = "crypt"
        PROVE  /\ job'.from = length' - remain' + 1
               /\ Len(job'.out) = remain' + job'.new
               /\ length' + job'.new + TailerLen <= BlockMax
               /\ \A i \in 1 .. remain' : job'.out[i] = given'[Len(given') - remain' + i]
    <3>1. n # 0
      BY <1>3, <2>3
    <3>2. job'.from = used - remain + 1 /\ job'.new = n /\ job'.out = keep \o out
      BY <1>3, <3>1
    <3>3. /\ Len(keep \o out) = remain + n
          /\ \A i \in 1 .. remain : (keep \o out)[i] = keep[i]
      <4>1. keep \in Seq(Nat) /\ out \in Seq(Nat) /\ Len(keep) = remain /\ Len(out) = n
        BY <1>9, <1>10
      <4>2. /\ Len(keep \o out) = Len(keep) + Len(out)
            /\ \A i \in 1 .. Len(keep) : (keep \o out)[i] = keep[i]
        BY <4>1, Joined
      <4> QED
        BY <4>1, <4>2
    <3>4. /\ job'.from = length' - remain' + 1
          /\ length' + job'.new + TailerLen <= BlockMax
      <4>1. length' = used /\ remain' = remain
        BY <1>3, <1>6
      <4>2. used + n + TailerLen <= BlockMax
        BY <1>9, <1>10
      <4> QED
        BY <3>2, <4>1, <4>2
    <3>5. Len(job'.out) = remain' + job'.new
      BY <1>6, <3>2, <3>3
    <3>6. ASSUME NEW i \in 1 .. remain'
          PROVE  job'.out[i] = given'[Len(given') - remain' + i]
      <4>1. remain' = remain /\ given' = given
        BY <1>6
      <4>2. job'.out[i] = keep[i]
        BY <3>2, <3>3, <4>1
      <4>3. keep[i] = given[L - remain + i]
        BY <1>9, <4>1
      <4> QED
        BY <1>len, <4>1, <4>2, <4>3
    <3> QED
      BY <3>4, <3>5, <3>6
  <2> QED
    BY <1>13, <2>1, <2>2, <2>3 DEF JobInv
<1>17. CellsInv'
  BY <1>6, <1>11, <1>12, <1>len DEF CellsInv, Sound, CellOf
<1>18. ChunkInv'
  BY <1>13 DEF ChunkInv
<1>19. FileInv'
  BY <1>6 DEF BlockInv, FileInv, ReadableIn
<1> QED
  BY <1>14, <1>15, <1>16, <1>17, <1>18, <1>19 DEF BlockInv

LEMMA CryptStep == BlockInv /\ WriteCrypt => BlockInv'
<1> SUFFICES ASSUME BlockInv, WriteCrypt  PROVE BlockInv'
  OBVIOUS
<1>1. PICK n \in 1 .. Len(job.out) :
        /\ mem' = Put(mem, job.from, SubSeq(Encrypted(job.out), 1, n))
        /\ at' = IF n = Len(job.out) THEN "len" ELSE "dying"
  BY DEF WriteCrypt
<1>2. /\ at = "crypt"
      /\ is_crypt_' = is_crypt_ /\ given' = given /\ recovered' = recovered /\ log' = log
      /\ file' = file /\ chunk' = chunk /\ hour' = hour /\ remain' = remain
      /\ length' = length /\ job' = job
  BY DEF WriteCrypt
<1>3. /\ is_crypt_ \in BOOLEAN /\ mem \in Memory /\ given \in Seq(Nat)
      /\ job.from \in Nat /\ job.out \in Seq(Nat) /\ job.new \in Nat /\ remain \in Nat
  BY BlockConstants DEF BlockInv, BlockTypes, Memory
<1>4. PICK L \in Nat, N \in Nat, K \in Nat :
        L = Len(given) /\ N = Len(job.out) /\ K = Kept(is_crypt_, L)
  <2>0. Len(given) \in Nat /\ Len(job.out) \in Nat
    BY <1>3
  <2>1. Kept(is_crypt_, Len(given)) \in Nat
    <3>1. Kept(is_crypt_, Len(given)) \in 0 .. Len(given)
      BY <1>3, <2>0, Counts
    <3> QED
      BY <2>0, <3>1
  <2> QED
    BY <2>0, <2>1
<1>5. /\ mem[1] = Magic /\ mem[4] = L /\ length = HeaderLen + L
      /\ HeaderLen + L + TailerLen <= BlockMax
  BY <1>2, <1>4 DEF BlockInv, SizeInv
<1>6. /\ job.from = length - remain + 1 /\ N = remain + job.new
      /\ length + job.new + TailerLen <= BlockMax
      /\ remain = Plain(is_crypt_, L) /\ ~recovered
  BY <1>2, <1>4 DEF BlockInv, JobInv
<1>7. K = L - remain
  BY <1>3, <1>4, <1>6, Counts
<1>8. /\ job.from = HeaderLen + K + 1 /\ HeaderLen + K + N <= BlockMax
      /\ HeaderLen + K <= BlockMax
  <2>1. PICK w \in Nat : w = job.new
    BY <1>3
  <2>2. remain \in Nat
    BY <1>3
  <2>3. N = remain + w
    BY <1>6, <2>1
  <2>5. job.from = HeaderLen + L - remain + 1
    <3>1. job.from = length - remain + 1
      BY <1>6
    <3>2. length = HeaderLen + L
      BY <1>5
    <3> QED
      BY <2>2, <3>1, <3>2, Lengths
  <2>4. HeaderLen + L + w + TailerLen <= BlockMax
    BY <1>5, <1>6, <2>1
  <2> QED
    BY <1>7, <2>2, <2>3, <2>4, <2>5, Lengths
<1>9. PICK cells \in Seq(Nat) :
        /\ cells = SubSeq(Encrypted(job.out), 1, n) /\ Len(cells) = n
        /\ \A i \in 1 .. n : cells[i] = Encrypted(job.out)[i]
  <2>1. Encrypted(job.out) \in Seq(Nat) /\ Len(Encrypted(job.out)) = N
    BY <1>3, <1>4, EncryptedCells
  <2>2. n \in Nat /\ \A i \in 1 .. n : i \in 1 .. N
    BY <1>4
  <2>3. \A i \in 1 .. n : Encrypted(job.out)[i] \in Nat
    BY <2>1, <2>2
  <2> QED
    BY <2>2, <2>3, Prefix
<1>10. Stored(mem', mem, job.from, cells)
  BY <1>1, <1>3, <1>9, PutStores
<1>11. ASSUME NEW i \in 1 .. HeaderLen + K
       PROVE  mem'[i] = mem[i]
  <2>1. i \in 1 .. BlockMax /\ i < job.from
    BY <1>8, Lengths
  <2> QED
    BY <1>10, <2>1 DEF Stored
<1>12. mem' \in Memory /\ mem'[1] = Magic /\ mem'[4] = L
  <2>1. 1 \in 1 .. HeaderLen + K /\ 4 \in 1 .. HeaderLen + K
    BY Lengths
  <2>2. mem' \in Memory
    BY <1>10 DEF Stored
  <2> QED
    BY <1>5, <1>11, <2>1, <2>2
<1>13. Sound(is_crypt_, mem', given, K)
  <2>1. Sound(is_crypt_, mem, given, K)
    BY <1>4, <1>5 DEF BlockInv, CellsInv
  <2>2. \A j \in 1 .. K : HeaderLen + j \in 1 .. HeaderLen + K
    BY Lengths
  <2>3. \A j \in 1 .. K : mem'[HeaderLen + j] = mem[HeaderLen + j]
    BY <1>11, <2>2
  <2> QED
    BY <2>1, <2>3, SoundInMemory
<1>14. at' \in {"len", "dying"}
  BY <1>1
<1>15. BlockTypes'
  <2>1. at' \in Places
    BY <1>14 DEF Places
  <2> QED
    BY <1>2, <1>12, <2>1 DEF BlockInv, BlockTypes, Memory
<1>16. SizeInv'
  <2>1. length # 0
    BY <1>5, Lengths
  <2> QED
    BY <1>2, <1>4, <1>5, <1>12, <2>1 DEF SizeInv
<1>17. JobInv'
  <2>1. ASSUME at' = "len", NEW i \in 1 .. Len(job'.out)
        PROVE  mem'[job'.from + i - 1] =
                 IF i <= Enciphered(is_crypt_', Len(job'.out)) THEN job'.out[i] + Cipher
                 ELSE job'.out[i]
    <3>1. n = N /\ i \in 1 .. N
      BY <1>1, <1>2, <1>4, <2>1
    <3>2. job.from + i - 1 \in 1 .. BlockMax
      BY <1>8, <3>1, Lengths
    <3>3. mem'[job.from + i - 1] = cells[i]
      BY <1>9, <1>10, <3>1, <3>2 DEF Stored
    <3>4. cells[i] = Encrypted(job.out)[i]
      BY <1>9, <3>1
    <3>5. Encrypted(job.out)[i] =
            IF i <= Enciphered(is_crypt_, N) THEN job.out[i] + Cipher ELSE job.out[i]
      BY <1>3, <1>4, <3>1, EncryptedCells
    <3> QED
      BY <1>2, <1>4, <3>3, <3>4, <3>5
  <2>2. /\ remain' = Plain(is_crypt_', Len(given')) /\ ~recovered'
        /\ job'.from = length' - remain' + 1
        /\ Len(job'.out) = remain' + job'.new
        /\ length' + job'.new + TailerLen <= BlockMax
    BY <1>2, <1>4, <1>6
  <2>3. \A i \in 1 .. remain : job.out[i] = given[Len(given) - remain + i]
    BY <1>2 DEF BlockInv, JobInv
  <2>4. \A i \in 1 .. remain' : job'.out[i] = given'[Len(given') - remain' + i]
    BY <1>2, <2>3
  <2> QED
    BY <1>14, <2>1, <2>2, <2>4 DEF JobInv
<1>18. CellsInv'
  BY <1>2, <1>4, <1>13, <1>14 DEF CellsInv, Sound, CellOf
<1>19. ChunkInv'
  BY <1>14 DEF ChunkInv
<1>20. FileInv'
  BY <1>2 DEF BlockInv, FileInv, ReadableIn
<1> QED
  BY <1>15, <1>16, <1>17, <1>18, <1>19, <1>20 DEF BlockInv

LEMMA LenStep == BlockInv /\ WriteLen => BlockInv'
<1> SUFFICES ASSUME BlockInv, WriteLen  PROVE BlockInv'
  OBVIOUS
<1>1. /\ at = "len" /\ at' = "idle"
      /\ mem' = [mem EXCEPT ![4] = @ + job.new]
      /\ length' = length + job.new
      /\ remain' = Rest(Len(job.out))
      /\ given' = given \o SubSeq(job.out, Len(job.out) - job.new + 1, Len(job.out))
      /\ job' = NoJob
      /\ is_crypt_' = is_crypt_ /\ recovered' = recovered /\ log' = log
      /\ file' = file /\ chunk' = chunk /\ hour' = hour
  BY DEF WriteLen
<1>2. /\ is_crypt_ \in BOOLEAN /\ mem \in Memory /\ given \in Seq(Nat)
      /\ job.out \in Seq(Nat) /\ job.new \in Nat /\ remain \in Nat
  BY BlockConstants DEF BlockInv, BlockTypes, Memory
<1>3. PICK L \in Nat, N \in Nat, w \in Nat :
        L = Len(given) /\ N = Len(job.out) /\ w = job.new
  BY <1>2
<1>4. /\ mem[1] = Magic /\ mem[4] = L /\ length = HeaderLen + L
  BY <1>1, <1>3 DEF BlockInv, SizeInv
<1>5. /\ job.from = length - remain + 1 /\ N = remain + w
      /\ length + w + TailerLen <= BlockMax
      /\ remain = Plain(is_crypt_, L) /\ ~recovered
      /\ \A i \in 1 .. remain : job.out[i] = given[L - remain + i]
  BY <1>1, <1>3 DEF BlockInv, JobInv
<1>6. PICK K \in 0 .. L :
        K = Kept(is_crypt_, L) /\ K = L - remain /\ Enciphered(is_crypt_, L) <= K
  <2>1. Kept(is_crypt_, L) \in 0 .. L
    BY <1>2, Counts
  <2>2. Kept(is_crypt_, L) = L - remain /\ Enciphered(is_crypt_, L) <= Kept(is_crypt_, L)
    BY <1>2, <1>5, Counts
  <2> QED
    BY <2>1, <2>2
<1>n. remain \in Nat
  BY <1>2
<1>7. remain <= L /\ remain = L - K /\ N - w = remain
  BY <1>n, <1>5, <1>6
<1>new. length' = HeaderLen + (L + w) /\ HeaderLen + (L + w) + TailerLen <= BlockMax
  <2>1. length' = HeaderLen + L + w
    BY <1>1, <1>3, <1>4
  <2>2. HeaderLen + L + w + TailerLen <= BlockMax
    BY <1>4, <1>5
  <2> QED
    BY <2>1, <2>2, Lengths
\* The new cells.
<1>8. PICK fresh \in Seq(Nat) :
        /\ fresh = SubSeq(job.out, Len(job.out) - job.new + 1, Len(job.out))
        /\ Len(fresh) = w
        /\ \A i \in 1 .. w : fresh[i] = job.out[remain + i]
  <2>1. PICK m \in Nat \ {0} : m = N - w + 1 /\ m = remain + 1
    BY <1>n, <1>7
  <2>2. m <= N + 1 /\ N - m + 1 = w /\ \A i \in m .. N : i \in 1 .. N
    BY <1>n, <1>7, <2>1
  <2>k. \A i \in 1 .. N : job.out[i] \in Nat
    BY <1>2, <1>3
  <2>3. \A i \in m .. N : job.out[i] \in Nat
    BY <2>k, <2>2
  <2>4. /\ SubSeq(job.out, m, N) \in Seq(Nat) /\ Len(SubSeq(job.out, m, N)) = w
        /\ \A i \in 1 .. w : SubSeq(job.out, m, N)[i] = job.out[m + i - 1]
    BY <2>2, <2>3, Slice
  <2>5. \A i \in 1 .. w : m + i - 1 = remain + i
    BY <2>1, <1>n
  <2> QED
    BY <1>3, <2>1, <2>4, <2>5
<1>9. /\ given' \in Seq(Nat) /\ Len(given') = L + w
      /\ \A i \in 1 .. L : given'[i] = given[i]
      /\ \A i \in 1 .. w : given'[L + i] = fresh[i]
  <2>1. given' = given \o fresh
    BY <1>1, <1>8
  <2>2. /\ given \o fresh \in Seq(Nat) /\ Len(given \o fresh) = Len(given) + Len(fresh)
        /\ \A i \in 1 .. Len(given) : (given \o fresh)[i] = given[i]
        /\ \A i \in 1 .. Len(fresh) : (given \o fresh)[Len(given) + i] = fresh[i]
    BY <1>2, Joined
  <2> QED
    BY <1>3, <1>8, <2>1, <2>2
<1>10. \A i \in 1 .. N : job.out[i] = given'[K + i]
  <2> TAKE i \in 1 .. N
  <2>1. CASE i <= remain
    <3>1. i \in 1 .. remain /\ L - remain + i = K + i /\ K + i \in 1 .. L
      BY <1>2, <1>6, <1>7, <2>1
    <3> QED
      BY <1>5, <1>9, <3>1
  <2>2. CASE ~(i <= remain)
    <3>1. PICK j \in 1 .. w : j = i - remain
      BY <1>2, <1>7, <2>2
    <3>2. remain + j = i /\ L + j = K + i
      BY <1>2, <1>7, <3>1
    <3> QED
      BY <1>8, <1>9, <3>2
  <2> QED
    BY <2>1, <2>2
<1>11. /\ mem' \in Memory /\ mem'[1] = Magic /\ mem'[4] = L + w
       /\ \A j \in 1 .. L + w : mem'[HeaderLen + j] = mem[HeaderLen + j]
  <2>1. mem[4] + job.new \in Nat /\ mem[4] + job.new = L + w
    BY <1>3, <1>4
  <2>2. 1 \in 1 .. BlockMax /\ 4 \in 1 .. BlockMax
    BY Lengths
  <2>3. mem' \in Memory
    BY <1>1, <1>2, <2>1 DEF Memory
  <2>4. mem'[4] = L + w /\ mem'[1] = mem[1]
    BY <1>1, <1>2, <2>1, <2>2 DEF Memory
  <2>5. ASSUME NEW j \in 1 .. L + w
        PROVE  mem'[HeaderLen + j] = mem[HeaderLen + j]
    <3>1. HeaderLen + j \in 1 .. BlockMax /\ HeaderLen + j # 4
      BY <1>4, <1>5, Lengths
    <3> QED
      BY <1>1, <1>2, <3>1 DEF Memory
  <2> QED
    BY <1>4, <2>3, <2>4, <2>5
<1>12. /\ remain' = Plain(is_crypt_, L + w)
       /\ K <= Kept(is_crypt_, L + w)
       /\ is_crypt_ => /\ Enciphered(is_crypt_, L + w) = K + Enciphered(is_crypt_, N)
                       /\ Enciphered(is_crypt_, L) = K
       /\ ~is_crypt_ => /\ Enciphered(is_crypt_, L + w) = 0 /\ Enciphered(is_crypt_, N) = 0
                        /\ Enciphered(is_crypt_, L) = 0
  <2>1. remain' = Plain(is_crypt_, N)
    BY <1>1, <1>3, CodeCounts
  <2>2. Plain(is_crypt_, L + w) = Plain(is_crypt_, Plain(is_crypt_, L) + w)
    BY <1>2, RestOfRest
  <2>3. /\ Kept(is_crypt_, L) <= Kept(is_crypt_, L + w)
        /\ is_crypt_ => Enciphered(is_crypt_, L + w) =
                          Kept(is_crypt_, L) + Enciphered(is_crypt_, Plain(is_crypt_, L) + w)
    BY <1>2, CountsAdd
  <2>4. is_crypt_ => Enciphered(is_crypt_, L) = Kept(is_crypt_, L)
    BY DEF Enciphered
  <2>5. ~is_crypt_ => /\ Enciphered(is_crypt_, L + w) = 0 /\ Enciphered(is_crypt_, N) = 0
                      /\ Enciphered(is_crypt_, L) = 0
    BY DEF Enciphered
  <2>6. Plain(is_crypt_, L) + w = N
    BY <1>5
  <2> QED
    BY <1>6, <2>1, <2>2, <2>3, <2>4, <2>5, <2>6
<1>13. Sound(is_crypt_, mem', given', L + w)
  <2> SUFFICES ASSUME NEW j \in 1 .. L + w
               PROVE  mem[HeaderLen + j] = CellOf(is_crypt_, given', j)
    BY <1>11 DEF Sound
  <2>1. CellOf(is_crypt_, given', j) =
          IF j <= Enciphered(is_crypt_, L + w) THEN given'[j] + Cipher ELSE given'[j]
    BY <1>9 DEF CellOf
  <2>2. CASE j <= K
    <3>1. j \in 1 .. K /\ j \in 1 .. L
      BY <1>6, <2>2
    <3>2. Sound(is_crypt_, mem, given, K)
      BY <1>3, <1>4, <1>6 DEF BlockInv, CellsInv
    <3>3. mem[HeaderLen + j] =
            IF j <= Enciphered(is_crypt_, L) THEN given[j] + Cipher ELSE given[j]
      BY <1>3, <3>1, <3>2 DEF Sound, CellOf
    <3>4. given'[j] = given[j]
      BY <1>9, <3>1
    <3>5. CASE is_crypt_
      <4>1. Enciphered(is_crypt_, N) \in Nat
        BY <1>2, NatCounts
      <4>2. j <= Enciphered(is_crypt_, L) /\ j <= Enciphered(is_crypt_, L + w)
        <5>1. Enciphered(is_crypt_, L) = K /\ Enciphered(is_crypt_, L + w) = K + Enciphered(is_crypt_, N)
          BY <1>12, <3>5
        <5> QED
          BY <2>2, <4>1, <5>1
      <4> QED
        BY <2>1, <3>3, <3>4, <4>2
    <3>6. CASE ~is_crypt_
      <4>1. ~(j <= 0)
        OBVIOUS
      <4> QED
        BY <1>12, <2>1, <3>3, <3>4, <3>6, <4>1
    <3> QED
      BY <3>5, <3>6
  <2>3. CASE ~(j <= K)
    <3>1. PICK i \in 1 .. N : j = K + i
      <4>1. j - K \in 1 .. N /\ j = K + (j - K)
        BY <1>2, <1>6, <1>7, <2>3
      <4> QED
        BY <4>1
    <3>2. \A k \in 1 .. Len(job.out) :
            mem[job.from + k - 1] =
              IF k <= Enciphered(is_crypt_, Len(job.out)) THEN job.out[k] + Cipher ELSE job.out[k]
      BY <1>1 DEF BlockInv, JobInv
    <3>3. mem[job.from + i - 1] =
            IF i <= Enciphered(is_crypt_, N) THEN job.out[i] + Cipher ELSE job.out[i]
      BY <1>3, <3>2
    <3>4. job.from + i - 1 = HeaderLen + j
      BY <1>2, <1>4, <1>5, <1>7, <3>1, Lengths
    <3>5. mem[HeaderLen + j] =
            IF i <= Enciphered(is_crypt_, N) THEN given'[j] + Cipher ELSE given'[j]
      BY <1>10, <3>1, <3>3, <3>4
    <3>6. CASE is_crypt_
      <4>1. Enciphered(is_crypt_, N) \in Nat
        BY <1>2, NatCounts
      <4>2. j <= Enciphered(is_crypt_, L + w) <=> i <= Enciphered(is_crypt_, N)
        <5>1. Enciphered(is_crypt_, L + w) = K + Enciphered(is_crypt_, N)
          BY <1>12, <3>6
        <5> QED
          BY <3>1, <4>1, <5>1
      <4> QED
        BY <2>1, <3>5, <4>2
    <3>7. CASE ~is_crypt_
      <4>1. ~(j <= 0) /\ ~(i <= 0)
        OBVIOUS
      <4> QED
        BY <1>12, <2>1, <3>5, <3>7, <4>1
    <3> QED
      BY <3>6, <3>7
  <2> QED
    BY <2>2, <2>3
<1>14. Sound(is_crypt_, mem', given', Kept(is_crypt_, L + w))
  <2>1. Kept(is_crypt_, L + w) \in 0 .. L + w
    <3>1. L + w \in Nat
      OBVIOUS
    <3> QED
      BY <1>2, <3>1, Counts
  <2>2. \A j \in 1 .. Kept(is_crypt_, L + w) : j \in 1 .. L + w
    BY <2>1
  <2> QED
    BY <1>13, <2>2 DEF Sound
<1>15. BlockTypes'
  <2>1. job'.from = 0 /\ job'.out = <<>> /\ job'.new = 0
    BY <1>1 DEF NoJob
  <2>2. length' \in 0 .. BlockMax
    BY <1>new, Lengths
  <2>3. remain' \in 0 .. Tea - 1
    <3>1. L + w \in Nat
      OBVIOUS
    <3> QED
      BY <1>2, <1>12, <3>1, Counts
  <2>4. job'.from \in Nat /\ job'.out \in Seq(Nat) /\ job'.new \in Nat
    BY <2>1
  <2>5. at' \in Places
    BY <1>1 DEF Places
  <2> QED
    BY <1>1, <1>9, <1>11, <2>2, <2>3, <2>4, <2>5 DEF BlockInv, BlockTypes, Memory
<1>16. SizeInv'
  <2>1. length' = HeaderLen + (L + w) /\ length' # 0 /\ HeaderLen + (L + w) + TailerLen <= BlockMax
    BY <1>new, Lengths
  <2> QED
    BY <1>1, <1>9, <1>11, <2>1 DEF SizeInv
<1>17. JobInv'
  BY <1>1, <1>5, <1>9, <1>12 DEF JobInv
<1>18. CellsInv'
  BY <1>1, <1>9, <1>13, <1>14 DEF CellsInv, Sound, CellOf
<1>19. ChunkInv'
  BY <1>1 DEF ChunkInv
<1>20. FileInv'
  BY <1>1 DEF BlockInv, FileInv, ReadableIn
<1> QED
  BY <1>15, <1>16, <1>17, <1>18, <1>19, <1>20 DEF BlockInv

-----------------------------------------------------------------------------
(* The stores of a flush.                                                  *)

LEMMA ZeroCells == Zeros \in Memory /\ Zeros[1] # Magic
BY BlockConstants, Lengths DEF Zeros, Memory

LEMMA FlushEmptyStep == BlockInv /\ FlushEmpty => BlockInv'
<1> SUFFICES ASSUME BlockInv, FlushEmpty  PROVE BlockInv'
  OBVIOUS
<1>1. /\ mem' = Zeros /\ length' = 0 /\ remain' = 0 /\ given' = <<>> /\ recovered' = FALSE
      /\ at' = "idle"
      /\ is_crypt_' = is_crypt_ /\ job' = job /\ chunk' = chunk /\ file' = file /\ hour' = hour
      /\ log' = log
  BY DEF FlushEmpty
<1>2. is_crypt_ \in BOOLEAN /\ given' \in Seq(Nat) /\ Len(given') = 0
  BY <1>1 DEF BlockInv, BlockTypes
<1>3. remain' = Plain(is_crypt_, 0)
  BY <1>1, <1>2, Counts, BlockConstants
<1>4. BlockTypes'
  <2>1. length' \in 0 .. BlockMax /\ remain' \in 0 .. Tea - 1
    BY <1>1, Lengths, BlockConstants
  <2>2. at' \in Places /\ recovered' \in BOOLEAN
    BY <1>1 DEF Places
  <2>3. mem' \in Memory
    BY <1>1, ZeroCells
  <2> QED
    BY <1>1, <1>2, <2>1, <2>2, <2>3 DEF BlockInv, BlockTypes, Memory
<1>5. mem'[1] # Magic
  BY <1>1, ZeroCells
<1>6. SizeInv'
  BY <1>1, <1>5 DEF SizeInv
<1>7. JobInv'
  BY <1>1, <1>2, <1>3 DEF JobInv
<1>8. CellsInv' /\ ChunkInv'
  BY <1>1, <1>5 DEF CellsInv, ChunkInv
<1>9. FileInv'
  BY <1>1 DEF BlockInv, FileInv, ReadableIn
<1> QED
  BY <1>4, <1>6, <1>7, <1>8, <1>9 DEF BlockInv

LEMMA FlushHourStep == BlockInv /\ FlushHour => BlockInv'
<1> SUFFICES ASSUME BlockInv, FlushHour  PROVE BlockInv'
  OBVIOUS
<1>1. /\ at \in {"idle", "fixed"} /\ StoredLen # 0
      /\ mem' = [mem EXCEPT ![3] = hour]
      /\ at' = "tail" /\ length' = length /\ remain' = remain /\ given' = given
      /\ is_crypt_' = is_crypt_ /\ job' = job /\ chunk' = chunk /\ file' = file /\ hour' = hour
      /\ log' = log /\ recovered' = recovered
  BY DEF FlushHour
<1>2. is_crypt_ \in BOOLEAN /\ mem \in Memory /\ hour \in Nat /\ given \in Seq(Nat)
  BY BlockConstants DEF BlockInv, BlockTypes, Memory
<1>3. PICK L \in Nat : L = Len(given)
  BY <1>2
<1>4. length # 0
  BY <1>1, Lengths DEF StoredLen
<1>5. /\ mem[1] = Magic /\ mem[4] = L /\ length = HeaderLen + L
      /\ HeaderLen + L + TailerLen <= BlockMax
  BY <1>1, <1>3, <1>4 DEF BlockInv, SizeInv
<1>6. /\ mem' \in Memory /\ mem'[1] = Magic /\ mem'[4] = L
      /\ \A j \in 1 .. L : mem'[HeaderLen + j] = mem[HeaderLen + j]
  <2>1. mem' \in Memory
    BY <1>1, <1>2 DEF Memory
  <2>2. 1 \in 1 .. BlockMax /\ 4 \in 1 .. BlockMax /\ 3 \in 1 .. BlockMax
    BY Lengths
  <2>3. mem'[1] = mem[1] /\ mem'[4] = mem[4]
    BY <1>1, <1>2, <2>2 DEF Memory
  <2>4. ASSUME NEW j \in 1 .. L
        PROVE  mem'[HeaderLen + j] = mem[HeaderLen + j]
    <3>1. HeaderLen + j \in 1 .. BlockMax /\ HeaderLen + j # 3
      BY <1>5, Lengths
    <3> QED
      BY <1>1, <1>2, <3>1 DEF Memory
  <2> QED
    BY <1>5, <2>1, <2>3, <2>4
<1>7. /\ Sound(is_crypt_, mem, given, Kept(is_crypt_, L))
      /\ at = "idle" => Sound(is_crypt_, mem, given, L)
  BY <1>1, <1>3, <1>5 DEF BlockInv, CellsInv
<1>8. ~recovered => at = "idle"
  BY <1>1 DEF BlockInv, JobInv
<1>9. ~recovered => Sound(is_crypt_, mem', given, L)
  BY <1>6, <1>7, <1>8, SoundInMemory
<1>10. Sound(is_crypt_, mem', given, Kept(is_crypt_, L))
  <2>1. Kept(is_crypt_, L) \in Nat /\ Kept(is_crypt_, L) \in 0 .. L
    BY <1>2, Counts, NatCounts
  <2>2. \A j \in 1 .. Kept(is_crypt_, L) : j \in 1 .. L
    BY <2>1
  <2> QED
    BY <1>6, <1>7, <2>1, <2>2, SoundInMemory
<1>11. BlockTypes'
  <2>1. at' \in Places
    BY <1>1 DEF Places
  <2> QED
    BY <1>1, <1>6, <2>1 DEF BlockInv, BlockTypes, Memory
<1>12. SizeInv'
  BY <1>1, <1>3, <1>4, <1>5, <1>6 DEF SizeInv
<1>13. JobInv' /\ ChunkInv'
  BY <1>1 DEF JobInv, ChunkInv
<1>14. CellsInv'
  BY <1>1, <1>3, <1>9, <1>10 DEF CellsInv, Sound, CellOf
<1>15. FileInv'
  BY <1>1 DEF BlockInv, FileInv, ReadableIn
<1> QED
  BY <1>11, <1>12, <1>13, <1>14, <1>15 DEF BlockInv

LEMMA FlushTailStep == BlockInv /\ FlushTail => BlockInv'
<1> SUFFICES ASSUME BlockInv, FlushTail  PROVE BlockInv'
  OBVIOUS
<1>1. /\ at = "tail" /\ at' = "clear"
      /\ mem' = Put(mem, length + 1, <<MagicEnd>>)
      /\ length' = length + TailerLen
      /\ chunk' = SubSeq(mem', 1, length')
      /\ remain' = remain /\ given' = given
      /\ is_crypt_' = is_crypt_ /\ job' = job /\ file' = file /\ hour' = hour
      /\ log' = log /\ recovered' = recovered
  BY DEF FlushTail
<1>2. is_crypt_ \in BOOLEAN /\ mem \in Memory /\ given \in Seq(Nat)
  BY DEF BlockInv, BlockTypes, Memory
<1>3. PICK L \in Nat : L = Len(given)
  BY <1>2
<1>4. /\ mem[1] = Magic /\ mem[4] = L /\ length = HeaderLen + L
      /\ HeaderLen + L + TailerLen <= BlockMax
  BY <1>1, <1>3 DEF BlockInv, SizeInv
<1>5. length' = HeaderLen + L + TailerLen /\ length + 1 \in Nat
  BY <1>1, <1>4, Lengths
<1>6. Stored(mem', mem, length + 1, <<MagicEnd>>)
  <2>1. <<MagicEnd>> \in Seq(Nat)
    BY DEF MagicEnd
  <2> QED
    BY <1>1, <1>2, <1>5, <2>1, PutStores
<1>7. ASSUME NEW i \in 1 .. HeaderLen + L
      PROVE  mem'[i] = mem[i]
  <2>1. i \in 1 .. BlockMax /\ i < length + 1
    BY <1>4, Lengths
  <2> QED
    BY <1>6, <2>1 DEF Stored
<1>8. /\ mem' \in Memory /\ mem'[1] = Magic /\ mem'[4] = L
      /\ \A j \in 1 .. L : mem'[HeaderLen + j] = mem[HeaderLen + j]
  <2>1. mem' \in Memory
    BY <1>6 DEF Stored
  <2>2. 1 \in 1 .. HeaderLen + L /\ 4 \in 1 .. HeaderLen + L
    BY Lengths
  <2>3. \A j \in 1 .. L : HeaderLen + j \in 1 .. HeaderLen + L
    BY Lengths
  <2> QED
    BY <1>4, <1>7, <2>1, <2>2, <2>3
<1>9. /\ chunk' \in Seq(Nat) /\ Len(chunk') = HeaderLen + L + TailerLen
      /\ \A i \in 1 .. HeaderLen + L + TailerLen : chunk'[i] = mem'[i]
  <2>1. PICK n \in Nat : n = HeaderLen + L + TailerLen /\ n <= BlockMax
    BY <1>4, Lengths
  <2>2. \A i \in 1 .. n : i \in 1 .. BlockMax
    BY <2>1, Lengths
  <2>3. \A i \in 1 .. n : mem'[i] \in Nat
    BY <1>8, <2>2 DEF Memory
  <2>4. /\ SubSeq(mem', 1, n) \in Seq(Nat) /\ Len(SubSeq(mem', 1, n)) = n
        /\ \A i \in 1 .. n : SubSeq(mem', 1, n)[i] = mem'[i]
    BY <2>3, Prefix
  <2> QED
    BY <1>1, <1>5, <2>1, <2>4
<1>10. chunk'[4] = L /\ \A j \in 1 .. L : chunk'[HeaderLen + j] = mem[HeaderLen + j]
  <2>1. 4 \in 1 .. HeaderLen + L + TailerLen
    BY Lengths
  <2>2. \A j \in 1 .. L : HeaderLen + j \in 1 .. HeaderLen + L + TailerLen
    BY Lengths
  <2> QED
    BY <1>8, <1>9, <2>1, <2>2
<1>11. /\ Sound(is_crypt_, mem, given, Kept(is_crypt_, L))
       /\ ~recovered => Sound(is_crypt_, mem, given, L)
  BY <1>1, <1>3, <1>4 DEF BlockInv, CellsInv
<1>12. /\ Sound(is_crypt_, mem', given, Kept(is_crypt_, L))
       /\ Sound(is_crypt_, chunk', given, Kept(is_crypt_, L))
  <2>1. Kept(is_crypt_, L) \in Nat /\ Kept(is_crypt_, L) \in 0 .. L
    BY <1>2, Counts, NatCounts
  <2>2. \A j \in 1 .. Kept(is_crypt_, L) : j \in 1 .. L
    BY <2>1
  <2> QED
    BY <1>8, <1>10, <1>11, <2>1, <2>2, SoundInMemory
<1>13. ~recovered => Sound(is_crypt_, chunk', given, L)
  BY <1>10, <1>11, SoundInMemory
<1>14. BlockTypes'
  <2>1. at' \in Places
    BY <1>1 DEF Places
  <2>2. length' \in 0 .. BlockMax
    BY <1>4, <1>5, Lengths
  <2> QED
    BY <1>1, <1>8, <1>9, <2>1, <2>2 DEF BlockInv, BlockTypes, Memory
<1>15. SizeInv'
  BY <1>1, <1>3, <1>4, <1>8 DEF SizeInv
<1>16. JobInv'
  BY <1>1 DEF JobInv
<1>17. CellsInv'
  BY <1>1, <1>3, <1>12 DEF CellsInv, Sound, CellOf
<1>18. ChunkInv'
  BY <1>1, <1>3, <1>9, <1>10, <1>12, <1>13 DEF ChunkInv, Sound, CellOf
<1>19. FileInv'
  BY <1>1 DEF BlockInv, FileInv, ReadableIn
<1> QED
  BY <1>14, <1>15, <1>16, <1>17, <1>18, <1>19 DEF BlockInv

LEMMA FlushClearStep == BlockInv /\ FlushClear => BlockInv'
<1> SUFFICES ASSUME BlockInv, FlushClear  PROVE BlockInv'
  OBVIOUS
<1>1. PICK n \in 1 .. BlockMax :
        /\ mem' = Put(mem, 1, SubSeq(Zeros, 1, n))
        /\ at' = IF n = BlockMax THEN "file" ELSE "dying"
  BY DEF FlushClear
<1>2. /\ at = "clear" /\ length' = 0 /\ remain' = 0 /\ given' = given
      /\ is_crypt_' = is_crypt_ /\ job' = job /\ chunk' = chunk /\ file' = file /\ hour' = hour
      /\ log' = log /\ recovered' = recovered
  BY DEF FlushClear
<1>3. mem \in Memory /\ n \in Nat
  BY <1>1, Lengths DEF BlockInv, BlockTypes, Memory
<1>4. /\ SubSeq(Zeros, 1, n) \in Seq(Nat) /\ Len(SubSeq(Zeros, 1, n)) = n
      /\ \A i \in 1 .. n : SubSeq(Zeros, 1, n)[i] = Zeros[i]
  <2>1. \A i \in 1 .. n : i \in 1 .. BlockMax
    BY Lengths
  <2>2. \A i \in 1 .. n : Zeros[i] \in Nat
    BY <2>1 DEF Zeros
  <2> QED
    BY <1>3, <2>2, Prefix
<1>5. Stored(mem', mem, 1, SubSeq(Zeros, 1, n))
  BY <1>1, <1>3, <1>4, PutStores
<1>6. mem' \in Memory /\ mem'[1] # Magic
  <2>1. mem' \in Memory
    BY <1>5 DEF Stored
  <2>2. 1 \in 1 .. n /\ 1 + 1 - 1 = 1 /\ 1 \in 1 .. BlockMax
    BY Lengths
  <2>3. mem'[1] = Zeros[1]
    BY <1>4, <1>5, <2>2 DEF Stored
  <2> QED
    BY <2>1, <2>3, ZeroCells
<1>7. at' \in {"file", "dying"}
  BY <1>1
<1>8. BlockTypes'
  <2>1. at' \in Places
    BY <1>7 DEF Places
  <2>2. length' \in 0 .. BlockMax /\ remain' \in 0 .. Tea - 1
    BY <1>2, Lengths, BlockConstants
  <2> QED
    BY <1>2, <1>6, <2>1, <2>2 DEF BlockInv, BlockTypes, Memory
<1>9. SizeInv' /\ JobInv' /\ CellsInv'
  BY <1>6, <1>7 DEF SizeInv, JobInv, CellsInv
<1>10. ChunkInv'
  BY <1>2, <1>6 DEF BlockInv, ChunkInv, Sound, CellOf
<1>11. FileInv'
  BY <1>2 DEF BlockInv, FileInv, ReadableIn
<1> QED
  BY <1>8, <1>9, <1>10, <1>11 DEF BlockInv

-----------------------------------------------------------------------------
(* The file.                                                               *)

\* Appending to the file and noting nothing, or a torn block, or a block that
\* is readable, keeps FileInv.
LEMMA FileGrows ==
  ASSUME BlockInv, NEW more \in Seq(Nat), NEW e \in Entries,
         e.whole => ReadableIn(is_crypt_, file \o more, e)
  PROVE  /\ file \o more \in Seq(Nat)
         /\ Append(log, e) \in Seq(Entries)
         /\ \A i \in DOMAIN log : log[i].whole => ReadableIn(is_crypt_, file \o more, log[i])
         /\ \A i \in DOMAIN Append(log, e) :
              Append(log, e)[i].whole => ReadableIn(is_crypt_, file \o more, Append(log, e)[i])
<1>1. is_crypt_ \in BOOLEAN /\ file \in Seq(Nat) /\ log \in Seq(Entries)
  BY DEF BlockInv, BlockTypes
<1>2. file \o more \in Seq(Nat)
  BY <1>1, Joined
<1>3. ASSUME NEW i \in DOMAIN log, log[i].whole
      PROVE  ReadableIn(is_crypt_, file \o more, log[i])
  <2>1. ReadableIn(is_crypt_, file, log[i])
    BY <1>3 DEF BlockInv, FileInv
  <2> QED
    BY <1>1, <2>1, ReadableStays
<1>4. /\ Append(log, e) \in Seq(Entries) /\ DOMAIN Append(log, e) = 1 .. Len(log) + 1
      /\ DOMAIN log = 1 .. Len(log) /\ Len(log) \in Nat
      /\ \A i \in 1 .. Len(log) : Append(log, e)[i] = log[i]
      /\ Append(log, e)[Len(log) + 1] = e
  BY <1>1
<1>5. ASSUME NEW i \in DOMAIN Append(log, e), Append(log, e)[i].whole
      PROVE  ReadableIn(is_crypt_, file \o more, Append(log, e)[i])
  <2>1. CASE i \in 1 .. Len(log)
    BY <1>3, <1>4, <1>5, <2>1
  <2>2. CASE i = Len(log) + 1
    BY <1>4, <1>5, <2>2
  <2> QED
    BY <1>4, <2>1, <2>2
<1> QED
  BY <1>2, <1>3, <1>4, <1>5

LEMMA FileWriteStep == BlockInv /\ FileWrite => BlockInv'
<1> SUFFICES ASSUME BlockInv, FileWrite  PROVE BlockInv'
  OBVIOUS
<1>1. /\ at = "file" /\ at' = "idle"
      /\ file' = file \o chunk
      /\ log' = Append(log, Entry(TRUE))
      /\ chunk' = <<>> /\ given' = <<>> /\ recovered' = FALSE
      /\ is_crypt_' = is_crypt_ /\ mem' = mem /\ length' = length /\ remain' = remain
      /\ job' = job /\ hour' = hour
  BY DEF FileWrite, memory
<1>2. /\ is_crypt_ \in BOOLEAN /\ mem \in Memory /\ given \in Seq(Nat) /\ chunk \in Seq(Nat)
      /\ file \in Seq(Nat) /\ recovered \in BOOLEAN
  BY DEF BlockInv, BlockTypes, Memory
<1>3. PICK L \in Nat, z \in Nat : L = Len(given) /\ z = Len(file)
  BY <1>2
<1>4. /\ Len(chunk) = HeaderLen + L + TailerLen /\ chunk[4] = L
      /\ Sound(is_crypt_, chunk, given, Kept(is_crypt_, L))
      /\ ~recovered => Sound(is_crypt_, chunk, given, L)
  BY <1>1, <1>3 DEF BlockInv, ChunkInv
<1>5. /\ Entry(TRUE).start = z + 1 /\ Entry(TRUE).payload = given
      /\ Entry(TRUE).recovered = recovered /\ ~Entry(TRUE).sync /\ Entry(TRUE) \in Entries
  BY <1>2, <1>3 DEF Entry, Entries
<1>6. /\ Len(file \o chunk) = z + Len(chunk)
      /\ \A i \in 1 .. Len(chunk) : (file \o chunk)[z + i] = chunk[i]
  BY <1>2, <1>3, Joined
<1>7. (file \o chunk)[z + 1 + 3] = L
  <2>1. 4 \in 1 .. Len(chunk) /\ z + 4 = z + 1 + 3
    BY <1>4, Lengths
  <2> QED
    BY <1>4, <1>6, <2>1
<1>8. \A j \in 1 .. L : (file \o chunk)[z + 1 + HeaderLen + j - 1] = chunk[HeaderLen + j]
  <2> TAKE j \in 1 .. L
  <2>1. HeaderLen + j \in 1 .. Len(chunk) /\ z + 1 + HeaderLen + j - 1 = z + (HeaderLen + j)
    BY <1>4, Lengths
  <2> QED
    BY <1>6, <2>1
<1>9. ASSUME NEW j \in 1 .. L
      PROVE  \/ chunk[HeaderLen + j] = CellOf(is_crypt_, given, j)
             \/ is_crypt_ /\ recovered /\ j > Enciphered(is_crypt_, L)
  <2>1. Kept(is_crypt_, L) \in Nat /\ Enciphered(is_crypt_, L) \in Nat
    BY <1>2, NatCounts
  <2>3. CASE chunk[HeaderLen + j] = CellOf(is_crypt_, given, j)
    BY <2>3
  <2>4. CASE chunk[HeaderLen + j] # CellOf(is_crypt_, given, j)
    <3>1. recovered
      BY <1>4, <2>4 DEF Sound
    <3>2. ~(j \in 1 .. Kept(is_crypt_, L))
      BY <1>4, <2>4 DEF Sound
    <3>3. j > Kept(is_crypt_, L)
      BY <2>1, <3>2
    <3>4. is_crypt_
      <4>1. ~is_crypt_ => Kept(is_crypt_, L) = L
        BY <1>2, Counts
      <4>2. ~(j > L)
        OBVIOUS
      <4> QED
        BY <3>3, <4>1, <4>2
    <3>5. Enciphered(is_crypt_, L) = Kept(is_crypt_, L)
      BY <3>4 DEF Enciphered
    <3> QED
      BY <3>1, <3>3, <3>4, <3>5
  <2> QED
    BY <2>3, <2>4
<1>10. ReadableIn(is_crypt_, file \o chunk, Entry(TRUE))
  <2>1. z + 1 \in Nat \ {0}
    OBVIOUS
  <2>2. z + 1 + HeaderLen + L <= Len(file \o chunk)
    BY <1>4, <1>6, Lengths
  <2>3. ASSUME NEW j \in 1 .. L
        PROVE  \/ (file \o chunk)[z + 1 + HeaderLen + j - 1] = CellOf(is_crypt_, given, j)
               \/ is_crypt_ /\ recovered /\ j > Enciphered(is_crypt_, L)
    BY <1>8, <1>9
  <2> QED
    BY <1>2, <1>3, <1>5, <1>7, <2>1, <2>2, <2>3 DEF ReadableIn
<1>11. /\ file' \in Seq(Nat) /\ log' \in Seq(Entries)
       /\ \A i \in DOMAIN log' : log'[i].whole => ReadableIn(is_crypt_, file', log'[i])
  BY <1>1, <1>2, <1>5, <1>10, FileGrows
<1>12. /\ mem[1] # Magic /\ length = 0 /\ remain = 0
  BY <1>1 DEF BlockInv, ChunkInv
<1>13. BlockTypes'
  <2>1. at' \in Places /\ recovered' \in BOOLEAN
    BY <1>1 DEF Places
  <2>2. chunk' \in Seq(Nat) /\ given' \in Seq(Nat)
    BY <1>1
  <2> QED
    BY <1>1, <1>11, <2>1, <2>2 DEF BlockInv, BlockTypes
<1>14. SizeInv' /\ CellsInv' /\ ChunkInv'
  BY <1>1, <1>12 DEF SizeInv, CellsInv, ChunkInv
<1>15. JobInv'
  <2>1. Len(<<>>) = 0
    OBVIOUS
  <2>2. Plain(is_crypt_, 0) = 0
    <3>1. Plain(is_crypt_, 0) \in 0 .. Tea - 1 /\ Plain(is_crypt_, 0) <= 0
      BY <1>2, Counts
    <3> QED
      BY <3>1
  <2> QED
    BY <1>1, <1>12, <2>1, <2>2 DEF JobInv
<1>16. FileInv'
  BY <1>1, <1>11 DEF FileInv, ReadableIn
<1> QED
  BY <1>13, <1>14, <1>15, <1>16 DEF BlockInv

LEMMA SyncStep == BlockInv /\ WriteSync => BlockInv'
<1> SUFFICES ASSUME BlockInv, WriteSync  PROVE BlockInv'
  OBVIOUS
<1>1. PICK data \in Payloads :
        /\ file' = file \o Header(Len(data)) \o data \o <<MagicEnd>>
        /\ log' = Append(log, [start |-> Len(file) + 1, whole |-> TRUE, payload |-> data,
                               sync |-> TRUE, recovered |-> FALSE])
  BY DEF WriteSync
<1>2. /\ is_crypt_' = is_crypt_ /\ mem' = mem /\ length' = length /\ remain' = remain
      /\ at' = at /\ job' = job /\ chunk' = chunk /\ hour' = hour /\ given' = given
      /\ recovered' = recovered
  BY DEF WriteSync, memory
<1>3. /\ is_crypt_ \in BOOLEAN /\ file \in Seq(Nat) /\ hour \in Nat
  BY BlockConstants DEF BlockInv, BlockTypes
<1>4. data \in Seq(Nat)
  BY PayloadCells
<1>5. PICK L \in Nat, z \in Nat : L = Len(data) /\ z = Len(file)
  BY <1>3, <1>4
<1>6. Header(L) \in Seq(Nat) /\ Len(Header(L)) = 4 /\ Header(L)[4] = L
  BY <1>3, HeaderCells
<1>7. <<MagicEnd>> \in Seq(Nat) /\ Len(<<MagicEnd>>) = 1
  BY DEF MagicEnd
<1>8. PICK block \in Seq(Nat) :
        /\ file' = file \o block
        /\ Len(block) = 4 + L + 1
        /\ block[4] = L
        /\ \A j \in 1 .. L : block[4 + j] = data[j]
  <2>1. PICK front \in Seq(Nat) : front = Header(L) \o data
    BY <1>4, <1>6, Joined
  <2>2. /\ Len(front) = 4 + L /\ front[4] = L
        /\ \A j \in 1 .. L : front[4 + j] = data[j]
    <3>1. /\ Len(front) = Len(Header(L)) + Len(data)
          /\ \A i \in 1 .. Len(Header(L)) : front[i] = Header(L)[i]
          /\ \A i \in 1 .. Len(data) : front[Len(Header(L)) + i] = data[i]
      <4>1. Header(L) \in Seq(Nat) /\ data \in Seq(Nat)
        BY <1>4, <1>6
      <4> DEFINE joined == Header(L) \o data
      <4>2. /\ Len(joined) = Len(Header(L)) + Len(data)
            /\ \A i \in 1 .. Len(Header(L)) : joined[i] = Header(L)[i]
            /\ \A i \in 1 .. Len(data) : joined[Len(Header(L)) + i] = data[i]
        BY <4>1, Joined
      <4> HIDE DEF joined
      <4>3. front = joined
        BY <2>1 DEF joined
      <4> QED
        BY <4>2, <4>3
    <3> QED
      BY <1>5, <1>6, <3>1
  <2>3. PICK block \in Seq(Nat) : block = front \o <<MagicEnd>>
    BY <1>7, Joined
  <2>4. /\ Len(block) = Len(front) + 1
        /\ \A i \in 1 .. Len(front) : block[i] = front[i]
    BY <1>7, <2>3, Joined
  <2>5. 4 \in 1 .. 4 + L /\ \A j \in 1 .. L : 4 + j \in 1 .. 4 + L
    OBVIOUS
  <2>6. file' = file \o block
    <3>1. file' = ((file \o Header(L)) \o data) \o <<MagicEnd>>
      BY <1>1, <1>5
    <3>2. (file \o Header(L)) \o data = file \o front
      <4>1. file \in Seq(Nat) /\ Header(L) \in Seq(Nat) /\ data \in Seq(Nat)
        BY <1>3, <1>4, <1>6
      <4>2. (file \o Header(L)) \o data = file \o (Header(L) \o data)
        BY <4>1, Associates, SMTT(30)
      <4> QED
        BY <2>1, <4>2
    <3>3. (file \o front) \o <<MagicEnd>> = file \o block
      BY <1>3, <1>7, <2>3, Associates, SMTT(30)
    <3> QED
      BY <3>1, <3>2, <3>3
  <2>7. block[4] = L /\ \A j \in 1 .. L : block[4 + j] = data[j]
    <3>1. \A i \in 1 .. 4 + L : block[i] = front[i]
      BY <2>2, <2>4
    <3> QED
      BY <2>2, <2>5, <3>1
  <2> QED
    BY <2>2, <2>4, <2>6, <2>7
<1>9. PICK e \in Entries :
        /\ e.start = z + 1 /\ e.payload = data /\ e.whole /\ e.sync
        /\ log' = Append(log, e)
  <2> DEFINE r == [start |-> Len(file) + 1, whole |-> TRUE, payload |-> data,
                   sync |-> TRUE, recovered |-> FALSE]
  <2>1. Len(file) + 1 \in Nat
    BY <1>5
  <2>2. r \in Entries
    BY <1>4, <2>1 DEF Entries
  <2>3. r.start = z + 1 /\ r.payload = data /\ r.whole /\ r.sync
    BY <1>5
  <2> QED
    BY <1>1, <2>2, <2>3
<1>10. /\ Len(file \o block) = z + Len(block)
       /\ \A i \in 1 .. Len(block) : (file \o block)[z + i] = block[i]
  BY <1>3, <1>5, Joined
<1>11. ReadableIn(is_crypt_, file \o block, e)
  <2>1. (file \o block)[z + 1 + 3] = L
    <3>1. 4 \in 1 .. Len(block) /\ z + 4 = z + 1 + 3
      BY <1>8
    <3> QED
      BY <1>8, <1>10, <3>1
  <2>2. ASSUME NEW j \in 1 .. L
        PROVE  (file \o block)[z + 1 + HeaderLen + j - 1] = data[j]
    <3>1. 4 + j \in 1 .. 4 + L + 1 /\ z + 1 + HeaderLen + j - 1 = z + (4 + j)
      BY Lengths
    <3> QED
      BY <1>8, <1>10, <3>1
  <2>3. z + 1 \in Nat \ {0}
    OBVIOUS
  <2>4. z + 1 + HeaderLen + L <= Len(file \o block)
    BY <1>8, <1>10, Lengths
  <2> QED
    BY <1>4, <1>5, <1>9, <2>1, <2>2, <2>3, <2>4 DEF ReadableIn
<1>12. /\ file' \in Seq(Nat) /\ log' \in Seq(Entries)
       /\ \A i \in DOMAIN log' : log'[i].whole => ReadableIn(is_crypt_, file', log'[i])
  BY <1>8, <1>9, <1>11, FileGrows
<1>13. BlockTypes'
  BY <1>2, <1>12 DEF BlockInv, BlockTypes
<1>14. SizeInv' /\ JobInv' /\ ChunkInv'
  BY <1>2 DEF BlockInv, SizeInv, JobInv, ChunkInv, Sound, CellOf
<1>15. CellsInv'
  BY <1>2 DEF BlockInv, CellsInv, Sound, CellOf
<1>16. FileInv'
  BY <1>2, <1>12 DEF FileInv, ReadableIn
<1> QED
  BY <1>13, <1>14, <1>15, <1>16 DEF BlockInv

-----------------------------------------------------------------------------
(* Crashes, and the process after one.                                     *)

LEMMA CrashStep == BlockInv /\ Crash => BlockInv'
<1> SUFFICES ASSUME BlockInv, Crash  PROVE BlockInv'
  OBVIOUS
<1>1. /\ length' = 0 /\ remain' = 0 /\ job' = NoJob /\ chunk' = <<>> /\ at' = "dead"
      /\ is_crypt_' = is_crypt_ /\ mem' = mem /\ hour' = hour /\ given' = given
      /\ recovered' = recovered
  BY DEF Crash
<1>2. /\ is_crypt_ \in BOOLEAN /\ file \in Seq(Nat) /\ chunk \in Seq(Nat) /\ given \in Seq(Nat)
      /\ recovered \in BOOLEAN
  BY DEF BlockInv, BlockTypes
<1>3. /\ file' \in Seq(Nat) /\ log' \in Seq(Entries)
      /\ \A i \in DOMAIN log' : log'[i].whole => ReadableIn(is_crypt_, file', log'[i])
  <2>1. CASE UNCHANGED <<file, log>>
    BY <2>1 DEF BlockInv, BlockTypes, FileInv
  <2>2. CASE \E n \in 1 .. Len(chunk) - 1 :
               file' = file \o SubSeq(chunk, 1, n) /\ log' = Append(log, Entry(FALSE))
    <3>1. PICK n \in 1 .. Len(chunk) - 1 :
            file' = file \o SubSeq(chunk, 1, n) /\ log' = Append(log, Entry(FALSE))
      BY <2>2
    <3>2. SubSeq(chunk, 1, n) \in Seq(Nat)
      <4>1. n \in Nat /\ \A i \in 1 .. n : i \in 1 .. Len(chunk)
        BY <1>2
      <4>2. \A i \in 1 .. n : chunk[i] \in Nat
        BY <1>2, <4>1
      <4> QED
        BY <4>1, <4>2, Prefix
    <3>3. Entry(FALSE) \in Entries /\ ~Entry(FALSE).whole
      <4>1. Len(file) + 1 \in Nat
        BY <1>2
      <4> QED
        BY <1>2, <4>1 DEF Entry, Entries
    <3> QED
      BY <3>1, <3>2, <3>3, FileGrows
  <2> QED
    BY <2>1, <2>2 DEF Crash
<1>4. BlockTypes'
  <2>1. length' \in 0 .. BlockMax /\ remain' \in 0 .. Tea - 1
    BY <1>1, Lengths, BlockConstants
  <2>2. job'.from \in Nat /\ job'.out \in Seq(Nat) /\ job'.new \in Nat
    BY <1>1 DEF NoJob
  <2>3. at' \in Places /\ chunk' \in Seq(Nat)
    BY <1>1 DEF Places
  <2> QED
    BY <1>1, <1>3, <2>1, <2>2, <2>3 DEF BlockInv, BlockTypes
<1>5. SizeInv' /\ JobInv' /\ ChunkInv'
  BY <1>1 DEF BlockInv, SizeInv, JobInv, ChunkInv
<1>6. CellsInv'
  BY <1>1 DEF BlockInv, CellsInv, Sound, CellOf
<1>7. FileInv'
  BY <1>1, <1>3 DEF FileInv, ReadableIn
<1> QED
  BY <1>4, <1>5, <1>6, <1>7 DEF BlockInv

LEMMA FixStep == BlockInv /\ Fix => BlockInv'
<1> SUFFICES ASSUME BlockInv, Fix  PROVE BlockInv'
  OBVIOUS
<1>1. /\ at = "dead" /\ at' = "fixed" /\ recovered' = TRUE
      /\ length' = IF mem[1] = Magic THEN mem[4] + HeaderLen ELSE 0
      /\ given' = IF mem[1] = Magic THEN given ELSE <<>>
      /\ is_crypt_' = is_crypt_ /\ mem' = mem /\ remain' = remain /\ job' = job
      /\ chunk' = chunk /\ file' = file /\ hour' = hour /\ log' = log
  BY DEF Fix
<1>2. given \in Seq(Nat) /\ Len(given) \in Nat
  BY DEF BlockInv, BlockTypes
<1>3. mem[1] = Magic => mem[4] = Len(given) /\ HeaderLen + Len(given) + TailerLen <= BlockMax
  BY DEF BlockInv, SizeInv
<1>4. /\ mem[1] = Magic => length' = HeaderLen + Len(given) /\ length' # 0 /\ length' \in 0 .. BlockMax
      /\ mem[1] # Magic => length' = 0 /\ length' \in 0 .. BlockMax
  BY <1>1, <1>2, <1>3, Lengths
<1>5. given' \in Seq(Nat)
  BY <1>1, <1>2
<1>6. BlockTypes'
  <2>1. at' \in Places /\ recovered' \in BOOLEAN
    BY <1>1 DEF Places
  <2> QED
    BY <1>1, <1>4, <1>5, <2>1 DEF BlockInv, BlockTypes
<1>7. SizeInv'
  BY <1>1, <1>3, <1>4 DEF SizeInv
<1>8. JobInv' /\ ChunkInv'
  BY <1>1 DEF JobInv, ChunkInv
<1>9. CellsInv'
  BY <1>1 DEF BlockInv, CellsInv, Sound, CellOf
<1>10. FileInv'
  BY <1>1 DEF BlockInv, FileInv, ReadableIn
<1> QED
  BY <1>6, <1>7, <1>8, <1>9, <1>10 DEF BlockInv

LEMMA TickStep == BlockInv /\ Tick => BlockInv'
<1> SUFFICES ASSUME BlockInv, Tick  PROVE BlockInv'
  OBVIOUS
<1>1. /\ at' = at /\ recovered' = recovered /\ length' = length /\ given' = given
      /\ is_crypt_' = is_crypt_ /\ mem' = mem /\ remain' = remain /\ job' = job
      /\ chunk' = chunk
  BY DEF Tick, memory
<1>2. \/ hour < LastHour /\ hour' = hour + 1 /\ file' = file /\ log' = log
      \/ hour' = 0 /\ file' = <<>> /\ log' = <<>>
  BY DEF Tick
<1>3. hour' \in 0 .. LastHour
  <2>1. hour \in 0 .. LastHour
    BY DEF BlockInv, BlockTypes
  <2> QED
    BY <1>2, <2>1, BlockConstants
<1>4. file' \in Seq(Nat) /\ log' \in Seq(Entries)
  <2>1. file \in Seq(Nat) /\ log \in Seq(Entries)
    BY DEF BlockInv, BlockTypes
  <2>2. CASE file' = file /\ log' = log
    BY <2>1, <2>2
  <2>3. CASE file' = <<>> /\ log' = <<>>
    BY <2>3
  <2> QED
    BY <1>2, <2>2, <2>3
<1>5. BlockTypes'
  BY <1>1, <1>3, <1>4 DEF BlockInv, BlockTypes
<1>6. SizeInv' /\ JobInv' /\ ChunkInv'
  BY <1>1 DEF BlockInv, SizeInv, JobInv, ChunkInv, Sound, CellOf
<1>7. CellsInv'
  BY <1>1 DEF BlockInv, CellsInv, Sound, CellOf
<1>8. FileInv'
  <2>1. CASE file' = file /\ log' = log
    BY <1>1, <2>1 DEF BlockInv, FileInv, ReadableIn
  <2>2. CASE log' = <<>>
    BY <2>2 DEF FileInv
  <2> QED
    BY <1>2, <2>1, <2>2
<1> QED
  BY <1>5, <1>6, <1>7, <1>8 DEF BlockInv

LEMMA StepBlock == BlockInv /\ [Next]_vars => BlockInv'
<1> SUFFICES ASSUME BlockInv, [Next]_vars  PROVE BlockInv'
  OBVIOUS
<1>1. CASE Crash
  BY <1>1, CrashStep
<1>2. CASE WriteCompress
  BY <1>2, CompressStep
<1>3. CASE WriteCrypt
  BY <1>3, CryptStep
<1>4. CASE WriteLen
  BY <1>4, LenStep
<1>5. CASE WriteSync
  BY <1>5, SyncStep
<1>6. CASE FlushEmpty
  BY <1>6, FlushEmptyStep
<1>7. CASE FlushHour
  BY <1>7, FlushHourStep
<1>8. CASE FlushTail
  BY <1>8, FlushTailStep
<1>9. CASE FlushClear
  BY <1>9, FlushClearStep
<1>10. CASE FileWrite
  BY <1>10, FileWriteStep
<1>11. CASE Fix
  BY <1>11, FixStep
<1>12. CASE Tick
  BY <1>12, TickStep
<1>13. CASE UNCHANGED vars
  BY <1>13 DEF vars, memory, counts, BlockInv, BlockTypes, SizeInv, JobInv, CellsInv, ChunkInv,
               FileInv, Sound, CellOf, ReadableIn
<1> QED
  BY <1>1, <1>2, <1>3, <1>4, <1>5, <1>6, <1>7, <1>8, <1>9, <1>10, <1>11, <1>12, <1>13 DEF Next

LEMMA BlockSafe == Spec => []BlockInv
<1>1. Init => BlockInv
  BY InitBlock
<1>2. BlockInv /\ [Next]_vars => BlockInv'
  BY StepBlock
<1> QED
  BY <1>1, <1>2, PTL DEF Spec

-----------------------------------------------------------------------------
(* Induction. What the library offers for it takes a predicate; here it is *)
(* a set of numbers instead.                                               *)

LEMMA LeastOf ==
  ASSUME NEW T \in SUBSET Nat, T # {}
  PROVE  \E m \in T : \A k \in T : m <= k
<1> DEFINE R == OpToRel(<, Nat)
<1>1. IsWellFoundedOn(R, Nat)
  BY NatLessThanWellFounded
<1>2. \A x, y \in Nat : y < x => <<y, x>> \in R
  BY DEF OpToRel
<1> HIDE DEF R
<1>3. PICK m \in T : \A y \in T : ~(<<y, m>> \in R)
  BY <1>1, WFMin
<1>4. ASSUME NEW k \in T PROVE m <= k
  <2>1. ~(k < m)
    BY <1>2, <1>3
  <2> QED
    BY <2>1
<1> QED
  BY <1>4

\* From the end n + 1 backwards.
LEMMA Backwards ==
  ASSUME NEW n \in Nat, NEW S,
         n + 1 \in S,
         \A p \in 1 .. n : (\A q \in p + 1 .. n + 1 : q \in S) => p \in S
  PROVE  \A p \in 1 .. n + 1 : p \in S
<1> DEFINE T == {d \in Nat : d <= n /\ n + 1 - d \notin S}
<1>1. T = {}
  <2> SUFFICES ASSUME T # {} PROVE FALSE
    OBVIOUS
  <2>1. PICK m \in T : \A k \in T : m <= k
    <3>1. T \in SUBSET Nat
      OBVIOUS
    <3> HIDE DEF T
    <3> QED
      BY <3>1, LeastOf
  <2>2. PICK p : p = n + 1 - m
    OBVIOUS
  <2>3. p \in 1 .. n + 1 /\ p \notin S /\ p # n + 1
    BY <2>1, <2>2
  <2>4. ASSUME NEW q \in p + 1 .. n + 1 PROVE q \in S
    <3>1. PICK k : k = n + 1 - q
      OBVIOUS
    <3>2. k \in Nat /\ k <= n /\ k < m /\ q = n + 1 - k
      BY <2>1, <2>2, <3>1
    <3>3. k \notin T
      BY <2>1, <3>2
    <3> QED
      BY <3>2, <3>3
  <2> QED
    BY <2>3, <2>4
<1>2. ASSUME NEW p \in 1 .. n + 1 PROVE p \in S
  <2>1. n + 1 - p \in Nat /\ n + 1 - p <= n /\ n + 1 - (n + 1 - p) = p
    OBVIOUS
  <2> QED
    BY <1>1, <2>1
<1> QED
  BY <1>2

-----------------------------------------------------------------------------
(* A scan that is not led beyond the end of file f by what is good to it.  *)

Leads(f, good) ==
  /\ Len(f) \in Nat /\ good \subseteq 1 .. Len(f)
  /\ \A q \in good : Behind(f, q) \in q + 1 .. Len(f) + 1

\* What the scan reads from q on, if g says what it reads from later cells on.
ReadsAt(f, good, g, q) ==
  IF q = Len(f) + 1 THEN {}
  ELSE IF q \in good THEN {q} \cup g[Behind(f, q)]
  ELSE g[q + 1]

LEMMA ScanDefined ==
  ASSUME NEW f, NEW good, Leads(f, good)
  PROVE  \E g : g = [q \in 1 .. Len(f) + 1 |-> ReadsAt(f, good, g, q)]
<1> DEFINE IsScan(g, k, n) == \A q \in k .. n + 1 : g[q] = ReadsAt(f, good, g, q)
<1>1. PICK n \in Nat : n = Len(f)
  BY DEF Leads
<1> DEFINE S == {k \in 1 .. n + 1 : \E g : IsScan(g, k, n)}
<1>2. n + 1 \in S
  <2> DEFINE g == [q \in {n + 1} |-> {}]
  <2>1. IsScan(g, n + 1, n)
    BY <1>1 DEF ReadsAt
  <2> QED
    BY <2>1
<1>3. ASSUME NEW p \in 1 .. n, \A q \in p + 1 .. n + 1 : q \in S
      PROVE  p \in S
  <2>1. PICK h : IsScan(h, p + 1, n)
    BY <1>3
  <2> DEFINE g == [q \in p .. n + 1 |-> IF q = p THEN ReadsAt(f, good, h, p) ELSE h[q]]
  <2>2. g[p] = ReadsAt(f, good, h, p) /\ \A q \in p + 1 .. n + 1 : g[q] = h[q]
    OBVIOUS
  <2> HIDE DEF g
  <2>3. ASSUME NEW q \in p .. n
        PROVE  /\ q + 1 \in p + 1 .. n + 1
               /\ q \in good => Behind(f, q) \in p + 1 .. n + 1
    <3>1. q + 1 \in p + 1 .. n + 1
      OBVIOUS
    <3>2. q \in good => Behind(f, q) \in q + 1 .. n + 1
      BY <1>1 DEF Leads
    <3>3. \A x \in q + 1 .. n + 1 : x \in p + 1 .. n + 1
      OBVIOUS
    <3> QED
      BY <3>1, <3>2, <3>3
  <2>4. ASSUME NEW q \in p .. n
        PROVE  ReadsAt(f, good, g, q) = ReadsAt(f, good, h, q)
    BY <2>2, <2>3 DEF ReadsAt
  <2>5. ASSUME NEW q \in p .. n + 1
        PROVE  g[q] = ReadsAt(f, good, g, q)
    <3>1. CASE q = p
      BY <2>2, <2>4, <3>1
    <3>2. CASE q # p /\ q # n + 1
      <4>1. q \in p + 1 .. n + 1 /\ q \in p .. n
        BY <3>2
      <4> QED
        BY <2>1, <2>2, <2>4, <4>1
    <3>3. CASE q = n + 1
      <4>1. q \in p + 1 .. n + 1
        BY <3>3
      <4>2. g[q] = ReadsAt(f, good, h, q)
        BY <2>1, <2>2, <4>1
      <4> QED
        BY <1>1, <3>3, <4>2 DEF ReadsAt
    <3> QED
      BY <3>1, <3>2, <3>3
  <2>6. IsScan(g, p, n)
    BY <2>5
  <2>7. p \in 1 .. n + 1
    OBVIOUS
  <2> HIDE DEF IsScan
  <2> QED
    BY <2>6, <2>7
<1>4. 1 \in S
  <2>1. 1 \in 1 .. n + 1
    OBVIOUS
  <2> HIDE DEF S
  <2> QED
    BY <1>2, <1>3, <2>1, Backwards
<1>5. PICK h : IsScan(h, 1, n)
  BY <1>4
<1> DEFINE g == [q \in 1 .. n + 1 |-> h[q]]
<1>6. \A q \in 1 .. n + 1 : g[q] = h[q]
  OBVIOUS
<1>7. ASSUME NEW q \in 1 .. n + 1
      PROVE  ReadsAt(f, good, g, q) = h[q]
  <2>1. h[q] = ReadsAt(f, good, h, q)
    BY <1>5
  <2>2. q # n + 1 => q + 1 \in 1 .. n + 1
    OBVIOUS
  <2>3. q \in good => Behind(f, q) \in 1 .. n + 1
    <3>1. q \in good => Behind(f, q) \in q + 1 .. n + 1
      BY <1>1 DEF Leads
    <3>2. \A x \in q + 1 .. n + 1 : x \in 1 .. n + 1
      OBVIOUS
    <3> QED
      BY <3>1, <3>2
  <2> HIDE DEF g
  <2> QED
    BY <1>1, <1>6, <2>1, <2>2, <2>3 DEF ReadsAt
<1>8. g = [q \in 1 .. n + 1 |-> ReadsAt(f, good, g, q)]
  <2>1. [q \in 1 .. n + 1 |-> ReadsAt(f, good, g, q)] = [q \in 1 .. n + 1 |-> h[q]]
    BY <1>7
  <2> QED
    BY <2>1
<1> HIDE DEF g
<1> QED
  BY <1>1, <1>8

\* The recursive definition says what it seems to say.
LEMMA ScanStep ==
  ASSUME NEW f, NEW good, Leads(f, good)
  PROVE  /\ BlocksFrom(f, Len(f) + 1, good) = {}
         /\ \A q \in 1 .. Len(f) :
              BlocksFrom(f, q, good) =
                IF q \in good THEN {q} \cup BlocksFrom(f, Behind(f, q), good)
                ELSE BlocksFrom(f, q + 1, good)
<1> DEFINE h == CHOOSE g : g = [q \in 1 .. Len(f) + 1 |-> ReadsAt(f, good, g, q)]
<1>1. h = [q \in 1 .. Len(f) + 1 |-> ReadsAt(f, good, h, q)]
  BY ScanDefined
<1>2. \A p : BlocksFrom(f, p, good) = h[p]
  BY Zenon DEF BlocksFrom, ReadsAt
<1> HIDE DEF h
<1>3. Len(f) \in Nat /\ Len(f) + 1 \in 1 .. Len(f) + 1
  BY DEF Leads
<1>4. h[Len(f) + 1] = {}
  BY <1>1, <1>3 DEF ReadsAt
<1>5. ASSUME NEW q \in 1 .. Len(f)
      PROVE  h[q] = IF q \in good THEN {q} \cup h[Behind(f, q)] ELSE h[q + 1]
  <2>1. q \in 1 .. Len(f) + 1 /\ q # Len(f) + 1
    BY <1>3
  <2> QED
    BY <1>1, <2>1 DEF ReadsAt
<1> QED
  BY <1>2, <1>4, <1>5

\* It reads good cells, and from a good cell on what it reads from there.
LEMMA ScanReads ==
  ASSUME NEW f, NEW good, Leads(f, good), NEW p \in 1 .. Len(f) + 1
  PROVE  /\ BlocksFrom(f, p, good) \subseteq good
         /\ \A q \in BlocksFrom(f, p, good) :
              BlocksFrom(f, q, good) \subseteq BlocksFrom(f, p, good)
<1>1. PICK n \in Nat : n = Len(f)
  BY DEF Leads
<1> DEFINE B(x) == BlocksFrom(f, x, good)
           S == {x \in 1 .. n + 1 : B(x) \subseteq good /\ \A q \in B(x) : B(q) \subseteq B(x)}
<1>2. /\ B(n + 1) = {}
      /\ \A x \in 1 .. n : B(x) = IF x \in good THEN {x} \cup B(Behind(f, x)) ELSE B(x + 1)
      /\ good \subseteq 1 .. n /\ \A x \in good : Behind(f, x) \in x + 1 .. n + 1
  BY <1>1, ScanStep DEF Leads
<1> HIDE DEF B
<1>3. n + 1 \in S
  BY <1>2
<1>4. ASSUME NEW x \in 1 .. n, \A y \in x + 1 .. n + 1 : y \in S
      PROVE  x \in S
  <2>1. x + 1 \in x + 1 .. n + 1 /\ x \in 1 .. n + 1
    OBVIOUS
  <2>2. CASE x \in good
    BY <1>2, <1>4, <2>1, <2>2
  <2>3. CASE x \notin good
    BY <1>2, <1>4, <2>1, <2>3
  <2> QED
    BY <2>2, <2>3
<1>5. p \in S
  <2> HIDE DEF S
  <2> QED
    BY <1>1, <1>3, <1>4, Backwards
<1> QED
  BY <1>5 DEF B

\* A scan that no good cell leads across z comes to z.
LEMMA ScanArrives ==
  ASSUME NEW f, NEW good, Leads(f, good), NEW z \in 1 .. Len(f) + 1,
         \A q \in good : q < z => Behind(f, q) <= z
  PROVE  BlocksFrom(f, z, good) \subseteq BlocksFrom(f, 1, good)
<1>1. PICK n \in Nat : n = Len(f)
  BY DEF Leads
<1> DEFINE B(x) == BlocksFrom(f, x, good)
           S == {x \in 1 .. n + 1 : x <= z => B(z) \subseteq B(x)}
<1>2. /\ \A x \in 1 .. n : B(x) = IF x \in good THEN {x} \cup B(Behind(f, x)) ELSE B(x + 1)
      /\ good \subseteq 1 .. n /\ \A x \in good : Behind(f, x) \in x + 1 .. n + 1
  BY <1>1, ScanStep DEF Leads
<1> HIDE DEF B
<1>3. z \in 1 .. n + 1
  BY <1>1
<1>4. n + 1 \in S
  BY <1>3
<1>5. ASSUME NEW x \in 1 .. n, \A y \in x + 1 .. n + 1 : y \in S
      PROVE  x \in S
  <2>1. x + 1 \in x + 1 .. n + 1 /\ x \in 1 .. n + 1
    OBVIOUS
  <2>2. CASE x \in good
    BY <1>2, <1>3, <1>5, <2>1, <2>2
  <2>3. CASE x \notin good
    BY <1>2, <1>3, <1>5, <2>1, <2>3
  <2> QED
    BY <2>2, <2>3
<1>6. 1 \in S
  <2>1. 1 \in 1 .. n + 1
    OBVIOUS
  <2> HIDE DEF S
  <2> QED
    BY <1>4, <1>5, <2>1, Backwards
<1> QED
  BY <1>3, <1>6 DEF B

-----------------------------------------------------------------------------
(* The blocks of a file, one behind the other.                             *)

\* The cells of a block that __Log2File gets.
IsBlock(c) ==
  /\ c \in Seq(Nat) /\ c[1] = Magic /\ c[4] \in Nat \ {0}
  /\ Len(c) = HeaderLen + c[4] + TailerLen /\ c[Len(c)] = MagicEnd

StartBehind(f, l, i) == IF i = Len(l) THEN Len(f) + 1 ELSE l[i + 1].start

\* Whole blocks of log l are good ones of file f and lead to the next; a torn
\* one is any number of cells.
Aligned(f, l) ==
  /\ Len(l) = 0 => Len(f) = 0
  /\ \A i \in 1 .. Len(l) :
       /\ l[i].start \in 1 .. Len(f)
       /\ i = 1 => l[i].start = 1
       /\ l[i].whole => IsGoodBlock(f, l[i].start)
       /\ l[i].whole => Behind(f, l[i].start) = StartBehind(f, l, i)
  /\ \A i, j \in 1 .. Len(l) : i < j =>
       /\ l[i].start < l[j].start
       /\ l[i].whole => Behind(f, l[i].start) <= l[j].start

LEMMA GoodInside ==
  ASSUME NEW f \in Seq(Nat), NEW p \in Nat \ {0}, IsGoodBlock(f, p)
  PROVE  /\ Len(f) \in Nat /\ p \in 1 .. Len(f) /\ f[p + 3] \in Nat
         /\ Behind(f, p) = p + 4 + f[p + 3] + 1
         /\ Behind(f, p) \in p + 1 .. Len(f) + 1
<1>1. PICK n \in Nat : n = Len(f)
  OBVIOUS
<1>2. p + 5 <= n /\ Behind(f, p) <= n + 1
  BY <1>1, Lengths DEF IsGoodBlock
<1>3. p + 3 \in 1 .. n
  BY <1>2
<1>4. f[p + 3] \in Nat
  BY <1>1, <1>3
<1>5. Behind(f, p) = p + 4 + f[p + 3] + 1
  BY Lengths DEF Behind, LogLen
<1>6. PICK b \in Nat, z \in Nat : b = Behind(f, p) /\ z = f[p + 3]
  BY <1>4, <1>5
<1>7. b \in p + 1 .. n + 1 /\ p \in 1 .. n
  <2>1. p + 5 <= n /\ b <= n + 1 /\ b = p + 4 + z + 1
    BY <1>2, <1>5, <1>6
  <2> QED
    BY <2>1
<1> QED
  BY <1>1, <1>4, <1>5, <1>6, <1>7

LEMMA GoodLeads ==
  ASSUME NEW f \in Seq(Nat)
  PROVE  Leads(f, GoodBlocks(f))
<1>1. Len(f) \in Nat /\ DOMAIN f = 1 .. Len(f)
  OBVIOUS
<1>2. ASSUME NEW q \in GoodBlocks(f) PROVE Behind(f, q) \in q + 1 .. Len(f) + 1
  <2>1. q \in Nat \ {0} /\ IsGoodBlock(f, q)
    BY <1>1 DEF GoodBlocks
  <2> QED
    BY <2>1, GoodInside
<1> QED
  BY <1>1, <1>2 DEF Leads, GoodBlocks

LEMMA GoodStays ==
  ASSUME NEW f \in Seq(Nat), NEW more \in Seq(Nat), NEW p \in Nat \ {0}, IsGoodBlock(f, p)
  PROVE  IsGoodBlock(f \o more, p) /\ Behind(f \o more, p) = Behind(f, p)
<1> DEFINE k == f \o more
<1>1. PICK n \in Nat, y \in Nat : n = Len(f) /\ y = Len(k) /\ n <= y
  <2>1. PICK n \in Nat, x \in Nat : n = Len(f) /\ x = Len(more)
    OBVIOUS
  <2>2. Len(k) = n + x /\ n <= n + x /\ n + x \in Nat
    BY <2>1, Joined
  <2> QED
    BY <2>1, <2>2
<1>2. \A i \in 1 .. n : k[i] = f[i]
  BY <1>1, Joined
<1> HIDE DEF k
<1>3. /\ p + 5 <= n /\ Behind(f, p) <= n + 1 /\ f[p] = Magic
      /\ f[Behind(f, p) - 1] = MagicEnd
  BY <1>1, Lengths DEF IsGoodBlock
<1>4. PICK b \in Nat, z \in Nat : b = Behind(f, p) /\ b = p + 4 + z + 1
  <2>1. Behind(f, p) = p + 4 + f[p + 3] + 1 /\ f[p + 3] \in Nat
    BY GoodInside
  <2> QED
    BY <2>1
<1>5. p \in 1 .. n /\ p + 3 \in 1 .. n /\ b - 1 \in 1 .. n /\ b <= y + 1
  <2>1. p + 5 <= n /\ b <= n + 1
    BY <1>3, <1>4
  <2> QED
    BY <1>1, <1>4, <2>1
<1>6. Behind(k, p) = Behind(f, p)
  BY <1>2, <1>5 DEF Behind, LogLen
<1>7. p + 5 <= y /\ Behind(f, p) <= y + 1
  <2>1. p + 5 <= y
    BY <1>1, <1>3
  <2> QED
    BY <1>4, <1>5, <2>1
<1>8. IsGoodBlock(k, p)
  <2>1. k[p] = Magic /\ k[b - 1] = MagicEnd
    BY <1>2, <1>3, <1>4, <1>5
  <2>2. Behind(k, p) = b /\ b <= Len(k) + 1
    BY <1>1, <1>4, <1>5, <1>6
  <2>3. p + HeaderLen + TailerLen = p + 5
    BY Lengths
  <2>4. p + HeaderLen + TailerLen <= Len(k)
    BY <1>1, <1>7, <2>3
  <2> QED
    BY <2>1, <2>2, <2>4 DEF IsGoodBlock
<1> QED
  BY <1>6, <1>8 DEF k

LEMMA GoodAtEnd ==
  ASSUME NEW f \in Seq(Nat), NEW c, IsBlock(c)
  PROVE  /\ IsGoodBlock(f \o c, Len(f) + 1)
         /\ Behind(f \o c, Len(f) + 1) = Len(f \o c) + 1
<1> DEFINE k == f \o c
<1>1. PICK n \in Nat, y \in Nat, z \in Nat \ {0} : n = Len(f) /\ y = Len(c) /\ z = c[4]
  BY DEF IsBlock
<1>2. Len(k) = n + y /\ y = 4 + z + 1 /\ \A i \in 1 .. y : k[n + i] = c[i]
  BY <1>1, Joined, Lengths DEF IsBlock
<1> HIDE DEF k
<1>3. k[n + 1] = Magic /\ k[n + 1 + 3] = z /\ k[n + y] = MagicEnd
  <2>1. 1 \in 1 .. y /\ 4 \in 1 .. y /\ y \in 1 .. y /\ n + 1 + 3 = n + 4
    BY <1>2
  <2> QED
    BY <1>1, <1>2, <2>1 DEF IsBlock
<1>4. Behind(k, n + 1) = n + y + 1
  BY <1>2, <1>3, Lengths DEF Behind, LogLen
<1>5. n + 1 + 4 + 1 <= n + y /\ n + y + 1 - 1 = n + y
  BY <1>2
<1>6. IsGoodBlock(k, n + 1)
  BY <1>2, <1>3, <1>4, <1>5, Lengths DEF IsGoodBlock
<1> QED
  BY <1>1, <1>2, <1>4, <1>6 DEF k

\* A block that is put together from header, payload and end.
LEMMA BlockOfParts ==
  ASSUME NEW n \in Nat \ {0}, NEW h \in Seq(Nat), NEW d \in Seq(Nat), NEW e \in Seq(Nat),
         Len(h) = 4, h[1] = Magic, h[4] = n, Len(d) = n, Len(e) = 1, e[1] = MagicEnd
  PROVE  IsBlock((h \o d) \o e) /\ ((h \o d) \o e)[3] = h[3]
<1> DEFINE a == h \o d
           c == a \o e
<1>1. a \in Seq(Nat) /\ Len(a) = Len(h) + Len(d) /\ \A i \in 1 .. Len(h) : a[i] = h[i]
  BY Joined
<1>2. a[1] = Magic /\ a[3] = h[3] /\ a[4] = n /\ Len(a) = 4 + n
  <2>1. 1 \in 1 .. Len(h) /\ 3 \in 1 .. Len(h) /\ 4 \in 1 .. Len(h)
    OBVIOUS
  <2> HIDE DEF a
  <2> QED
    BY <1>1, <2>1
<1> HIDE DEF a
<1>3. /\ c \in Seq(Nat) /\ Len(c) = Len(a) + Len(e)
      /\ \A i \in 1 .. Len(a) : c[i] = a[i]
      /\ \A i \in 1 .. Len(e) : c[Len(a) + i] = e[i]
  BY <1>1, Joined
<1> HIDE DEF c
<1>4. c[1] = Magic /\ c[3] = h[3] /\ c[4] = n /\ Len(c) = 4 + n + 1
  <2>1. 1 \in 1 .. Len(a) /\ 3 \in 1 .. Len(a) /\ 4 \in 1 .. Len(a)
    BY <1>2
  <2> QED
    BY <1>2, <1>3, <2>1
<1>5. c[4 + n + 1] = MagicEnd
  <2>1. 1 \in 1 .. Len(e)
    OBVIOUS
  <2> QED
    BY <1>2, <1>3, <2>1
<1>6. IsBlock(c)
  BY <1>3, <1>4, <1>5, Lengths DEF IsBlock
<1> QED
  BY <1>4, <1>6 DEF a, c

\* Something is written to the file, and noted.
LEMMA AlignedGrows ==
  ASSUME NEW f \in Seq(Nat), NEW l \in Seq(Entries), Aligned(f, l),
         NEW c \in Seq(Nat), Len(c) # 0, NEW e \in Entries, e.start = Len(f) + 1,
         e.whole => IsBlock(c)
  PROVE  Aligned(f \o c, Append(l, e))
<1> DEFINE k == f \o c
           u == Append(l, e)
<1>1. PICK n \in Nat, y \in Nat \ {0}, m \in Nat : n = Len(f) /\ y = Len(c) /\ m = Len(l)
  OBVIOUS
<1>2. Len(k) = n + y
  BY <1>1, Joined
<1>3. Len(u) = m + 1 /\ u[m + 1] = e /\ \A i \in 1 .. m : u[i] = l[i]
  BY <1>1
<1>4. \A p \in Nat \ {0} : IsGoodBlock(f, p) => IsGoodBlock(k, p) /\ Behind(k, p) = Behind(f, p)
  BY GoodStays
<1>5. e.whole => IsGoodBlock(k, n + 1) /\ Behind(k, n + 1) = n + y + 1
  BY <1>1, <1>2, GoodAtEnd
<1> HIDE DEF k, u
<1>6. ASSUME NEW i \in 1 .. m
      PROVE  /\ u[i].start \in 1 .. n /\ u[i].start < n + 1
             /\ i = 1 => u[i].start = 1
             /\ u[i].whole => /\ IsGoodBlock(k, u[i].start)
                              /\ Behind(k, u[i].start) = StartBehind(f, l, i)
                              /\ Behind(k, u[i].start) <= n + 1
  <2>1. l[i].start \in 1 .. n /\ (i = 1 => l[i].start = 1)
    BY <1>1 DEF Aligned
  <2>2. ASSUME l[i].whole
        PROVE  /\ IsGoodBlock(k, l[i].start)
               /\ Behind(k, l[i].start) = StartBehind(f, l, i)
               /\ Behind(k, l[i].start) <= n + 1
    <3>1. IsGoodBlock(f, l[i].start) /\ Behind(f, l[i].start) = StartBehind(f, l, i)
      BY <1>1, <2>2 DEF Aligned
    <3>2. l[i].start \in Nat \ {0}
      BY <2>1
    <3>3. Behind(f, l[i].start) <= n + 1
      BY <1>1, <3>1 DEF IsGoodBlock
    <3> QED
      BY <1>4, <3>1, <3>2, <3>3
  <2>3. u[i] = l[i]
    BY <1>3
  <2>4. l[i].start < n + 1
    BY <2>1
  <2> QED
    BY <2>1, <2>2, <2>3, <2>4
<1>7. ASSUME NEW i \in 1 .. m + 1
      PROVE  /\ u[i].start \in 1 .. n + y
             /\ i = 1 => u[i].start = 1
             /\ u[i].whole => IsGoodBlock(k, u[i].start)
             /\ u[i].whole => Behind(k, u[i].start) = StartBehind(k, u, i)
  <2>1. CASE i = m + 1
    <3>1. u[i] = e /\ e.start = n + 1 /\ StartBehind(k, u, i) = n + y + 1
      BY <1>1, <1>2, <1>3, <2>1 DEF StartBehind
    <3>2. i = 1 => n = 0
      BY <1>1, <2>1 DEF Aligned
    <3> QED
      BY <1>5, <3>1, <3>2
  <2>2. CASE i \in 1 .. m
    <3>1. StartBehind(f, l, i) = StartBehind(k, u, i)
      <4>1. CASE i = m
        BY <1>1, <1>3, <2>2, <4>1 DEF StartBehind
      <4>2. CASE i # m
        <5>1. i + 1 \in 1 .. m /\ i # m + 1
          BY <2>2, <4>2
        <5> QED
          BY <1>1, <1>3, <4>2, <5>1 DEF StartBehind
      <4> QED
        BY <4>1, <4>2
    <3>2. u[i].start \in 1 .. n + y
      BY <1>6, <2>2
    <3> QED
      BY <1>6, <2>2, <3>1, <3>2
  <2> QED
    BY <2>1, <2>2
<1>8. ASSUME NEW i \in 1 .. m + 1, NEW j \in 1 .. m + 1, i < j
      PROVE  /\ u[i].start < u[j].start
             /\ u[i].whole => Behind(k, u[i].start) <= u[j].start
  <2>1. i \in 1 .. m
    BY <1>8
  <2>2. CASE j = m + 1
    <3>1. u[j].start = n + 1
      BY <1>1, <1>3, <2>2
    <3> QED
      BY <1>6, <2>1, <3>1
  <2>3. CASE j \in 1 .. m
    <3>1. /\ l[i].start < l[j].start
          /\ l[i].whole => Behind(f, l[i].start) <= l[j].start /\ IsGoodBlock(f, l[i].start)
      BY <1>1, <1>8, <2>1, <2>3 DEF Aligned
    <3>2. u[i] = l[i] /\ u[j] = l[j]
      BY <1>3, <2>1, <2>3
    <3>3. l[i].start \in 1 .. n
      BY <1>6, <2>1, <3>2
    <3>4. l[i].start \in Nat \ {0}
      BY <3>3
    <3> QED
      BY <1>4, <3>1, <3>2, <3>4
  <2> QED
    BY <2>2, <2>3
<1>9. Len(u) # 0
  BY <1>3
<1>10. Aligned(k, u)
  BY <1>2, <1>3, <1>7, <1>8, <1>9 DEF Aligned
<1> QED
  BY <1>10 DEF k, u

-----------------------------------------------------------------------------
(* The steps keep the blocks in line.                                      *)

\* A block that is flushed has payload and, on its way, a header and an end.
FlushInv ==
  /\ at = "tail" => Len(given) # 0
  /\ at \in {"clear", "file"} => IsBlock(chunk)

AlignInv == FlushInv /\ Aligned(file, log)

LEMMA AlignRests ==
  ASSUME AlignInv, UNCHANGED <<chunk, given, file, log>>,
         at' \in {"tail", "clear", "file"} => at' = at \/ (at = "clear" /\ at' = "file")
  PROVE  AlignInv'
BY DEF AlignInv, FlushInv

LEMMA AlignTail ==
  ASSUME BlockInv, AlignInv, FlushTail
  PROVE  AlignInv'
<1>1. /\ at = "tail" /\ at' = "clear" /\ given' = given /\ file' = file /\ log' = log
      /\ mem' = Put(mem, length + 1, <<MagicEnd>>)
      /\ length' = length + TailerLen /\ chunk' = SubSeq(mem', 1, length')
  BY DEF FlushTail
<1>2. mem \in Memory /\ given \in Seq(Nat)
  BY DEF BlockInv, BlockTypes, Memory
<1>3. PICK L \in Nat \ {0} : L = Len(given)
  BY <1>1, <1>2 DEF AlignInv, FlushInv
<1>4. /\ mem[1] = Magic /\ mem[4] = L /\ length = 4 + L /\ 4 + L + 1 <= BlockMax
  BY <1>1, <1>3, Lengths DEF BlockInv, SizeInv
<1>5. Stored(mem', mem, length + 1, <<MagicEnd>>)
  <2>1. <<MagicEnd>> \in Seq(Nat) /\ length + 1 \in Nat
    BY <1>4 DEF MagicEnd
  <2> QED
    BY <1>1, <1>2, <2>1, PutStores
<1>6. mem' \in Memory /\ mem'[1] = Magic /\ mem'[4] = L /\ mem'[4 + L + 1] = MagicEnd
  <2>1. mem' \in Memory
    BY <1>5 DEF Stored
  <2>2. 1 \in 1 .. BlockMax /\ 1 < length + 1 /\ 4 \in 1 .. BlockMax /\ 4 < length + 1
    BY <1>4, Lengths
  <2>3. /\ 4 + L + 1 = length + 1 /\ 4 + L + 1 \in 1 .. BlockMax
        /\ Len(<<MagicEnd>>) = 1 /\ <<MagicEnd>>[1] = MagicEnd
    BY <1>4, Lengths
  <2>4. mem'[1] = mem[1] /\ mem'[4] = mem[4]
    BY <1>5, <2>2 DEF Stored
  <2>5. mem'[4 + L + 1] = MagicEnd
    <3>1. length + 1 - (length + 1) + 1 = 1 /\ length + 1 < length + 1 + 1
      BY <1>4
    <3> QED
      BY <1>5, <2>3, <3>1 DEF Stored
  <2> QED
    BY <1>4, <2>1, <2>4, <2>5
<1>7. IsBlock(chunk')
  <2>1. PICK n \in Nat : n = 4 + L + 1 /\ n <= BlockMax /\ length' = n
    BY <1>1, <1>4, Lengths
  <2>2. \A i \in 1 .. n : i \in 1 .. BlockMax
    BY <2>1, Lengths
  <2>3. \A i \in 1 .. n : mem'[i] \in Nat
    BY <1>6, <2>2 DEF Memory
  <2>4. /\ SubSeq(mem', 1, n) \in Seq(Nat) /\ Len(SubSeq(mem', 1, n)) = n
        /\ \A i \in 1 .. n : SubSeq(mem', 1, n)[i] = mem'[i]
    BY <2>3, Prefix
  <2>5. 1 \in 1 .. n /\ 4 \in 1 .. n /\ n \in 1 .. n
    BY <2>1
  <2>6. /\ chunk' \in Seq(Nat) /\ Len(chunk') = n /\ chunk'[1] = Magic /\ chunk'[4] = L
        /\ chunk'[n] = MagicEnd
    BY <1>1, <1>6, <2>1, <2>4, <2>5
  <2> QED
    BY <2>1, <2>6, Lengths DEF IsBlock
<1> QED
  BY <1>1, <1>7 DEF AlignInv, FlushInv

LEMMA AlignFile ==
  ASSUME BlockInv, AlignInv, FileWrite
  PROVE  AlignInv'
<1>1. /\ at = "file" /\ at' = "idle" /\ file' = file \o chunk /\ log' = Append(log, Entry(TRUE))
  BY DEF FileWrite
<1>2. /\ file \in Seq(Nat) /\ log \in Seq(Entries) /\ given \in Seq(Nat) /\ recovered \in BOOLEAN
  BY DEF BlockInv, BlockTypes
<1>3. IsBlock(chunk) /\ Aligned(file, log)
  BY <1>1 DEF AlignInv, FlushInv
<1>4. Entry(TRUE) \in Entries /\ Entry(TRUE).start = Len(file) + 1
  <2>1. Len(file) + 1 \in Nat
    BY <1>2
  <2> QED
    BY <1>2, <2>1 DEF Entry, Entries
<1>5. chunk \in Seq(Nat) /\ Len(chunk) # 0
  <2>1. chunk \in Seq(Nat) /\ chunk[4] \in Nat /\ Len(chunk) = 4 + chunk[4] + 1
    BY <1>3, Lengths DEF IsBlock
  <2> QED
    BY <2>1
<1>6. Aligned(file', log')
  BY <1>1, <1>2, <1>3, <1>4, <1>5, AlignedGrows
<1> QED
  BY <1>1, <1>6 DEF AlignInv, FlushInv

\* What a synchronous write puts into the file.
LEMMA SyncBlock ==
  ASSUME BlockInv, WriteSync
  PROVE  \E c \in Seq(Nat), e \in Entries :
           /\ IsBlock(c) /\ c[3] = hour /\ file' = file \o c
           /\ log' = Append(log, e) /\ e.start = Len(file) + 1 /\ e.whole
<1>1. PICK data \in Payloads :
        /\ file' = file \o Header(Len(data)) \o data \o <<MagicEnd>>
        /\ log' = Append(log, [start |-> Len(file) + 1, whole |-> TRUE, payload |-> data,
                               sync |-> TRUE, recovered |-> FALSE])
  BY DEF WriteSync
<1>2. file \in Seq(Nat) /\ log \in Seq(Entries) /\ hour \in Nat
  BY BlockConstants DEF BlockInv, BlockTypes
<1>3. PICK L \in Nat \ {0} : L = Len(data) /\ data \in Seq(Nat)
  BY PayloadCells
<1>4. PICK head \in Seq(Nat) :
        /\ head = Header(L) /\ Len(head) = 4
        /\ head[1] = Magic /\ head[3] = hour /\ head[4] = L
  BY <1>2, HeaderCells
<1>5. PICK tail \in Seq(Nat) : tail = <<MagicEnd>>
  <2>1. <<MagicEnd>> \in Seq(Nat)
    BY DEF MagicEnd
  <2> QED
    BY <2>1, Zenon
<1>6. Len(tail) = 1 /\ tail[1] = MagicEnd
  BY <1>5
<1>7. file' = ((file \o head) \o data) \o tail
  BY <1>1, <1>3, <1>4, <1>5
<1>8. PICK c \in Seq(Nat) : IsBlock(c) /\ c[3] = hour /\ file' = file \o c
  <2>1. Len(head) = 4 /\ head[1] = Magic /\ head[4] = L /\ Len(data) = L
    BY <1>3, <1>4
  <2>2. data \in Seq(Nat) /\ file \in Seq(Nat) /\ L \in Nat \ {0}
    BY <1>2, <1>3
  <2>3. IsBlock((head \o data) \o tail) /\ ((head \o data) \o tail)[3] = head[3]
    BY <1>6, <2>1, <2>2, BlockOfParts
  <2>4. (file \o head) \o data = file \o (head \o data)
    BY <2>2, Associates, SMTT(30)
  <2>5. PICK a \in Seq(Nat) : a = head \o data
    BY <2>2, Joined
  <2>6. (file \o a) \o tail = file \o (a \o tail)
    BY <2>2, Associates, SMTT(30)
  <2>7. PICK c \in Seq(Nat) : c = a \o tail
    BY Joined
  <2>8. file' = file \o c
    BY <1>7, <2>4, <2>5, <2>6, <2>7, Zenon
  <2>9. c = (head \o data) \o tail
    BY <2>5, <2>7, Zenon
  <2> QED
    BY <1>4, <2>3, <2>8, <2>9, Zenon
<1>9. PICK e \in Entries : log' = Append(log, e) /\ e.start = Len(file) + 1 /\ e.whole
  <2> DEFINE e == [start |-> Len(file) + 1, whole |-> TRUE, payload |-> data,
                   sync |-> TRUE, recovered |-> FALSE]
  <2>1. Len(file) + 1 \in Nat
    BY <1>2
  <2>2. e \in Entries
    BY <1>3, <2>1 DEF Entries
  <2> QED
    BY <1>1, <2>2
<1> QED
  BY <1>8, <1>9

LEMMA AlignSync ==
  ASSUME BlockInv, AlignInv, WriteSync
  PROVE  AlignInv'
<1>1. at = "idle" /\ at' = at
  BY DEF WriteSync
<1>2. PICK c \in Seq(Nat), e \in Entries :
        /\ IsBlock(c) /\ file' = file \o c
        /\ log' = Append(log, e) /\ e.start = Len(file) + 1 /\ e.whole
  BY SyncBlock
<1>3. file \in Seq(Nat) /\ log \in Seq(Entries)
  BY DEF BlockInv, BlockTypes
<1>4. Len(c) # 0
  <2>1. c \in Seq(Nat) /\ c[4] \in Nat /\ Len(c) = 4 + c[4] + 1
    BY <1>2, Lengths DEF IsBlock
  <2> QED
    BY <2>1
<1>5. Aligned(file', log')
  BY <1>2, <1>3, <1>4, AlignedGrows DEF AlignInv
<1> QED
  BY <1>1, <1>5 DEF AlignInv, FlushInv

LEMMA AlignCrash ==
  ASSUME BlockInv, AlignInv, Crash
  PROVE  AlignInv'
<1>1. at' = "dead"
  BY DEF Crash
<1>2. CASE UNCHANGED <<file, log>>
  BY <1>1, <1>2 DEF AlignInv, FlushInv
<1>3. CASE \E n \in 1 .. Len(chunk) - 1 :
             file' = file \o SubSeq(chunk, 1, n) /\ log' = Append(log, Entry(FALSE))
  <2>1. PICK n \in 1 .. Len(chunk) - 1 :
          file' = file \o SubSeq(chunk, 1, n) /\ log' = Append(log, Entry(FALSE))
    BY <1>3
  <2>2. /\ file \in Seq(Nat) /\ log \in Seq(Entries) /\ given \in Seq(Nat)
        /\ recovered \in BOOLEAN /\ chunk \in Seq(Nat)
    BY DEF BlockInv, BlockTypes
  <2>3. SubSeq(chunk, 1, n) \in Seq(Nat) /\ Len(SubSeq(chunk, 1, n)) = n /\ n # 0
    <3>1. n \in Nat /\ \A i \in 1 .. n : i \in 1 .. Len(chunk)
      BY <2>2
    <3>2. \A i \in 1 .. n : chunk[i] \in Nat
      BY <2>2, <3>1
    <3> QED
      BY <3>1, <3>2, Prefix
  <2>4. Entry(FALSE) \in Entries /\ ~Entry(FALSE).whole /\ Entry(FALSE).start = Len(file) + 1
    <3>1. Len(file) + 1 \in Nat
      BY <2>2
    <3> QED
      BY <2>2, <3>1 DEF Entry, Entries
  <2>5. Aligned(file', log')
    BY <2>1, <2>2, <2>3, <2>4, AlignedGrows DEF AlignInv
  <2> QED
    BY <1>1, <2>5 DEF AlignInv, FlushInv
<1> QED
  BY <1>2, <1>3 DEF Crash

LEMMA EmptyAligned == Aligned(<<>>, <<>>)
BY DEF Aligned

LEMMA AlignStep ==
  ASSUME BlockInv, AlignInv, [Next]_vars
  PROVE  AlignInv'
<1>1. CASE Crash
  BY <1>1, AlignCrash
<1>2. CASE WriteCompress \/ WriteCrypt
  <2>1. UNCHANGED <<chunk, given, file, log>>
    BY <1>2 DEF WriteCompress, WriteCrypt
  <2>2. at' \in {at, "crypt", "len", "dying"}
    BY <1>2 DEF WriteCompress, WriteCrypt
  <2> QED
    BY <2>1, <2>2, AlignRests
<1>3. CASE WriteLen \/ FlushEmpty \/ Fix
  BY <1>3 DEF WriteLen, FlushEmpty, Fix, AlignInv, FlushInv
<1>4. CASE FlushHour
  <2>1. /\ StoredLen # 0 /\ at' = "tail" /\ UNCHANGED <<given, file, log>>
    BY <1>4 DEF FlushHour
  <2>2. Len(given) # 0
    BY <2>1 DEF StoredLen, BlockInv, SizeInv
  <2> QED
    BY <2>1, <2>2 DEF AlignInv, FlushInv
<1>5. CASE FlushTail
  BY <1>5, AlignTail
<1>6. CASE FlushClear
  <2>1. /\ UNCHANGED <<chunk, given, file, log>> /\ at = "clear" /\ at' \in {"file", "dying"}
    BY <1>6 DEF FlushClear
  <2> QED
    BY <2>1, AlignRests
<1>7. CASE FileWrite
  BY <1>7, AlignFile
<1>8. CASE WriteSync
  BY <1>8, AlignSync
<1>9. CASE Tick
  BY <1>9, EmptyAligned DEF Tick, AlignInv, FlushInv
<1>10. CASE UNCHANGED vars
  BY <1>10 DEF vars, AlignInv, FlushInv
<1> QED
  BY <1>1, <1>2, <1>3, <1>4, <1>5, <1>6, <1>7, <1>8, <1>9, <1>10 DEF Next

LEMMA AlignHolds == Spec => []AlignInv
<1>1. Init => AlignInv
  BY EmptyAligned DEF Init, AlignInv, FlushInv
<1>2. BlockInv /\ AlignInv /\ [Next]_vars => AlignInv'
  BY AlignStep
<1> QED
  BY <1>1, <1>2, BlockSafe, PTL DEF Spec

-----------------------------------------------------------------------------
(* What the readers find.                                                  *)

\* What is read from cell p on, good being what passes for a block.
From(good, p) == BlocksFrom(file, p, good)

\* The file, and the scan over it.
Scanned(good) ==
  /\ Len(file) \in Nat /\ Len(log) \in Nat /\ DOMAIN log = 1 .. Len(log)
  /\ good \subseteq 1 .. Len(file)
  /\ From(good, Len(file) + 1) = {}
  /\ \A q \in good :
       /\ Behind(file, q) \in q + 1 .. Len(file) + 1
       /\ From(good, q) = {q} \cup From(good, Behind(file, q))
  /\ \A q \in From(good, 1) : q \in good /\ From(good, q) \subseteq From(good, 1)
  /\ \A i \in 1 .. Len(log) : log[i].whole => log[i].start \in good

LEMMA FileScanned ==
  ASSUME BlockInv, AlignInv, NEW good, Leads(file, good), GoodBlocks(file) \subseteq good
  PROVE  Scanned(good)
<1>1. file \in Seq(Nat) /\ log \in Seq(Entries)
  BY DEF BlockInv, BlockTypes
<1>2. Len(file) \in Nat /\ Len(log) \in Nat /\ DOMAIN log = 1 .. Len(log)
  BY <1>1
<1>3. /\ good \subseteq 1 .. Len(file)
      /\ \A q \in good : Behind(file, q) \in q + 1 .. Len(file) + 1
  BY DEF Leads
<1>4. /\ From(good, Len(file) + 1) = {}
      /\ \A q \in good : From(good, q) = {q} \cup From(good, Behind(file, q))
  BY <1>3, ScanStep DEF From
<1>5. \A q \in From(good, 1) : q \in good /\ From(good, q) \subseteq From(good, 1)
  <2>1. 1 \in 1 .. Len(file) + 1
    BY <1>2
  <2> QED
    BY <2>1, ScanReads DEF From
<1>6. ASSUME NEW i \in 1 .. Len(log), log[i].whole
      PROVE  log[i].start \in good
  <2>1. log[i].start \in 1 .. Len(file) /\ IsGoodBlock(file, log[i].start)
    BY <1>6 DEF AlignInv, Aligned
  <2>2. DOMAIN file = 1 .. Len(file)
    BY <1>1
  <2>3. log[i].start \in GoodBlocks(file)
    BY <2>1, <2>2 DEF GoodBlocks
  <2> QED
    BY <2>3
<1> QED
  BY <1>2, <1>3, <1>4, <1>5, <1>6 DEF Scanned

LEMMA WholeStart ==
  ASSUME NEW good, Scanned(good)
  PROVE  \A p : p \in WholeStarts <=> \E i \in 1 .. Len(log) : log[i].whole /\ p = log[i].start
BY DEF Scanned, WholeStarts

\* Behind a block that is read, or at the start of the file, a whole block
\* is read.
LEMMA InStep ==
  ASSUME AlignInv, NEW good, Scanned(good), NEW i \in 1 .. Len(log), log[i].whole,
         i > 1 => log[i - 1].whole /\ log[i - 1].start \in From(good, 1)
  PROVE  log[i].start \in From(good, 1)
<1>1. log[i].start \in From(good, log[i].start)
  BY DEF Scanned
<1>2. CASE i = 1
  BY <1>1, <1>2 DEF AlignInv, Aligned
<1>3. CASE i > 1
  <2>1. PICK k : k = i - 1
    OBVIOUS
  <2>2. k \in 1 .. Len(log) /\ k # Len(log) /\ k + 1 = i
    BY <1>3, <2>1 DEF Scanned
  <2>3. log[k].whole /\ log[k].start \in From(good, 1)
    BY <1>3, <2>1
  <2>4. Behind(file, log[k].start) = log[i].start
    BY <2>2, <2>3 DEF AlignInv, Aligned, StartBehind
  <2>5. From(good, log[k].start) \subseteq From(good, 1) /\ log[k].start \in good
    BY <2>3 DEF Scanned
  <2>6. From(good, log[i].start) \subseteq From(good, log[k].start)
    <3>1. \A q \in good : From(good, q) = {q} \cup From(good, Behind(file, q))
      BY DEF Scanned
    <3>2. From(good, log[k].start) =
            {log[k].start} \cup From(good, Behind(file, log[k].start))
      BY <2>5, <3>1
    <3> QED
      BY <2>4, <3>2
  <2> QED
    BY <1>1, <2>5, <2>6
<1> QED
  BY <1>2, <1>3 DEF Scanned

\* Of a file without a torn block the whole ones are read ...
LEMMA WholeRead ==
  ASSUME AlignInv, NEW good, Scanned(good), ~Torn
  PROVE  WholeStarts \subseteq From(good, 1)
<1> DEFINE T == {i \in 1 .. Len(log) : log[i].start \notin From(good, 1)}
<1>1. \A i \in 1 .. Len(log) : log[i].whole
  BY DEF Torn, Scanned
<1>2. T = {}
  <2> SUFFICES ASSUME T # {} PROVE FALSE
    OBVIOUS
  <2>1. PICK m \in T : \A k \in T : m <= k
    <3>1. T \in SUBSET Nat
      OBVIOUS
    <3> HIDE DEF T
    <3> QED
      BY <3>1, LeastOf
  <2>2. ASSUME m > 1 PROVE log[m - 1].whole /\ log[m - 1].start \in From(good, 1)
    <3>1. PICK k : k = m - 1
      OBVIOUS
    <3>2. k \in 1 .. Len(log) /\ ~(m <= k)
      BY <2>1, <2>2, <3>1 DEF Scanned
    <3>3. k \notin T
      BY <2>1, <3>2
    <3> QED
      BY <1>1, <3>1, <3>2, <3>3
  <2>3. m \in 1 .. Len(log) /\ log[m].whole /\ log[m].start \notin From(good, 1)
    BY <1>1, <2>1
  <2> QED
    BY <2>2, <2>3, InStep
<1> QED
  BY <1>2, WholeStart

\* ... and nothing else.
LEMMA OnlyWholeRead ==
  ASSUME AlignInv, NEW good, Scanned(good), ~Torn
  PROVE  From(good, 1) \subseteq WholeStarts
<1>1. PICK n \in Nat, m \in Nat : n = Len(file) /\ m = Len(log)
  BY DEF Scanned
<1> DEFINE S == {p \in 1 .. n + 1 : p = n + 1 \/ p \in WholeStarts => From(good, p) \subseteq WholeStarts}
<1>2. n + 1 \in S
  BY <1>1 DEF Scanned
<1>3. ASSUME NEW p \in 1 .. n, \A q \in p + 1 .. n + 1 : q \in S
      PROVE  p \in S
  <2>1. CASE p \in WholeStarts
    <3>1. PICK i \in 1 .. m : log[i].whole /\ p = log[i].start
      BY <1>1, <2>1, WholeStart
    <3>2. p \in good
      BY <1>1, <3>1 DEF Scanned
    <3>3. Behind(file, p) \in p + 1 .. n + 1 /\ From(good, p) = {p} \cup From(good, Behind(file, p))
      BY <1>1, <3>2 DEF Scanned
    <3>4. Behind(file, p) = StartBehind(file, log, i)
      BY <1>1, <3>1 DEF AlignInv, Aligned
    <3>5. Behind(file, p) = n + 1 \/ Behind(file, p) \in WholeStarts
      <4>1. CASE i = m
        BY <1>1, <3>4, <4>1 DEF StartBehind
      <4>2. CASE i # m
        <5>1. i + 1 \in 1 .. m
          BY <4>2
        <5>2. log[i + 1].whole
          BY <1>1, <5>1 DEF Torn, Scanned
        <5> QED
          BY <1>1, <3>4, <4>2, <5>1, <5>2, WholeStart DEF StartBehind
      <4> QED
        BY <4>1, <4>2
    <3>6. From(good, Behind(file, p)) \subseteq WholeStarts
      BY <1>3, <3>3, <3>5
    <3> QED
      BY <2>1, <3>3, <3>6
  <2>2. CASE p \notin WholeStarts
    BY <2>2
  <2> QED
    BY <2>1, <2>2
<1>4. 1 \in S
  <2>1. 1 \in 1 .. n + 1
    OBVIOUS
  <2> HIDE DEF S
  <2> QED
    BY <1>2, <1>3, <2>1, Backwards
<1>5. 1 = n + 1 \/ 1 \in WholeStarts
  <2>1. CASE m = 0
    BY <1>1, <2>1 DEF AlignInv, Aligned
  <2>2. CASE m # 0
    <3>1. 1 \in 1 .. m
      BY <2>2
    <3>2. log[1].whole /\ log[1].start = 1
      BY <1>1, <3>1 DEF AlignInv, Aligned, Torn, Scanned
    <3> QED
      BY <1>1, <3>1, <3>2, WholeStart
  <2> QED
    BY <2>1, <2>2
<1> QED
  BY <1>4, <1>5

\* What the two decoders take for a block leads from block to block.
LEMMA GoodScanned ==
  ASSUME BlockInv, AlignInv
  PROVE  Leads(file, GoodBlocks(file)) /\ Scanned(GoodBlocks(file))
<1>1. Leads(file, GoodBlocks(file))
  BY GoodLeads DEF BlockInv, BlockTypes
<1> QED
  BY <1>1, FileScanned

LEMMA LossAtTear ==
  ASSUME BlockInv, AlignInv
  PROVE  LossStartsAtTear
<1>1. PICK good : good = GoodBlocks(file)
  OBVIOUS
<1>2. Scanned(good)
  BY <1>1, GoodScanned
<1>3. DartBlocks(file) = From(good, 1)
  BY <1>1 DEF DartBlocks, From
<1>4. ASSUME NEW i \in DOMAIN log, log[i].whole,
             i > 1 => log[i - 1].whole /\ log[i - 1].start \in From(good, 1)
      PROVE  log[i].start \in From(good, 1)
  <2>1. i \in 1 .. Len(log)
    BY <1>2 DEF Scanned
  <2> QED
    BY <1>2, <1>4, <2>1, InStep
<1>5. ~Torn => From(good, 1) = WholeStarts
  BY <1>2, WholeRead, OnlyWholeRead
<1> QED
  BY <1>3, <1>4, <1>5 DEF LossStartsAtTear

\* The script starts at a whole block, which what is good before it leads to.
LEMMA PortAsMuch ==
  ASSUME BlockInv, AlignInv
  PROVE  PortReadsAsMuch
<1>1. PICK good, starts : good = GoodBlocks(file) /\ starts = ScriptStarts(file)
  OBVIOUS
<1>2. Leads(file, good) /\ Scanned(good)
  BY <1>1, GoodScanned
<1> SUFFICES ASSUME \A p \in good \ WholeStarts : \E q \in starts : q < p, starts # {}
             PROVE  From(good, Min(starts)) \subseteq From(good, 1)
  BY <1>1 DEF PortReadsAsMuch, ScriptBlocks, DartBlocks, From
<1>3. PICK n \in Nat : n = Len(file)
  BY <1>2 DEF Scanned
<1>4. starts \subseteq good /\ good \subseteq 1 .. n
  BY <1>1, <1>2, <1>3 DEF ScriptStarts, Scanned
<1>5. PICK z \in starts : z = Min(starts) /\ \A q \in starts : z <= q
  <2>1. starts \in SUBSET Nat
    BY <1>4
  <2>2. \E m \in starts : \A k \in starts : m <= k
    BY <2>1, LeastOf
  <2> QED
    BY <2>2, Zenon DEF Min
<1>6. z \in 1 .. n + 1 /\ z \in 1 .. n
  BY <1>4, <1>5
<1>7. ASSUME NEW p \in good, p <= z
      PROVE  \E i \in 1 .. Len(log) : log[i].whole /\ p = log[i].start
  <2>1. ~\E q \in starts : q < p
    <3>1. \A q \in starts : q \in 1 .. n /\ p \in 1 .. n /\ z <= q
      BY <1>4, <1>5
    <3> QED
      BY <1>6, <1>7, <3>1
  <2>2. p \in WholeStarts
    BY <2>1
  <2> QED
    BY <1>2, <2>2, WholeStart
<1>8. ASSUME NEW p \in good, p < z
      PROVE  Behind(file, p) <= z
  <2>1. p <= z /\ z <= z
    BY <1>4, <1>6, <1>8
  <2>2. PICK i \in 1 .. Len(log) : log[i].whole /\ p = log[i].start
    BY <1>7, <2>1
  <2>3. PICK j \in 1 .. Len(log) : log[j].whole /\ z = log[j].start
    BY <1>4, <1>5, <1>7, <2>1
  <2>4. i < j
    <3>1. j < i => z < p
      BY <2>2, <2>3 DEF AlignInv, Aligned
    <3>2. i # j /\ ~(z < p)
      BY <1>4, <1>6, <1>8, <2>2, <2>3
    <3> QED
      BY <1>2, <3>1, <3>2 DEF Scanned
  <2> QED
    BY <2>2, <2>3, <2>4 DEF AlignInv, Aligned
<1>9. From(good, z) \subseteq From(good, 1)
  <2>1. z \in 1 .. Len(file) + 1
    BY <1>3, <1>6
  <2> QED
    BY <1>2, <1>8, <2>1, ScanArrives DEF From
<1> QED
  BY <1>5, <1>9

-----------------------------------------------------------------------------
(* The hours in the headers of a day never fall.                           *)

\* No whole block of log l ends later than in hour h, nor earlier than one
\* before it.
Hours(f, l, h) ==
  /\ \A i \in 1 .. Len(l) : l[i].whole => EndHour(f, l[i].start) <= h
  /\ \A i, j \in 1 .. Len(l) :
       i < j /\ l[i].whole /\ l[j].whole =>
         EndHour(f, l[i].start) <= EndHour(f, l[j].start)

\* The clock stands still between the stamp on a block and the file.
HourInv ==
  /\ at = "tail" => mem[3] = hour
  /\ at \in {"clear", "file"} => chunk[3] = hour
  /\ Hours(file, log, hour)

LEMMA EndHourStays ==
  ASSUME NEW f \in Seq(Nat), NEW c \in Seq(Nat), NEW p \in Nat \ {0}, IsGoodBlock(f, p)
  PROVE  EndHour(f \o c, p) = EndHour(f, p) /\ EndHour(f, p) \in Nat
<1> DEFINE k == f \o c
<1>1. PICK n \in Nat : n = Len(f)
  OBVIOUS
<1>2. \A i \in 1 .. n : k[i] = f[i] /\ f[i] \in Nat
  BY <1>1, Joined
<1> HIDE DEF k
<1>3. p + 5 <= n
  BY <1>1, Lengths DEF IsGoodBlock
<1>4. p + 2 \in 1 .. n
  BY <1>3
<1>5. EndHour(k, p) = EndHour(f, p) /\ EndHour(f, p) \in Nat
  BY <1>2, <1>4 DEF EndHour
<1> QED
  BY <1>5 DEF k

LEMMA HoursGrow ==
  ASSUME NEW f \in Seq(Nat), NEW l \in Seq(Entries), Aligned(f, l), NEW h \in Nat, Hours(f, l, h),
         NEW c \in Seq(Nat), NEW e \in Entries, e.start = Len(f) + 1,
         e.whole => IsBlock(c) /\ c[3] = h
  PROVE  Hours(f \o c, Append(l, e), h)
<1> DEFINE k == f \o c
           u == Append(l, e)
<1>1. PICK n \in Nat, m \in Nat : n = Len(f) /\ m = Len(l)
  OBVIOUS
<1>2. Len(u) = m + 1 /\ u[m + 1] = e /\ \A i \in 1 .. m : u[i] = l[i]
  BY <1>1
<1>3. ASSUME NEW i \in 1 .. m, l[i].whole
      PROVE  EndHour(k, l[i].start) = EndHour(f, l[i].start) /\ EndHour(f, l[i].start) <= h
  <2>1. l[i].start \in 1 .. Len(f) /\ IsGoodBlock(f, l[i].start)
    BY <1>1, <1>3 DEF Aligned
  <2>2. l[i].start \in Nat \ {0}
    BY <2>1
  <2>3. EndHour(f, l[i].start) <= h
    BY <1>1, <1>3 DEF Hours
  <2> QED
    BY <2>1, <2>2, <2>3, EndHourStays
<1>4. e.whole => EndHour(k, n + 1) = h
  <2> SUFFICES ASSUME e.whole PROVE EndHour(k, n + 1) = h
    OBVIOUS
  <2>1. k[n + 3] = c[3]
    <3>1. c \in Seq(Nat) /\ c[4] \in Nat /\ Len(c) = 4 + c[4] + 1
      BY Lengths DEF IsBlock
    <3>2. 3 \in 1 .. Len(c)
      BY <3>1
    <3> QED
      BY <1>1, <3>2, Joined
  <2>2. n + 1 + 2 = n + 3
    OBVIOUS
  <2> QED
    BY <2>1, <2>2 DEF EndHour
<1> HIDE DEF k, u
<1>5. ASSUME NEW i \in 1 .. m + 1, u[i].whole
      PROVE  EndHour(k, u[i].start) <= h
  <2>1. CASE i = m + 1
    <3>1. EndHour(k, u[i].start) = h
      BY <1>1, <1>2, <1>4, <1>5, <2>1
    <3> QED
      BY <3>1
  <2>2. CASE i \in 1 .. m
    BY <1>2, <1>3, <1>5, <2>2
  <2> QED
    BY <2>1, <2>2
<1>6. ASSUME NEW i \in 1 .. m + 1, NEW j \in 1 .. m + 1, i < j, u[i].whole, u[j].whole
      PROVE  EndHour(k, u[i].start) <= EndHour(k, u[j].start)
  <2>1. i \in 1 .. m
    BY <1>6
  <2>2. CASE j = m + 1
    <3>1. EndHour(k, u[j].start) = h
      BY <1>1, <1>2, <1>4, <1>6, <2>2
    <3> QED
      BY <1>5, <1>6, <3>1
  <2>3. CASE j \in 1 .. m
    <3>1. l[i].whole /\ l[j].whole /\ u[i] = l[i] /\ u[j] = l[j]
      BY <1>2, <1>6, <2>1, <2>3
    <3>2. EndHour(f, l[i].start) <= EndHour(f, l[j].start)
      BY <1>1, <1>6, <2>1, <2>3, <3>1 DEF Hours
    <3> QED
      BY <1>3, <2>1, <2>3, <3>1, <3>2
  <2> QED
    BY <2>2, <2>3
<1>7. Hours(k, u, h)
  BY <1>2, <1>5, <1>6 DEF Hours
<1> QED
  BY <1>7 DEF k, u

LEMMA HourTail ==
  ASSUME BlockInv, HourInv, FlushTail
  PROVE  HourInv'
<1>1. /\ at = "tail" /\ at' = "clear" /\ given' = given /\ file' = file /\ log' = log
      /\ hour' = hour /\ mem' = Put(mem, length + 1, <<MagicEnd>>)
      /\ length' = length + TailerLen /\ chunk' = SubSeq(mem', 1, length')
  BY DEF FlushTail
<1>2. mem \in Memory /\ given \in Seq(Nat)
  BY DEF BlockInv, BlockTypes, Memory
<1>3. PICK L \in Nat : L = Len(given)
  BY <1>2
<1>4. /\ length = 4 + L /\ 4 + L + 1 <= BlockMax
  BY <1>1, <1>3, Lengths DEF BlockInv, SizeInv
<1>5. Stored(mem', mem, length + 1, <<MagicEnd>>)
  <2>1. <<MagicEnd>> \in Seq(Nat) /\ length + 1 \in Nat
    BY <1>4 DEF MagicEnd
  <2> QED
    BY <1>1, <1>2, <2>1, PutStores
<1>6. mem' \in Memory /\ mem'[3] = mem[3]
  <2>1. 3 \in 1 .. BlockMax /\ 3 < length + 1
    BY <1>4, Lengths
  <2> QED
    BY <1>5, <2>1 DEF Stored
<1>7. chunk'[3] = mem'[3]
  <2>1. PICK n \in Nat : n = 4 + L + 1 /\ n <= BlockMax /\ length' = n
    BY <1>1, <1>4, Lengths
  <2>2. \A i \in 1 .. n : i \in 1 .. BlockMax
    BY <2>1, Lengths
  <2>3. \A i \in 1 .. n : mem'[i] \in Nat
    BY <1>6, <2>2 DEF Memory
  <2>4. \A i \in 1 .. n : SubSeq(mem', 1, n)[i] = mem'[i]
    BY <2>3, Prefix
  <2>5. 3 \in 1 .. n
    BY <2>1
  <2> QED
    BY <1>1, <2>1, <2>4, <2>5
<1> QED
  BY <1>1, <1>6, <1>7 DEF HourInv

LEMMA HourStep ==
  ASSUME BlockInv, AlignInv, HourInv, [Next]_vars
  PROVE  HourInv'
<1>1. CASE Crash
  <2>1. at' = "dead" /\ hour' = hour
    BY <1>1 DEF Crash
  <2>2. Hours(file', log', hour)
    <3>1. CASE UNCHANGED <<file, log>>
      BY <3>1 DEF HourInv
    <3>2. CASE \E n \in 1 .. Len(chunk) - 1 :
                 file' = file \o SubSeq(chunk, 1, n) /\ log' = Append(log, Entry(FALSE))
      <4>1. PICK n \in 1 .. Len(chunk) - 1 :
              file' = file \o SubSeq(chunk, 1, n) /\ log' = Append(log, Entry(FALSE))
        BY <3>2
      <4>2. /\ file \in Seq(Nat) /\ log \in Seq(Entries) /\ given \in Seq(Nat)
            /\ recovered \in BOOLEAN /\ chunk \in Seq(Nat) /\ hour \in Nat
        BY BlockConstants DEF BlockInv, BlockTypes
      <4>3. SubSeq(chunk, 1, n) \in Seq(Nat)
        <5>1. n \in Nat /\ \A i \in 1 .. n : i \in 1 .. Len(chunk)
          BY <4>2
        <5>2. \A i \in 1 .. n : chunk[i] \in Nat
          BY <4>2, <5>1
        <5> QED
          BY <5>1, <5>2, Prefix
      <4>4. Entry(FALSE) \in Entries /\ ~Entry(FALSE).whole /\ Entry(FALSE).start = Len(file) + 1
        <5>1. Len(file) + 1 \in Nat
          BY <4>2
        <5> QED
          BY <4>2, <5>1 DEF Entry, Entries
      <4>5. Aligned(file, log) /\ Hours(file, log, hour)
        BY DEF AlignInv, HourInv
      <4> QED
        BY <4>1, <4>2, <4>3, <4>4, <4>5, HoursGrow
    <3> QED
      BY <1>1, <3>1, <3>2 DEF Crash
  <2> QED
    BY <2>1, <2>2 DEF HourInv
<1>2. CASE WriteCompress \/ WriteCrypt \/ WriteLen \/ FlushEmpty \/ Fix
  <2>1. UNCHANGED <<file, log, hour>> /\ at' \in {"idle", "crypt", "len", "dying", "fixed"}
    BY <1>2 DEF WriteCompress, WriteCrypt, WriteLen, FlushEmpty, Fix
  <2> QED
    BY <2>1 DEF HourInv
<1>3. CASE FlushHour
  <2>1. mem' = [mem EXCEPT ![3] = hour] /\ at' = "tail" /\ UNCHANGED <<file, log, hour>>
    BY <1>3 DEF FlushHour
  <2>2. mem \in [1 .. BlockMax -> Nat] /\ 3 \in 1 .. BlockMax
    BY Lengths DEF BlockInv, BlockTypes
  <2> QED
    BY <2>1, <2>2 DEF HourInv
<1>4. CASE FlushTail
  BY <1>4, HourTail
<1>5. CASE FlushClear
  <2>1. /\ UNCHANGED <<chunk, file, log, hour>> /\ at = "clear" /\ at' \in {"file", "dying"}
    BY <1>5 DEF FlushClear
  <2> QED
    BY <2>1 DEF HourInv
<1>6. CASE FileWrite
  <2>1. /\ at = "file" /\ at' = "idle" /\ hour' = hour /\ file' = file \o chunk
        /\ log' = Append(log, Entry(TRUE))
    BY <1>6 DEF FileWrite
  <2>2. /\ file \in Seq(Nat) /\ log \in Seq(Entries) /\ given \in Seq(Nat)
        /\ recovered \in BOOLEAN /\ chunk \in Seq(Nat) /\ hour \in Nat
    BY BlockConstants DEF BlockInv, BlockTypes
  <2>3. Entry(TRUE) \in Entries /\ Entry(TRUE).start = Len(file) + 1
    <3>1. Len(file) + 1 \in Nat
      BY <2>2
    <3> QED
      BY <2>2, <3>1 DEF Entry, Entries
  <2>4. IsBlock(chunk) /\ chunk[3] = hour /\ Aligned(file, log) /\ Hours(file, log, hour)
    BY <2>1 DEF AlignInv, FlushInv, HourInv
  <2>5. Hours(file', log', hour)
    BY <2>1, <2>2, <2>3, <2>4, HoursGrow
  <2> QED
    BY <2>1, <2>5 DEF HourInv
<1>7. CASE WriteSync
  <2>1. at = "idle" /\ at' = at /\ hour' = hour
    BY <1>7 DEF WriteSync
  <2>2. PICK c \in Seq(Nat), e \in Entries :
          /\ IsBlock(c) /\ c[3] = hour /\ file' = file \o c
          /\ log' = Append(log, e) /\ e.start = Len(file) + 1 /\ e.whole
    BY <1>7, SyncBlock
  <2>3. file \in Seq(Nat) /\ log \in Seq(Entries) /\ hour \in Nat
    BY BlockConstants DEF BlockInv, BlockTypes
  <2>4. Aligned(file, log) /\ Hours(file, log, hour)
    BY DEF AlignInv, HourInv
  <2>5. Hours(file', log', hour)
    BY <2>2, <2>3, <2>4, HoursGrow
  <2> QED
    BY <2>1, <2>5 DEF HourInv
<1>8. CASE Tick
  <2>1. at \in {"idle", "dead"} /\ at' = at
    BY <1>8 DEF Tick
  <2>2. CASE hour' = hour + 1 /\ UNCHANGED <<file, log>>
    <3>1. hour \in Nat /\ file \in Seq(Nat) /\ log \in Seq(Entries)
      BY BlockConstants DEF BlockInv, BlockTypes
    <3>2. ASSUME NEW i \in 1 .. Len(log), log[i].whole
          PROVE  EndHour(file, log[i].start) <= hour + 1
      <4>1. log[i].start \in 1 .. Len(file) /\ IsGoodBlock(file, log[i].start)
        BY <3>2 DEF AlignInv, Aligned
      <4>2. log[i].start \in Nat \ {0}
        BY <4>1
      <4>3. EndHour(file, log[i].start) \in Nat
        BY <3>1, <4>1, <4>2, EndHourStays
      <4>4. EndHour(file, log[i].start) <= hour
        BY <3>2 DEF HourInv, Hours
      <4> QED
        BY <3>1, <4>3, <4>4
    <3>3. Hours(file, log, hour + 1)
      BY <3>2 DEF HourInv, Hours
    <3> QED
      BY <2>1, <2>2, <3>3 DEF HourInv
  <2>3. CASE log' = <<>>
    <3>1. Len(log') = 0
      BY <2>3
    <3> QED
      BY <2>1, <3>1 DEF HourInv, Hours
  <2> QED
    BY <1>8, <2>2, <2>3 DEF Tick
<1>9. CASE UNCHANGED vars
  BY <1>9 DEF vars, memory, HourInv
<1> QED
  BY <1>1, <1>2, <1>3, <1>4, <1>5, <1>6, <1>7, <1>8, <1>9 DEF Next

LEMMA HourHolds == Spec => []HourInv
<1>1. Init => HourInv
  <2> SUFFICES ASSUME Init PROVE HourInv
    OBVIOUS
  <2>1. at = "idle" /\ log = <<>>
    BY DEF Init
  <2>2. Len(log) = 0
    BY <2>1
  <2> QED
    BY <2>1, <2>2 DEF HourInv, Hours
<1>2. BlockInv /\ AlignInv /\ HourInv /\ [Next]_vars => HourInv'
  BY HourStep
<1> QED
  BY <1>1, <1>2, BlockSafe, AlignHolds, PTL DEF Spec

-----------------------------------------------------------------------------
(* The period search.                                                      *)

\* From the start on.
LEMMA Forwards ==
  ASSUME NEW n \in Nat, NEW S, 0 \in S,
         \A q \in 1 .. n : q - 1 \in S => q \in S
  PROVE  \A q \in 0 .. n : q \in S
<1> DEFINE T == {q \in 0 .. n : q \notin S}
<1>1. T = {}
  <2> SUFFICES ASSUME T # {} PROVE FALSE
    OBVIOUS
  <2>1. PICK m \in T : \A k \in T : m <= k
    <3>1. T \in SUBSET Nat
      OBVIOUS
    <3> HIDE DEF T
    <3> QED
      BY <3>1, LeastOf
  <2>2. m \in 1 .. n /\ m \notin S /\ m - 1 \in 0 .. n /\ ~(m <= m - 1)
    BY <2>1
  <2>3. m - 1 \in S
    BY <2>1, <2>2
  <2> QED
    BY <2>2, <2>3
<1> QED
  BY <1>1

LEMMA GreatestOf ==
  ASSUME NEW n \in Nat, NEW T \in SUBSET (1 .. n), T # {}
  PROVE  \E m \in T : \A k \in T : k <= m
<1> DEFINE D == {d \in Nat : d <= n /\ n - d \in T}
<1>1. D # {}
  <2>1. PICK t \in T : t \in 1 .. n
    OBVIOUS
  <2>2. n - t \in Nat /\ n - t <= n /\ n - (n - t) = t
    BY <2>1
  <2>3. n - t \in D
    BY <2>1, <2>2
  <2> QED
    BY <2>3
<1>2. PICK d \in D : \A k \in D : d <= k
  <2>1. D \in SUBSET Nat
    OBVIOUS
  <2> HIDE DEF D
  <2> QED
    BY <1>1, <2>1, LeastOf
<1>3. PICK m \in T : m = n - d /\ d \in Nat
  BY <1>2
<1>4. ASSUME NEW k \in T PROVE k <= m
  <2>1. n - k \in Nat /\ n - k <= n /\ n - (n - k) = k /\ k \in 1 .. n
    OBVIOUS
  <2>2. d <= n - k
    BY <1>2, <2>1
  <2> QED
    BY <1>3, <2>1, <2>2
<1> QED
  BY <1>4

LEMMA PeriodLeads ==
  ASSUME NEW f \in Seq(Nat)
  PROVE  Leads(f, PeriodBlocks(f)) /\ GoodBlocks(f) \subseteq PeriodBlocks(f)
<1>1. PICK n \in Nat : n = Len(f) /\ DOMAIN f = 1 .. n
  OBVIOUS
<1>2. ASSUME NEW q \in 1 .. n, IsPeriodBlock(f, q)
      PROVE  Behind(f, q) \in q + 1 .. n + 1
  <2>1. q + 4 <= n /\ Behind(f, q) <= n + 1
    <3>1. q + 4 + 1 <= n + 1 /\ Behind(f, q) <= n + 1
      BY <1>1, <1>2, Lengths DEF IsPeriodBlock
    <3> QED
      BY <3>1
  <2>2. q + 3 \in 1 .. n
    BY <2>1
  <2>3. PICK z \in Nat : z = f[q + 3]
    BY <1>1, <2>2
  <2>4. Behind(f, q) = q + 4 + z + 1
    BY <2>3, Lengths DEF Behind, LogLen
  <2> QED
    BY <2>1, <2>4
<1>3. ASSUME NEW q \in 1 .. n, IsGoodBlock(f, q)
      PROVE  IsPeriodBlock(f, q)
  <2>1. q + 5 <= n
    BY <1>1, <1>3, Lengths DEF IsGoodBlock
  <2>2. q + HeaderLen + TailerLen <= n + 1
    BY <2>1, Lengths
  <2> QED
    BY <1>1, <1>3, <2>2 DEF IsGoodBlock, IsPeriodBlock
<1>4. Leads(f, PeriodBlocks(f))
  BY <1>1, <1>2 DEF Leads, PeriodBlocks
<1> QED
  BY <1>1, <1>3, <1>4 DEF GoodBlocks, PeriodBlocks

\* What the loop knows behind cell q, if g says what it knew before.
NothingYet == [begin |-> 0, end |-> 0, hour |-> -1, pos |-> 1]
KnowsAt(f, b, e, blocks, g, q) ==
  IF q = 0 THEN NothingYet
  ELSE LET s == g[q - 1] IN IF q \in blocks THEN PeriodStep(f, b, e, s, q) ELSE s

LEMMA KnowsDefined ==
  ASSUME NEW f, NEW n \in Nat, n = Len(f), NEW b, NEW e, NEW blocks
  PROVE  \E g : g = [q \in 0 .. n |-> KnowsAt(f, b, e, blocks, g, q)]
<1> DEFINE Known(g, k) == \A q \in 0 .. k : g[q] = KnowsAt(f, b, e, blocks, g, q)
           S == {k \in 0 .. n : \E g : Known(g, k)}
<1>1. 0 \in S
  <2> DEFINE g == [q \in {0} |-> NothingYet]
  <2>1. Known(g, 0)
    BY DEF KnowsAt
  <2> QED
    BY <2>1
<1>2. ASSUME NEW p \in 1 .. n, p - 1 \in S
      PROVE  p \in S
  <2>1. PICK h : Known(h, p - 1)
    BY <1>2
  <2> DEFINE g == [q \in 0 .. p |-> IF q = p THEN KnowsAt(f, b, e, blocks, h, p) ELSE h[q]]
  <2>2. g[p] = KnowsAt(f, b, e, blocks, h, p) /\ \A q \in 0 .. p - 1 : g[q] = h[q]
    OBVIOUS
  <2> HIDE DEF g
  <2>3. ASSUME NEW q \in 0 .. p
        PROVE  KnowsAt(f, b, e, blocks, g, q) = KnowsAt(f, b, e, blocks, h, q)
    <3>1. q # 0 => q - 1 \in 0 .. p - 1
      OBVIOUS
    <3>2. q # 0 => g[q - 1] = h[q - 1]
      BY <2>2, <3>1
    <3> QED
      BY <3>2 DEF KnowsAt
  <2>4. ASSUME NEW q \in 0 .. p
        PROVE  g[q] = KnowsAt(f, b, e, blocks, g, q)
    <3>1. CASE q = p
      BY <2>2, <2>3, <3>1
    <3>2. CASE q # p
      <4>1. q \in 0 .. p - 1
        BY <3>2
      <4> QED
        BY <2>1, <2>2, <2>3, <4>1
    <3> QED
      BY <3>1, <3>2
  <2>5. Known(g, p)
    BY <2>4
  <2>6. p \in 0 .. n
    OBVIOUS
  <2> HIDE DEF Known
  <2> QED
    BY <2>5, <2>6
<1>3. n \in S
  <2>1. n \in 0 .. n
    OBVIOUS
  <2> HIDE DEF S
  <2> QED
    BY <1>1, <1>2, <2>1, Forwards
<1>4. PICK h : Known(h, n)
  BY <1>3
<1> DEFINE g == [q \in 0 .. n |-> h[q]]
<1>5. ASSUME NEW q \in 0 .. n
      PROVE  KnowsAt(f, b, e, blocks, g, q) = h[q]
  <2>1. q # 0 => q - 1 \in 0 .. n
    OBVIOUS
  <2>2. q # 0 => g[q - 1] = h[q - 1]
    BY <2>1
  <2>3. h[q] = KnowsAt(f, b, e, blocks, h, q)
    BY <1>4
  <2> HIDE DEF g
  <2> QED
    BY <2>2, <2>3 DEF KnowsAt
<1>6. g = [q \in 0 .. n |-> KnowsAt(f, b, e, blocks, g, q)]
  <2>1. [q \in 0 .. n |-> KnowsAt(f, b, e, blocks, g, q)] = [q \in 0 .. n |-> h[q]]
    BY <1>5
  <2> QED
    BY <2>1
<1> HIDE DEF g
<1> QED
  BY <1>6

Unfolds(f, b, e, n, blocks, g) ==
  /\ g[0] = NothingYet
  /\ \A q \in 1 .. n :
       g[q] = IF q \in blocks THEN PeriodStep(f, b, e, g[q - 1], q) ELSE g[q - 1]
  /\ PeriodLogs(f, b, e) =
       [begin |-> g[n].begin,
        end   |-> IF g[n].begin # 0 /\ e > g[n].hour THEN n + 1 ELSE g[n].end]

\* The recursive definition says what it seems to say.
LEMMA PeriodUnfolds ==
  ASSUME NEW f, NEW n \in Nat, n = Len(f), NEW b, NEW e, NEW blocks,
         blocks = BlocksFrom(f, 1, PeriodBlocks(f))
  PROVE  \E g : Unfolds(f, b, e, n, blocks, g)
<1> DEFINE h == CHOOSE g : g = [q \in 0 .. Len(f) |->
                KnowsAt(f, b, e, BlocksFrom(f, 1, PeriodBlocks(f)), g, q)]
<1>1. PeriodLogs(f, b, e) =
        [begin |-> h[Len(f)].begin,
         end   |-> IF h[Len(f)].begin # 0 /\ e > h[Len(f)].hour THEN Len(f) + 1
                   ELSE h[Len(f)].end]
  BY Zenon DEF PeriodLogs, KnowsAt, NothingYet
<1>2. h = [q \in 0 .. Len(f) |-> KnowsAt(f, b, e, blocks, h, q)]
  BY KnowsDefined
<1> HIDE DEF h
<1>3. h[0] = NothingYet
  <2>1. 0 \in 0 .. Len(f)
    OBVIOUS
  <2> QED
    BY <1>2, <2>1 DEF KnowsAt
<1>4. ASSUME NEW q \in 1 .. n
      PROVE  h[q] = IF q \in blocks THEN PeriodStep(f, b, e, h[q - 1], q) ELSE h[q - 1]
  <2>1. q \in 0 .. Len(f) /\ q # 0
    OBVIOUS
  <2> QED
    BY <1>2, <2>1 DEF KnowsAt
<1>5. Unfolds(f, b, e, n, blocks, h)
  BY <1>1, <1>3, <1>4 DEF Unfolds
<1> QED
  BY <1>5

\* Blocks whose hours never fall, up to the end of the file.
Timely(f, blocks) ==
  /\ Len(f) \in Nat /\ blocks \subseteq 1 .. Len(f)
  /\ \A p \in blocks : /\ EndHour(f, p) \in Nat /\ BeginHour(f, p) \in Nat
                       /\ BeginHour(f, p) <= EndHour(f, p)
  /\ \A p, q \in blocks : p < q => EndHour(f, p) <= EndHour(f, q)
  /\ \A p \in blocks : (\A q \in blocks : q <= p) => Behind(f, p) = Len(f) + 1

AskedFor(f, b, e, k) == EndHour(f, k) >= b /\ BeginHour(f, k) < e

\* Of the blocks up to cell q, s knows the first one that does not end before
\* hour b, the last one, and, once some block ends in hour e or later, where
\* the last one asked for ends.
BeginKnown(f, blocks, b, q, s) ==
  \/ s.begin = 0 /\ \A p \in blocks : p <= q => EndHour(f, p) < b
  \/ /\ s.begin \in blocks /\ s.begin <= q /\ EndHour(f, s.begin) >= b
     /\ \A p \in blocks : p < s.begin => EndHour(f, p) < b

LastKnown(f, blocks, q, s) ==
  \/ s.hour = -1 /\ \A p \in blocks : ~(p <= q)
  \/ \E m \in blocks : /\ m <= q /\ \A p \in blocks : p <= q => p <= m
                       /\ s.hour = EndHour(f, m) /\ s.pos = Behind(f, m)

EndKnown(f, blocks, b, e, q, s) ==
  s.hour >= e =>
    \A k \in blocks :
      k <= q /\ AskedFor(f, b, e, k)
        /\ (\A j \in blocks : j <= q /\ AskedFor(f, b, e, j) => j <= k)
      => s.end = Behind(f, k)

Known(f, blocks, b, e, q, s) ==
  BeginKnown(f, blocks, b, q, s) /\ LastKnown(f, blocks, q, s) /\ EndKnown(f, blocks, b, e, q, s)

\* A round of the loop, with the block at p.
LEMMA RoundKnows ==
  ASSUME NEW f, NEW blocks, Timely(f, blocks), NEW b \in Nat, NEW e \in Nat, b < e,
         NEW p \in blocks, NEW s, Known(f, blocks, b, e, p - 1, s)
  PROVE  Known(f, blocks, b, e, p, PeriodStep(f, b, e, s, p))
<1>1. PICK B \in Nat, E \in Nat : B = BeginHour(f, p) /\ E = EndHour(f, p) /\ B <= E
  BY DEF Timely
<1>2. p \in Nat \ {0} /\ 0 \notin blocks /\ \A x \in blocks : x \in Nat /\ EndHour(f, x) \in Nat
  BY DEF Timely
<1>3. ASSUME NEW x \in blocks
      PROVE  /\ x <= p - 1 => x <= p
             /\ x < p => x <= p - 1
             /\ x <= p => x <= p - 1 \/ x = p
  <2>1. x \in Nat /\ p \in Nat
    BY <1>2
  <2> QED
    BY <2>1
<1> DEFINE begins == (b > B /\ b <= E) \/ (b > s.hour /\ b <= B)
           r == PeriodStep(f, b, e, s, p)
<1>4. /\ r.begin = IF s.begin = 0 /\ begins THEN p ELSE s.begin
      /\ r.end = IF r.begin = 0 THEN s.end
                 ELSE IF e > s.hour /\ e <= B THEN s.pos
                 ELSE IF e > B /\ e <= E THEN Behind(f, p)
                 ELSE s.end
      /\ r.hour = E /\ r.pos = Behind(f, p)
  BY <1>1 DEF PeriodStep
<1> HIDE DEF r
<1>5. BeginKnown(f, blocks, b, p - 1, s) /\ LastKnown(f, blocks, p - 1, s)
      /\ EndKnown(f, blocks, b, e, p - 1, s)
  BY DEF Known
<1>6. BeginKnown(f, blocks, b, p, r)
  <2>1. CASE s.begin = 0 /\ \A x \in blocks : x <= p - 1 => EndHour(f, x) < b
    <3>1. b > s.hour
      <4>1. CASE s.hour = -1
        BY <4>1
      <4>2. CASE \E m \in blocks : m <= p - 1 /\ s.hour = EndHour(f, m)
        BY <1>2, <2>1, <4>2
      <4> QED
        BY <1>5, <4>1, <4>2 DEF LastKnown
    <3>2. CASE E >= b
      <4>1. begins
        BY <1>1, <3>1, <3>2
      <4>2. r.begin = p
        BY <1>4, <2>1, <4>1
      <4>3. \A x \in blocks : x < p => EndHour(f, x) < b
        BY <1>3, <2>1
      <4> QED
        BY <1>1, <1>2, <3>2, <4>2, <4>3 DEF BeginKnown
    <3>3. CASE ~(E >= b)
      <4>1. ~begins
        BY <1>1, <3>3
      <4>2. r.begin = 0
        BY <1>4, <2>1, <4>1
      <4>3. ASSUME NEW x \in blocks, x <= p PROVE EndHour(f, x) < b
        <5>1. CASE x = p
          BY <1>1, <3>3, <5>1
        <5>2. CASE x <= p - 1
          BY <2>1, <5>2
        <5> QED
          BY <1>3, <4>3, <5>1, <5>2
      <4> QED
        BY <4>2, <4>3 DEF BeginKnown
    <3> QED
      BY <3>2, <3>3
  <2>2. CASE /\ s.begin \in blocks /\ s.begin <= p - 1 /\ EndHour(f, s.begin) >= b
             /\ \A x \in blocks : x < s.begin => EndHour(f, x) < b
    <3>1. s.begin # 0
      BY <1>2, <2>2
    <3>2. r.begin = s.begin
      BY <1>4, <3>1
    <3>3. s.begin <= p
      BY <1>3, <2>2
    <3> QED
      BY <2>2, <3>2, <3>3 DEF BeginKnown
  <2> QED
    BY <1>5, <2>1, <2>2 DEF BeginKnown
<1>7. LastKnown(f, blocks, p, r)
  BY <1>1, <1>2, <1>4 DEF LastKnown
<1>8. EndKnown(f, blocks, b, e, p, r)
  <2> SUFFICES ASSUME r.hour >= e, NEW k \in blocks, k <= p, AskedFor(f, b, e, k),
                      \A j \in blocks : j <= p /\ AskedFor(f, b, e, j) => j <= k
               PROVE  r.end = Behind(f, k)
    BY DEF EndKnown
  <2>1. E >= e /\ E >= b
    BY <1>4
  <2>2. r.begin # 0
    <3>1. p <= p /\ ~(EndHour(f, p) < b)
      BY <1>1, <1>2, <2>1
    <3> QED
      BY <1>2, <1>6, <3>1 DEF BeginKnown
  <2>3. CASE B < e
    <3>1. r.end = Behind(f, p)
      BY <1>4, <2>1, <2>2, <2>3
    <3>2. AskedFor(f, b, e, p) /\ p <= p
      BY <1>1, <1>2, <2>1, <2>3 DEF AskedFor
    <3>3. k = p
      <4>1. p <= k /\ k <= p /\ k \in Nat
        BY <1>2, <3>2
      <4> QED
        BY <1>2, <4>1
    <3> QED
      BY <3>1, <3>3
  <2>4. CASE ~(B < e)
    <3>1. k # p
      BY <1>1, <2>4 DEF AskedFor
    <3>2. k <= p - 1 /\ \A j \in blocks : j <= p - 1 /\ AskedFor(f, b, e, j) => j <= k
      BY <1>3, <3>1
    <3>3. e <= B /\ ~(e > B)
      BY <2>4
    <3>4. CASE s.hour >= e
      <4>1. s.end = Behind(f, k)
        BY <1>5, <3>2, <3>4 DEF EndKnown
      <4>2. ~(e > s.hour)
        <5>1. s.hour \in Int
          BY <1>2, <1>5 DEF LastKnown
        <5> QED
          BY <3>4, <5>1
      <4> QED
        BY <1>4, <2>2, <3>3, <4>1, <4>2
    <3>5. CASE ~(s.hour >= e)
      <4>1. PICK m \in blocks : /\ m <= p - 1 /\ \A x \in blocks : x <= p - 1 => x <= m
                                /\ s.hour = EndHour(f, m) /\ s.pos = Behind(f, m)
        BY <1>5, <3>2 DEF LastKnown
      <4>2. PICK em \in Nat, bm \in Nat, ek \in Nat :
              /\ em = EndHour(f, m) /\ bm = BeginHour(f, m) /\ bm <= em
              /\ ek = EndHour(f, k) /\ ek >= b
        BY DEF Timely, AskedFor
      <4>3. k <= m /\ k \in Nat /\ m \in Nat
        BY <1>2, <3>2, <4>1
      <4>4. ek <= em
        <5>1. CASE k = m
          BY <4>2, <5>1
        <5>2. CASE k < m
          BY <4>2, <5>2 DEF Timely
        <5> QED
          BY <4>3, <5>1, <5>2
      <4>5. em < e
        BY <3>5, <4>1, <4>2
      <4>6. AskedFor(f, b, e, m)
        <5>1. em >= b /\ bm < e
          BY <4>2, <4>4, <4>5
        <5> QED
          BY <4>2, <5>1 DEF AskedFor
      <4>7. m <= k
        BY <3>2, <4>1, <4>6
      <4>8. k = m
        BY <4>3, <4>7
      <4>9. e > s.hour
        BY <4>1, <4>2, <4>5
      <4> QED
        BY <1>4, <2>2, <3>3, <4>1, <4>8, <4>9
    <3> QED
      BY <3>4, <3>5
  <2> QED
    BY <2>3, <2>4
<1>9. Known(f, blocks, b, e, p, r)
  BY <1>6, <1>7, <1>8 DEF Known
<1> QED
  BY <1>9 DEF r

\* What GetPeriodLogs finds in blocks whose hours never fall.
LEMMA PeriodFinds ==
  ASSUME NEW f, NEW blocks, Timely(f, blocks), blocks = BlocksFrom(f, 1, PeriodBlocks(f)),
         NEW b \in Nat, NEW e \in Nat, b < e,
         NEW wanted, wanted = {p \in blocks : AskedFor(f, b, e, p)}, wanted # {}
  PROVE  /\ PeriodLogs(f, b, e).end = Behind(f, Max(wanted))
         /\ PeriodLogs(f, b, e).begin \in 1 .. Min(wanted)
         /\ (\A p, q \in blocks : p < q => BeginHour(f, p) <= BeginHour(f, q))
            => PeriodLogs(f, b, e).begin = Min(wanted)
<1>1. PICK n \in Nat : n = Len(f)
  BY DEF Timely
<1>2. PICK g : Unfolds(f, b, e, n, blocks, g)
  BY <1>1, PeriodUnfolds
<1>3. blocks \subseteq 1 .. n /\ \A x \in blocks : EndHour(f, x) \in Nat
  BY <1>1 DEF Timely
<1> DEFINE S == {q \in 0 .. n : Known(f, blocks, b, e, q, g[q])}
<1>4. 0 \in S
  <2>1. \A x \in blocks : ~(x <= 0)
    BY <1>3
  <2>2. /\ NothingYet.begin = 0 /\ NothingYet.hour = -1 /\ ~(-1 >= e)
    BY DEF NothingYet
  <2>3. Known(f, blocks, b, e, 0, g[0])
    BY <1>2, <2>1, <2>2 DEF Unfolds, Known, BeginKnown, LastKnown, EndKnown
  <2> QED
    BY <2>3
<1>5. ASSUME NEW q \in 1 .. n, q - 1 \in S
      PROVE  q \in S
  <2>1. Known(f, blocks, b, e, q - 1, g[q - 1])
    BY <1>5
  <2>2. CASE q \in blocks
    <3>1. g[q] = PeriodStep(f, b, e, g[q - 1], q)
      BY <1>2, <2>2 DEF Unfolds
    <3> QED
      BY <2>1, <2>2, <3>1, RoundKnows
  <2>3. CASE q \notin blocks
    <3>1. \A x \in blocks : (x <= q <=> x <= q - 1)
      BY <1>3, <2>3
    <3>2. g[q] = g[q - 1]
      BY <1>2, <2>3 DEF Unfolds
    <3>3. Known(f, blocks, b, e, q, g[q - 1])
      BY <2>1, <3>1 DEF Known, BeginKnown, LastKnown, EndKnown
    <3> QED
      BY <3>2, <3>3
  <2> QED
    BY <2>2, <2>3
<1>6. Known(f, blocks, b, e, n, g[n])
  <2>1. n \in 0 .. n
    OBVIOUS
  <2>2. n \in S
    <3> HIDE DEF S
    <3> QED
      BY <1>4, <1>5, <2>1, Forwards
  <2> QED
    BY <2>2
<1>7. PICK s : s = g[n]
  OBVIOUS
<1>8. /\ BeginKnown(f, blocks, b, n, s) /\ LastKnown(f, blocks, n, s)
      /\ EndKnown(f, blocks, b, e, n, s)
  BY <1>6, <1>7 DEF Known
<1>9. /\ PeriodLogs(f, b, e).begin = s.begin
      /\ PeriodLogs(f, b, e).end = IF s.begin # 0 /\ e > s.hour THEN n + 1 ELSE s.end
  BY <1>2, <1>7 DEF Unfolds
<1>10. \A x \in wanted : x \in blocks /\ x \in 1 .. n /\ AskedFor(f, b, e, x)
  BY <1>3
<1>11. PICK first \in wanted : first = Min(wanted) /\ \A x \in wanted : first <= x
  <2>1. wanted \in SUBSET Nat
    BY <1>10
  <2>2. \E m \in wanted : \A k \in wanted : m <= k
    BY <2>1, LeastOf
  <2> QED
    BY <2>2, Zenon DEF Min
<1>12. PICK last \in wanted : last = Max(wanted) /\ \A x \in wanted : x <= last
  <2>1. wanted \in SUBSET (1 .. n)
    BY <1>10
  <2>2. \E m \in wanted : \A k \in wanted : k <= m
    BY <2>1, GreatestOf
  <2>3. \A m, k \in wanted : k <= m <=> m >= k
    BY <1>10
  <2>4. \E m \in wanted : \A k \in wanted : m >= k
    BY <2>2, <2>3
  <2>5. Max(wanted) \in wanted /\ \A k \in wanted : Max(wanted) >= k
    BY <2>4, Zenon DEF Max
  <2> QED
    BY <2>3, <2>5
<1>13. first \in blocks /\ first \in 1 .. n /\ ~(EndHour(f, first) < b)
  BY <1>3, <1>10, <1>11 DEF AskedFor
<1>14. /\ s.begin \in blocks /\ s.begin # 0 /\ EndHour(f, s.begin) >= b
       /\ \A x \in blocks : x < s.begin => EndHour(f, x) < b
  <2>1. first <= n
    BY <1>13
  <2> QED
    BY <1>3, <1>8, <1>13, <2>1 DEF BeginKnown
<1>15. s.begin \in 1 .. first
  <2>1. ~(first < s.begin)
    BY <1>13, <1>14
  <2>2. s.begin \in 1 .. n
    BY <1>3, <1>14
  <2> QED
    BY <1>13, <2>1, <2>2
<1>16. ASSUME \A p, q \in blocks : p < q => BeginHour(f, p) <= BeginHour(f, q)
       PROVE  s.begin = first
  <2>1. CASE s.begin < first
    <3>1. BeginHour(f, s.begin) <= BeginHour(f, first)
      BY <1>13, <1>14, <1>16, <2>1
    <3>2. /\ BeginHour(f, s.begin) \in Nat /\ BeginHour(f, first) \in Nat
          /\ BeginHour(f, first) < e
      BY <1>10, <1>11, <1>13, <1>14 DEF Timely, AskedFor
    <3>3. BeginHour(f, s.begin) < e
      BY <3>1, <3>2
    <3>4. s.begin \in wanted
      BY <1>14, <3>3 DEF AskedFor
    <3> QED
      BY <1>11, <1>13, <1>15, <2>1, <3>4
  <2> QED
    BY <1>13, <1>15, <2>1
<1>17. PeriodLogs(f, b, e).end = Behind(f, last)
  <2>1. last \in blocks /\ last \in 1 .. n /\ AskedFor(f, b, e, last)
    BY <1>10, <1>12
  <2>2. PICK m \in blocks : /\ m <= n /\ \A x \in blocks : x <= n => x <= m
                            /\ s.hour = EndHour(f, m) /\ s.pos = Behind(f, m)
    <3>1. last <= n
      BY <2>1
    <3> QED
      BY <1>8, <2>1, <3>1 DEF LastKnown
  <2>3. CASE s.hour >= e
    <3>1. s.end = Behind(f, last)
      <4>1. last <= n /\ \A j \in blocks : j <= n /\ AskedFor(f, b, e, j) => j <= last
        BY <1>12, <2>1
      <4> QED
        BY <1>8, <2>1, <2>3, <4>1 DEF EndKnown
    <3>2. ~(e > s.hour)
      BY <1>3, <2>2, <2>3
    <3> QED
      BY <1>9, <3>1, <3>2
  <2>4. CASE ~(s.hour >= e)
    <3>1. \A x \in blocks : x <= m
      BY <1>3, <2>2
    <3>2. Behind(f, m) = n + 1
      BY <1>1, <3>1 DEF Timely
    <3>3. PICK em \in Nat, bm \in Nat, el \in Nat :
            /\ em = EndHour(f, m) /\ bm = BeginHour(f, m) /\ bm <= em
            /\ el = EndHour(f, last) /\ el >= b
      BY <2>1 DEF Timely, AskedFor
    <3>4. el <= em
      <4>1. CASE last = m
        BY <3>3, <4>1
      <4>2. CASE last < m
        BY <2>1, <3>3, <4>2 DEF Timely
      <4>3. last <= m /\ m \in 1 .. n
        BY <1>3, <2>1, <3>1
      <4> QED
        BY <2>1, <4>1, <4>2, <4>3
    <3>5. em < e
      BY <2>2, <2>4, <3>3
    <3>6. em >= b /\ bm < e
      BY <3>3, <3>4, <3>5
    <3>7. m \in wanted
      BY <3>3, <3>6 DEF AskedFor
    <3>8. last = m
      <4>1. m <= last /\ last <= m /\ m \in 1 .. n
        BY <1>3, <1>12, <2>1, <3>1, <3>7
      <4> QED
        BY <2>1, <4>1
    <3>9. e > s.hour
      BY <2>2, <3>3, <3>5
    <3> QED
      BY <1>9, <1>14, <3>2, <3>8, <3>9
  <2> QED
    BY <2>3, <2>4
<1> QED
  BY <1>9, <1>11, <1>12, <1>15, <1>16, <1>17

LEMMA PeriodExact ==
  ASSUME BlockInv, AlignInv, HourInv
  PROVE  PeriodIsExact
<1> SUFFICES ASSUME ~Torn, NEW b \in Nat, NEW e \in Nat, b < e, Wanted(b, e) # {}
             PROVE  /\ PeriodLogs(file, b, e).end = Behind(file, Max(Wanted(b, e)))
                    /\ PeriodLogs(file, b, e).begin \in 1 .. Min(Wanted(b, e))
                    /\ (\A p, q \in WholeStarts : p < q => BeginHour(file, p) <= BeginHour(file, q))
                       => PeriodLogs(file, b, e).begin = Min(Wanted(b, e))
  <2>1. \A x \in 0 .. LastHour + 1 : x \in Nat
    BY BlockConstants
  <2> QED
    BY <2>1 DEF PeriodIsExact
<1>1. file \in Seq(Nat) /\ log \in Seq(Entries)
  BY DEF BlockInv, BlockTypes
<1>2. PICK good, blocks :
        good = PeriodBlocks(file) /\ blocks = BlocksFrom(file, 1, PeriodBlocks(file))
  OBVIOUS
<1>3. Scanned(good)
  <2>1. Leads(file, good) /\ GoodBlocks(file) \subseteq good
    BY <1>1, <1>2, PeriodLeads
  <2> QED
    BY <2>1, FileScanned
<1>4. blocks = WholeStarts
  <2>1. From(good, 1) = WholeStarts
    BY <1>3, WholeRead, OnlyWholeRead
  <2> QED
    BY <1>2, <2>1 DEF From
<1>5. \A p : p \in blocks <=> \E i \in 1 .. Len(log) : log[i].whole /\ p = log[i].start
  BY <1>3, <1>4, WholeStart
<1>6. PICK n \in Nat, m \in Nat : n = Len(file) /\ m = Len(log)
  BY <1>1
<1>7. ASSUME NEW p \in blocks
      PROVE  /\ p \in 1 .. n
             /\ EndHour(file, p) \in Nat /\ BeginHour(file, p) \in Nat
             /\ BeginHour(file, p) <= EndHour(file, p)
  <2>1. PICK i \in 1 .. m : log[i].whole /\ p = log[i].start
    BY <1>5, <1>6
  <2>2. p \in 1 .. n /\ IsGoodBlock(file, p)
    BY <1>6, <2>1 DEF AlignInv, Aligned
  <2>3. p + 5 <= n
    BY <1>6, <2>2, Lengths DEF IsGoodBlock
  <2>4. p + 1 \in 1 .. n /\ p + 2 \in 1 .. n
    BY <2>2, <2>3
  <2>5. file[p + 1] \in Nat /\ file[p + 2] \in Nat
    <3>1. \A c \in 1 .. n : file[c] \in Nat
      BY <1>1, <1>6
    <3> QED
      BY <2>4, <3>1
  <2>6. EndHour(file, p) = file[p + 2] /\ EndHour(file, p) \in Nat
    BY <2>5 DEF EndHour
  <2>7. BeginHour(file, p) \in Nat /\ BeginHour(file, p) <= EndHour(file, p)
    BY <2>5, <2>6 DEF BeginHour
  <2> QED
    BY <2>2, <2>6, <2>7
<1>8. ASSUME NEW p \in blocks, NEW q \in blocks, p < q
      PROVE  EndHour(file, p) <= EndHour(file, q)
  <2>1. PICK i \in 1 .. m, j \in 1 .. m :
          log[i].whole /\ p = log[i].start /\ log[j].whole /\ q = log[j].start
    BY <1>5, <1>6
  <2>2. i < j
    <3>1. j < i => q < p
      BY <1>6, <2>1 DEF AlignInv, Aligned
    <3>2. p \in 1 .. n /\ q \in 1 .. n
      BY <1>7
    <3>3. i # j /\ ~(q < p)
      BY <1>8, <2>1, <3>2
    <3> QED
      BY <3>1, <3>3
  <2> QED
    BY <1>6, <2>1, <2>2 DEF HourInv, Hours
<1>9. ASSUME NEW p \in blocks, \A q \in blocks : q <= p
      PROVE  Behind(file, p) = n + 1
  <2>1. PICK i \in 1 .. m : log[i].whole /\ p = log[i].start
    BY <1>5, <1>6
  <2>2. i = m
    <3>1. CASE i < m
      <4>1. p < log[m].start /\ log[m].start \in 1 .. n
        BY <1>6, <2>1, <3>1 DEF AlignInv, Aligned
      <4>2. log[m].whole
        BY <1>3, <1>6, <2>1 DEF Torn, Scanned
      <4>3. log[m].start <= p
        BY <1>5, <1>6, <1>9, <2>1, <4>2
      <4> QED
        BY <1>7, <4>1, <4>3
    <3> QED
      BY <2>1, <3>1
  <2> QED
    BY <1>6, <2>1, <2>2 DEF AlignInv, Aligned, StartBehind
<1>10. Timely(file, blocks)
  BY <1>6, <1>7, <1>8, <1>9 DEF Timely
<1>11. PICK wanted : wanted = Wanted(b, e)
  OBVIOUS
<1>12. wanted = {p \in blocks : AskedFor(file, b, e, p)}
  BY <1>4, <1>11 DEF Wanted, AskedFor
<1> QED
  BY <1>2, <1>4, <1>10, <1>11, <1>12, PeriodFinds

-----------------------------------------------------------------------------
(* The theorems.                                                           *)

\* The mapping, its length and the places of the code are what TypeOK says:
\* no write, flush or recovery takes the length beyond the mapping.
THEOREM BlockTyped == Spec => []TypeOK
<1>1. BlockInv => TypeOK
  BY DEF BlockInv, BlockTypes, TypeOK, Places
<1> QED
  BY <1>1, BlockSafe, PTL

\* However large the block and whatever the compressor produces, the room
\* that Write leaves for the end cell is there when the block is flushed, also
\* when the length comes from the header of a process that died.
THEOREM RoomIsLeft == Spec => []RoomForTailer
<1>1. BlockInv => RoomForTailer
  <2> SUFFICES ASSUME BlockInv, at \in {"idle", "crypt", "len", "tail", "fixed"}
               PROVE  length + TailerLen <= BlockMax
    BY DEF RoomForTailer
  <2>1. CASE length = 0
    BY <2>1, Lengths
  <2>2. CASE length # 0
    <3>1. length = HeaderLen + Len(given) /\ HeaderLen + Len(given) + TailerLen <= BlockMax
      BY <2>2 DEF BlockInv, SizeInv
    <3> QED
      BY <3>1
  <2> QED
    BY <2>1, <2>2
<1> QED
  BY <1>1, BlockSafe, PTL

\* However often the process dies between two stores, a decoder, which decrypts
\* all but the synchronous blocks, reads out of a block in the file the payload
\* of exactly the writes that had been completed, but for the last, incomplete
\* group of an encrypted block that a later process has recovered.
THEOREM CommittedReadable == Spec => []CommittedIsReadable
<1>1. BlockInv => CommittedIsReadable
  <2> SUFFICES ASSUME BlockInv, NEW i \in DOMAIN log, log[i].whole
               PROVE
                 LET read == Read(file, log[i])
                     sent == log[i].payload
                     sure == IF is_crypt_ /\ log[i].recovered THEN Whole(Len(sent))
                             ELSE Len(sent)
                 IN /\ Len(read) = Len(sent)
                    /\ \A j \in 1 .. sure : read[j] = sent[j]
    BY DEF CommittedIsReadable
  <2>1. ReadableIn(is_crypt_, file, log[i])
    BY DEF BlockInv, FileInv
  <2>2. is_crypt_ \in BOOLEAN /\ file \in Seq(Nat)
    BY DEF BlockInv, BlockTypes
  <2>3. PICK L \in Nat, z \in Nat, p \in Nat \ {0} :
          L = Len(log[i].payload) /\ z = Len(file) /\ p = log[i].start
    BY <2>1, <2>2 DEF ReadableIn
  <2>4. p + HeaderLen + L <= z /\ file[p + 3] = L
    BY <2>1, <2>3 DEF ReadableIn
  <2>5. PICK m \in Nat \ {0}, n \in Nat :
          /\ m = p + HeaderLen /\ n = p + HeaderLen + L - 1
          /\ m <= n + 1 /\ n - m + 1 = L /\ n <= z
    BY <2>4, Lengths
  <2>6. PICK cells \in Seq(Nat) :
          /\ cells = Payload(file, log[i].start) /\ Len(cells) = L
          /\ \A j \in 1 .. L : cells[j] = file[p + HeaderLen + j - 1]
    <3>1. Payload(file, log[i].start) = SubSeq(file, m, n)
      BY <2>3, <2>4, <2>5 DEF Payload, LogLen
    <3>2. ASSUME NEW j \in m .. n PROVE j \in 1 .. z
      <4>1. n <= z
        BY <2>5
      <4> QED
        BY <4>1
    <3>3. \A j \in m .. n : file[j] \in Nat
      BY <2>2, <2>3, <3>2
    <3>4. /\ SubSeq(file, m, n) \in Seq(Nat) /\ Len(SubSeq(file, m, n)) = L
          /\ \A j \in 1 .. L : SubSeq(file, m, n)[j] = file[m + j - 1]
      BY <2>5, <3>3, Slice
    <3> QED
      BY <2>5, <3>1, <3>4
  <2>7. DOMAIN cells = 1 .. L
    BY <2>6
  <2>8. PICK sure \in 0 .. L :
          /\ sure = IF is_crypt_ /\ log[i].recovered THEN Whole(Len(log[i].payload))
                    ELSE Len(log[i].payload)
          /\ is_crypt_ /\ log[i].recovered => sure = Enciphered(is_crypt_, L)
    <3>1. Whole(L) = Enciphered(is_crypt_, L) /\ Enciphered(is_crypt_, L) \in 0 .. L
      BY <2>2, CodeCounts, Counts
    <3> QED
      BY <2>3, <3>1
  <2>9. ASSUME NEW j \in 1 .. L
        PROVE  IF log[i].sync THEN cells[j] = log[i].payload[j]
               ELSE \/ cells[j] = CellOf(is_crypt_, log[i].payload, j)
                    \/ is_crypt_ /\ log[i].recovered /\ j > Enciphered(is_crypt_, L)
    BY <2>1, <2>3, <2>6 DEF ReadableIn
  <2>10. CASE log[i].sync
    <3>1. Read(file, log[i]) = cells
      BY <2>6, <2>10 DEF Read
    <3>2. \A j \in 1 .. sure : cells[j] = log[i].payload[j]
      BY <2>9, <2>10
    <3> QED
      BY <2>3, <2>6, <2>8, <3>1, <3>2
  <2>11. CASE ~log[i].sync
    <3> DEFINE read == Decrypted(cells)
    <3>1. Read(file, log[i]) = read
      BY <2>6, <2>11 DEF Read
    <3>2. /\ Len(read) = L
          /\ \A j \in 1 .. L : read[j] = IF j <= Whole(L) THEN cells[j] - Cipher ELSE cells[j]
      BY <2>6, <2>7 DEF Decrypted
    <3> HIDE DEF read
    <3>3. ASSUME NEW j \in 1 .. sure PROVE read[j] = log[i].payload[j]
      <4>1. j \in 1 .. L /\ log[i].payload[j] \in Nat
        <5>1. PICK given_ \in Seq(Nat) : given_ = log[i].payload /\ Len(given_) = L
          BY <2>1, <2>3 DEF ReadableIn
        <5>2. j \in 1 .. L
          OBVIOUS
        <5>3. given_[j] \in Nat
          BY <5>1, <5>2
        <5> QED
          BY <5>1, <5>2, <5>3
      <4>2. cells[j] = CellOf(is_crypt_, log[i].payload, j)
        <5>1. ~(is_crypt_ /\ log[i].recovered /\ j > Enciphered(is_crypt_, L))
          BY <2>8
        <5> QED
          BY <2>9, <2>11, <4>1, <5>1
      <4>3. cells[j] = IF j <= Whole(L) THEN log[i].payload[j] + Cipher ELSE log[i].payload[j]
        BY <2>3, <4>2, CodeCounts DEF CellOf
      <4>4. read[j] = IF j <= Whole(L) THEN cells[j] - Cipher ELSE cells[j]
        BY <3>2, <4>1
      <4>5. CASE j <= Whole(L)
        <5>1. cells[j] = log[i].payload[j] + Cipher /\ read[j] = cells[j] - Cipher
          BY <4>3, <4>4, <4>5
        <5>2. \A g \in Nat : (g + Cipher) - Cipher = g
          BY DEF Cipher
        <5> QED
          BY <4>1, <5>1, <5>2
      <4>6. CASE ~(j <= Whole(L))
        BY <4>3, <4>4, <4>6
      <4> QED
        BY <4>5, <4>6
    <3> QED
      BY <2>3, <2>8, <3>1, <3>2, <3>3
  <2> QED
    BY <2>10, <2>11
<1> QED
  BY <1>1, BlockSafe, PTL

\* Whatever the payload and wherever the process died, the decoder reads each
\* whole block that begins the file or follows a whole block it reads, and of a
\* file without a torn block the whole ones and nothing else: a header's length
\* always leads it to the next block's magic.
THEOREM TearsLose == Spec => []LossStartsAtTear
<1>1. BlockInv /\ AlignInv => LossStartsAtTear
  BY LossAtTear
<1> QED
  BY <1>1, BlockSafe, AlignHolds, PTL

\* The scan of the decoder, which begins at the first cell, comes to where the
\* script begins, as long as nothing before that passes for a block and is none.
THEOREM PortReads == Spec => []PortReadsAsMuch
<1>1. BlockInv /\ AlignInv => PortReadsAsMuch
  BY PortAsMuch
<1> QED
  BY <1>1, BlockSafe, AlignHolds, PTL

\* In a day's file without a torn block, whatever was written past the log
\* block and at whatever hours the blocks of dead processes were recovered,
\* GetPeriodLogs ends exactly behind the last block asked for, and begins at
\* the first one if begin hours do not fall and never behind it.
THEOREM PeriodExactly == Spec => []PeriodIsExact
<1>1. BlockInv /\ AlignInv /\ HourInv => PeriodIsExact
  BY PeriodExact
<1> QED
  BY <1>1, BlockSafe, AlignHolds, HourHolds, PTL

=============================================================================
