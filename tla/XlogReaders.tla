---------------------------- MODULE XlogReaders ----------------------------
(***************************************************************************)
(* What reads an .xlog file: the Dart decoder of the plugin, the decoding  *)
(* script it is a port of, and LogBaseBuffer::GetPeriodLogs, which looks   *)
(* for the blocks of a range of hours.                                     *)
(*                                                                         *)
(* A file is a sequence of cells.  A block is a header of four cells       *)
(* (magic, begin hour, end hour, length), as many cells as the length      *)
(* says and an end cell 0; the sequence number and the key of the header   *)
(* play no part in finding blocks.  A cell may have the value of a magic   *)
(* or of the end cell by accident.                                         *)
(***************************************************************************)
EXTENDS Integers, Sequences, FiniteSetsExt

CONSTANT Magic   \* a magic start; the valid ones are alike to the readers

HeaderLen == 4
TailerLen == 1
MagicEnd == 0

LogLen(f, p) == f[p + 3]

\* The position behind the block at p.
Behind(f, p) == p + HeaderLen + LogLen(f, p) + TailerLen

\* Variant: the end cell is sought before the last cell of the file.
IsGoodBlockNotLast(f, p) ==
  /\ p + HeaderLen + TailerLen <= Len(f)
  /\ f[p] = Magic
  /\ Behind(f, p) <= Len(f)
  /\ f[Behind(f, p) - 1] = MagicEnd

\* _isGoodBlock of the Dart decoder and IsGoodLogBuffer of the script for one
\* block, which has payload.
IsGoodBlock(f, p) ==
  /\ p + HeaderLen + TailerLen <= Len(f)
  /\ f[p] = Magic
  /\ Behind(f, p) <= Len(f) + 1
  /\ f[Behind(f, p) - 1] = MagicEnd

GoodBlocks(f) == {p \in DOMAIN f : IsGoodBlock(f, p)}

\* The tests in the loop of GetPeriodLogs, where a block may be empty.
IsPeriodBlock(f, p) ==
  /\ p + HeaderLen + TailerLen <= Len(f) + 1
  /\ f[p] = Magic
  /\ Behind(f, p) <= Len(f) + 1
  /\ f[Behind(f, p) - 1] = MagicEnd

PeriodBlocks(f) == {p \in DOMAIN f : IsPeriodBlock(f, p)}

\* The starts of the blocks that are read from position p on, good being the
\* starts that pass a reader's test: behind a good block comes the next, behind
\* anything else the scan goes on one cell further.
BlocksFrom(f, p, good) ==
  LET found[q \in 1 .. Len(f) + 1] ==
        IF q = Len(f) + 1 THEN {}
        ELSE IF q \in good THEN {q} \cup found[Behind(f, q)]
        ELSE found[q + 1]
  IN found[p]

\* Variant: the scan ends at the first start that is not good.
DartBlocksInARow(f) ==
  LET found[q \in 1 .. Len(f) + 1] ==
        IF q <= Len(f) /\ IsGoodBlock(f, q) THEN {q} \cup found[Behind(f, q)] ELSE {}
  IN found[1]

\* decodeBytes.
DartBlocks(f) == BlocksFrom(f, 1, GoodBlocks(f))

\* GetLogStartPos(_buffer, 2): the first good block behind which the file
\* ends or another good block begins.
ScriptStarts(f) ==
  LET good == GoodBlocks(f)
  IN {p \in good : Behind(f, p) <= Len(f) => Behind(f, p) \in good}

\* ParseFile of decode_mars_nocrypt_log_file.py.
ScriptBlocks(f) ==
  LET starts == ScriptStarts(f)
  IN IF starts = {} THEN {} ELSE BlocksFrom(f, Min(starts), GoodBlocks(f))

\* GetLogHour; a begin hour behind the end hour is taken back to it.
EndHour(f, p) == f[p + 2]
BeginHour(f, p) == IF f[p + 1] > EndHour(f, p) THEN EndHour(f, p) ELSE f[p + 1]

\* Variant: the end is not sought between two blocks.
PeriodStepNoGap(f, b, e, s, p) ==
  LET begins == b > s.hour /\ b <= EndHour(f, p)
      begin == IF s.begin = 0 /\ begins THEN p ELSE s.begin
  IN [begin |-> begin,
      end   |-> IF begin # 0 /\ e > BeginHour(f, p) /\ e <= EndHour(f, p)
                THEN Behind(f, p) ELSE s.end,
      hour  |-> EndHour(f, p), pos |-> Behind(f, p)]

\* One round of GetPeriodLogs: s is what it knows before the block at p,
\* with a position 0 where it has none yet.
PeriodStep(f, b, e, s, p) ==
  LET begins == \/ b > BeginHour(f, p) /\ b <= EndHour(f, p)
                \/ b > s.hour /\ b <= BeginHour(f, p)
      begin == IF s.begin = 0 /\ begins THEN p ELSE s.begin
  IN [begin |-> begin,
      end   |-> IF begin = 0 THEN s.end
                ELSE IF e > s.hour /\ e <= BeginHour(f, p) THEN s.pos
                ELSE IF e > BeginHour(f, p) /\ e <= EndHour(f, p) THEN Behind(f, p)
                ELSE s.end,
      hour  |-> EndHour(f, p), pos |-> Behind(f, p)]

\* GetPeriodLogs for the hours from b up to and without e: the cells from
\* begin up to and without end.
PeriodLogs(f, b, e) ==
  LET blocks == BlocksFrom(f, 1, PeriodBlocks(f))
      after[q \in 0 .. Len(f)] ==
        IF q = 0 THEN [begin |-> 0, end |-> 0, hour |-> -1, pos |-> 1]
        ELSE LET s == after[q - 1] IN IF q \in blocks THEN PeriodStep(f, b, e, s, q) ELSE s
      s == after[Len(f)]
  IN [begin |-> s.begin,
      end   |-> IF s.begin # 0 /\ e > s.hour THEN Len(f) + 1 ELSE s.end]

=============================================================================
