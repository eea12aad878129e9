-------------------------------- MODULE Wal --------------------------------
(***************************************************************************)
(* A log file of the storage engine (db/log_writer.cc, db/log_reader.cc):  *)
(* records cut into fragments that never cross a block, each under a       *)
(* header with its length, type and checksum; and what a reader makes of   *)
(* the file after a failed append, a crash or a damaged byte.              *)
(*                                                                         *)
(* A file is a sequence of cells: a byte of a header, a byte of a record,  *)
(* filling, or something damaged.  The reader trusts a header only if its  *)
(* cells are those of one header and the payload under it is the one it    *)
(* was computed for (the checksum); anything else is garbage.              *)
(***************************************************************************)
EXTENDS SequencesExt

CONSTANTS BlockSize, HeaderSize,   \* 32768 and 7 in the code
          Lengths,                 \* bound: the sizes of records
          MaxRecords,              \* bound: records written
          MaxFailures,             \* bound: appends that fail, and crashes
          MaxDamage,               \* bound: bytes damaged
          ReuseLogs                \* Options::reuse_logs

ASSUME WalAssumption ==
  /\ HeaderSize \in Nat \ {0} /\ BlockSize \in Nat /\ BlockSize > HeaderSize
  /\ Lengths \subseteq Nat
  /\ {MaxRecords, MaxFailures, MaxDamage} \subseteq Nat
  /\ ReuseLogs \in BOOLEAN

VARIABLES file,          \* the cells that have reached the operating system
          blockOffset,   \* Writer::block_offset_
          synced,        \* cells that a crash of the machine cannot take
          closed,        \* the process has ended and the file is not opened again
          lengths,       \* history: the sizes of the records AddRecord was given
          places,        \* history: record -> its first and last cell, if all were written
          failures, damage,
          gaps           \* history: an append failed, or followed half a record

vars == <<file, blockOffset, synced, closed, lengths, places, failures, damage, gaps>>

Filler == [kind |-> "filler"]
Junk == [kind |-> "junk"]
HeaderCell(r, from, n, type, i) ==
  [kind |-> "header", record |-> r, from |-> from, length |-> n, type |-> type, byte |-> i]
DataCell(r, i) == [kind |-> "data", record |-> r, byte |-> i]
Payload(r, from, n) == [i \in 1..n |-> DataCell(r, from + i)]

(* EmitPhysicalRecord: header and payload.                                 *)
Physical(r, from, n, type) ==
  [i \in 1..HeaderSize |-> HeaderCell(r, from, n, type, i)] \o Payload(r, from, n)

(* How AddRecord lays out record r of size bytes, `from` of which are done, *)
(* when the writer is at offset in its block: the pieces it appends one by *)
(* one, a fragment with the filling before it, and block_offset_ after it. *)
RECURSIVE Pieces(_, _, _, _, _)

FragmentType(begin, end) ==
  IF begin THEN IF end THEN "full" ELSE "first" ELSE IF end THEN "last" ELSE "middle"

NoFilling(leftover) == 0           \* mutated: the trailer of a block is not filled
Filling(leftover) == IF leftover < HeaderSize THEN leftover ELSE 0

Pieces(r, from, size, offset, begin) ==
  LET leftover == BlockSize - offset
      start == IF leftover < HeaderSize THEN 0 ELSE offset
      avail == BlockSize - start - HeaderSize
      n == IF size - from < avail THEN size - from ELSE avail
      end == from + n = size
  IN  <<[filling |-> Filling(leftover), after |-> start + HeaderSize + n,
         cells |-> [i \in 1..Filling(leftover) |-> Filler]
                     \o Physical(r, from, n, FragmentType(begin, end))]>>
        \o IF end THEN << >> ELSE Pieces(r, from + n, size, start + HeaderSize + n, FALSE)

-----------------------------------------------------------------------------
(* The reader.  Its buffer is the last `len` cells before `off`.           *)
StartInBlock(start) == start       \* mutated: not the start of a block
FirstBlock(start) ==               \* SkipToInitialBlock
  LET inBlock == start % BlockSize
  IN  start - inBlock + IF inBlock > BlockSize - (HeaderSize - 1) THEN BlockSize ELSE 0

NewReader(start) ==
  [start |-> start, off |-> IF start > 0 THEN FirstBlock(start) ELSE 0, len |-> 0,
   eof |-> FALSE, resyncing |-> start > 0, fragmented |-> FALSE,
   record |-> 0, offset |-> 0, scratch |-> << >>, out |-> << >>, drops |-> 0]

BadForGood(rd) ==                  \* mutated: nothing is read after an error
  [type |-> "bad", reader |-> [rd EXCEPT !.len = 0, !.drops = @ + 1, !.eof = TRUE]]
(* An error that is reported; the rest of the block is dropped.            *)
Bad(rd) == [type |-> "bad", reader |-> [rd EXCEPT !.len = 0, !.drops = @ + 1]]

(* The cells under the buffer's start are one undamaged header ...         *)
HeaderAt(f, p) ==
  \A i \in 1..HeaderSize : /\ f[p + i].kind = "header" /\ f[p + i].byte = i
                           /\ f[p + i].record = f[p + 1].record
                           /\ f[p + i].from = f[p + 1].from

(* ... and the payload is the one its checksum was computed for.           *)
NoChecksum(h, data) == TRUE        \* mutated: the checksum is not compared
ChecksumHolds(h, data) == data = Payload(h.record, h.from, h.length)

RECURSIVE ReadPhysicalRecord(_, _)
ReadPhysicalRecord(f, rd) ==
  IF rd.len < HeaderSize
  THEN IF rd.eof THEN [type |-> "eof", reader |-> [rd EXCEPT !.len = 0]]
       ELSE LET n == Max({0, Min({BlockSize, Len(f) - rd.off})})
            IN  ReadPhysicalRecord(f, [rd EXCEPT !.off = @ + n, !.len = n, !.eof = n < BlockSize])
  ELSE LET p == rd.off - rd.len
           h == f[p + 1]
           data == SubSeq(f, p + HeaderSize + 1, p + HeaderSize + h.length)
           rest == [rd EXCEPT !.len = @ - HeaderSize - h.length]
       IN  IF ~ HeaderAt(f, p) THEN Bad(rd)
           ELSE IF HeaderSize + h.length > rd.len
                THEN IF rd.eof THEN [type |-> "eof", reader |-> [rd EXCEPT !.len = 0]] ELSE Bad(rd)
           ELSE IF ~ ChecksumHolds(h, data) THEN Bad(rd)
           ELSE IF p < rd.start THEN [type |-> "bad", reader |-> rest]
           ELSE [type |-> h.type, record |-> h.record, at |-> p, data |-> data, reader |-> rest]

Drop(rd, reported) ==
  [rd EXCEPT !.fragmented = FALSE, !.scratch = << >>, !.drops = @ + IF reported THEN 1 ELSE 0]
Deliver(rd, r, at, data) ==
  [rd EXCEPT !.fragmented = FALSE, !.scratch = << >>,
             !.out = Append(@, [record |-> r, at |-> at, data |-> data])]

Begun(rd) == rd.fragmented

(* The switch of ReadRecord on one physical record.                        *)
Use(rd, ph) ==
  CASE ph.type = "full" -> Deliver(Drop(rd, rd.scratch # << >>), ph.record, ph.at, ph.data)
    [] ph.type = "first" -> [Drop(rd, rd.scratch # << >>) EXCEPT
         !.fragmented = TRUE, !.record = ph.record, !.offset = ph.at, !.scratch = ph.data]
    [] ph.type = "middle" /\ Begun(rd) -> [rd EXCEPT !.scratch = @ \o ph.data]
    [] ph.type = "last" /\ Begun(rd) -> Deliver(rd, rd.record, rd.offset, rd.scratch \o ph.data)
    [] ph.type \in {"middle", "last"} /\ ~ Begun(rd) -> [rd EXCEPT !.drops = @ + 1]
    [] OTHER -> IF rd.fragmented THEN Drop(rd, TRUE) ELSE rd

(* ReadRecord until the end of the file; a reader that starts inside the   *)
(* file first skips the rest of a record that began before its start.      *)
RECURSIVE ReadOn(_, _)
ReadOn(f, rd) ==
  LET ph == ReadPhysicalRecord(f, rd)
      skip == rd.resyncing /\ ph.type \in {"middle", "last"}
      next == [ph.reader EXCEPT !.resyncing = @ /\ ph.type = "middle"]
  IN  IF ph.type = "eof" THEN ph.reader
      ELSE ReadOn(f, IF skip THEN next ELSE Use(next, ph))

Read(f, start) == ReadOn(f, NewReader(start))
RecordsOf(rd) == [i \in DOMAIN rd.out |-> rd.out[i].record]

-----------------------------------------------------------------------------
Init ==
  /\ file = << >> /\ blockOffset = 0 /\ synced = 0 /\ closed = FALSE
  /\ lengths = << >> /\ places = << >>
  /\ failures = 0 /\ damage = 0 /\ gaps = FALSE

NextRecord == Len(lengths) + 1
CellsOf(pieces) == FlattenSeq([i \in DOMAIN pieces |-> pieces[i].cells])
Writable == ~ closed /\ damage = 0 /\ NextRecord <= MaxRecords

(* AddRecord of n bytes, every append succeeding.                          *)
AddRecord(n) ==
  /\ Writable
  /\ LET pieces == Pieces(NextRecord, 0, n, blockOffset, TRUE)
     IN  /\ file' = file \o CellsOf(pieces)
         /\ blockOffset' = Last(pieces).after
         /\ places' = places @@ (NextRecord :> [first |-> Len(file) + pieces[1].filling + 1,
                                              last |-> Len(file) + Len(CellsOf(pieces))])
  /\ lengths' = Append(lengths, n)
  /\ UNCHANGED <<synced, closed, failures, damage, gaps>>

(* An append fails at piece j, k of whose cells get to the file; no other  *)
(* is tried, but block_offset_ moves as if the piece were there.           *)
AddRecordFails(n) ==
  /\ Writable
  /\ failures < MaxFailures /\ failures' = failures + 1
  /\ LET pieces == Pieces(NextRecord, 0, n, blockOffset, TRUE) IN
     \E j \in DOMAIN pieces : \E k \in 0..Len(pieces[j].cells) :
       /\ file' = file \o CellsOf(SubSeq(pieces, 1, j - 1)) \o SubSeq(pieces[j].cells, 1, k)
       /\ blockOffset' = pieces[j].after
  /\ lengths' = Append(lengths, n)
  /\ gaps' = TRUE
  /\ UNCHANGED <<synced, closed, places, damage>>

(* WritableFile::Sync.                                                     *)
Sync ==
  /\ ~ closed /\ synced < Len(file)
  /\ synced' = Len(file)
  /\ UNCHANGED <<file, blockOffset, closed, lengths, places, failures, damage, gaps>>

(* The machine stops: the file keeps what was synced and any part of what  *)
(* was written since.  With reuse_logs the next process appends to it.     *)
Crash ==
  /\ ~ closed
  /\ failures < MaxFailures /\ failures' = failures + 1
  /\ \E cut \in synced..Len(file) :
       /\ file' = SubSeq(file, 1, cut)
       /\ synced' = cut
       /\ places' = [r \in {q \in DOMAIN places : places[q].last <= cut} |-> places[r]]
       /\ blockOffset' = cut % BlockSize
       /\ gaps' = (gaps \/ (ReuseLogs /\ cut > 0 /\ \A r \in DOMAIN places : places[r].last # cut))
  /\ closed' = ~ ReuseLogs
  /\ UNCHANGED <<lengths, damage>>

(* A byte goes bad.                                                        *)
Damage ==
  /\ damage < MaxDamage /\ damage' = damage + 1
  /\ \E i \in DOMAIN file : file' = [file EXCEPT ![i] = Junk]
  /\ UNCHANGED <<blockOffset, synced, closed, lengths, places, failures, gaps>>

Next == (\E n \in Lengths : AddRecord(n) \/ AddRecordFails(n)) \/ Sync \/ Crash \/ Damage
Spec == Init /\ [][Next]_vars

-----------------------------------------------------------------------------
(* The properties. *)

(* Types; in particular a writer never stands where a header cannot.       *)
TypeOK ==
  /\ \A i \in DOMAIN file : file[i].kind \in {"header", "data", "filler", "junk"}
  /\ blockOffset \in 0..BlockSize /\ synced \in 0..Len(file)
  /\ ~ gaps => blockOffset % BlockSize = Len(file) % BlockSize
  /\ \A r \in DOMAIN lengths : lengths[r] \in Lengths
  /\ DOMAIN places \subseteq DOMAIN lengths
  /\ failures \in 0..MaxFailures /\ damage \in 0..MaxDamage
  /\ closed \in BOOLEAN /\ gaps \in BOOLEAN

(* Whatever failed, was cut off or went bad, a reader gives only records   *)
(* that were written, whole, each once and in their order: no record is    *)
(* put together from pieces of two.                                        *)
WholeRecords ==
  LET rd == Read(file, 0) IN
  /\ \A i \in DOMAIN rd.out :
       rd.out[i].data = Payload(rd.out[i].record, 0, lengths[rd.out[i].record])
  /\ \A i, j \in DOMAIN rd.out : i < j => rd.out[i].record < rd.out[j].record

(* As long as no append failed, a reader gives every record that is whole  *)
(* in the file, and takes half a record at its end for the end, not for an *)
(* error ("Don't report a corruption", log_reader.cc).                     *)
ReadBack ==
  ~ gaps /\ damage = 0 =>
    LET rd == Read(file, 0)
    IN  rd.drops = 0 /\ ToSet(RecordsOf(rd)) = DOMAIN places

(* A bad byte costs only the records with a part in its block.             *)
DamageConfined ==
  ~ gaps /\ Junk \in ToSet(file) =>
    LET bad == CHOOSE i \in DOMAIN file : file[i] = Junk
        BlockOf(i) == (i - 1) \div BlockSize
    IN  \A r \in DOMAIN places :
          BlockOf(bad) \notin BlockOf(places[r].first)..BlockOf(places[r].last)
            => r \in ToSet(RecordsOf(Read(file, 0)))

(* A reader that starts anywhere gives the records that begin there or     *)
(* later, each with the place it begins.                                   *)
StartAnywhere ==
  ~ gaps /\ damage = 0 => \A start \in 0..Len(file) :
    LET rd == Read(file, start)
    IN  {<<rd.out[i].record, rd.out[i].at>> : i \in DOMAIN rd.out}
          = {<<r, places[r].first - 1>> : r \in {q \in DOMAIN places : places[q].first > start}}
=============================================================================
