----------------------------- MODULE LogFormat -----------------------------
(***************************************************************************)
(* The log file (log_writer.cpp, log_reader.cpp, log_format.h): records    *)
(* cut into fragments that never cross a block, and the reader that puts   *)
(* them together again after a crash cut the file, a sector went bad, or   *)
(* an append failed half way.                                              *)
(*                                                                         *)
(* A file is a sequence of cells, one per byte.  The first cell of a       *)
(* fragment holds its whole header; its checksum is the data it covers,    *)
(* that is, an ideal one.  Fault_... definitions are wrong variants that   *)
(* the specification does not use.                                         *)
(***************************************************************************)
EXTENDS Integers, SequencesExt

CONSTANTS kBlockSize, kHeaderSize,
          RecordSizes,     \* sizes a record may have
          MaxRecords       \* bound: records appended

ASSUME LogAssumption ==
    /\ kHeaderSize \in Nat \ {0} /\ kBlockSize \in Nat /\ kBlockSize > kHeaderSize
    /\ RecordSizes \subseteq Nat /\ MaxRecords \in Nat

VARIABLES
    log_file,        \* the cells
    log_writer,      \* [block_offset, left: cells still to emit, begin, busy]
    log_added,       \* per record: [data, start, end, acked]
    log_fault,       \* "none", "append", "cut", "damage", "read"
    log_bad,         \* the offset where it happened
    log_reader,      \* the Reader, see NewReader; busy while there is more to read
    log_out          \* what ReadRecord returned: [data, offset]
log_vars == <<log_file, log_writer, log_added, log_fault, log_bad, log_reader, log_out>>

kFullType == 1
kFirstType == 2
kMiddleType == 3
kLastType == 4
kEof == 5
kBadRecord == 6

-----------------------------------------------------------------------------
(* The writer *)

Record(id, n) == [k \in 1 .. n |-> [kind |-> "data", of |-> id, at |-> k]]
Filler(kind, n) == [k \in 1 .. n |-> [kind |-> kind]]

\* EmitPhysicalRecord: the cells of one fragment.
Physical(t, data) ==
    <<[kind |-> "header", type |-> t, length |-> Len(data), crc |-> <<t, data>>]>>
    \o Filler("rest of header", kHeaderSize - 1) \o data

FragmentType(begin, end) ==
    IF begin /\ end THEN kFullType
    ELSE IF begin THEN kFirstType
    ELSE IF end THEN kLastType
    ELSE kMiddleType

\* A fragment needs a header: less room than that is a trailer.
LeftoverIsTrailer(offset) == kBlockSize - offset < kHeaderSize

AddRecord(n) ==
    /\ ~log_writer.busy /\ ~log_reader.open /\ log_fault \in {"none", "append"}
    /\ Len(log_added) < MaxRecords
    /\ LET data == Record(Len(log_added) + 1, n)
       IN /\ log_writer' = [log_writer EXCEPT !.left = data, !.begin = TRUE, !.busy = TRUE]
          /\ log_added' = Append(log_added, [data |-> data, start |-> -1, end |-> -1,
                                             acked |-> FALSE])
    /\ UNCHANGED <<log_file, log_fault, log_bad, log_reader, log_out>>

\* One turn of AddRecord's loop: the trailer, then a fragment.  An append that
\* fails may have written any part of it, and block_offset_ advances all the same;
\* AddRecord does not even look at the status of the trailer.
EmitFragment(lost, written) ==
    LET w == log_writer
        fresh == LeftoverIsTrailer(w.block_offset)
        room == IF fresh THEN kBlockSize - w.block_offset ELSE 0
        trailer == Filler("zero", room - lost)
        offset == IF fresh THEN 0 ELSE w.block_offset
        avail == kBlockSize - offset - kHeaderSize
        n == IF Len(w.left) < avail THEN Len(w.left) ELSE avail
        end == n = Len(w.left)
        cells == Physical(FragmentType(w.begin, end), SubSeq(w.left, 1, n))
        ok == written = Len(cells)
        start == Len(log_file) + Len(trailer)
        fails == lost > 0 \/ ~ok
        id == Len(log_added)
    IN /\ w.busy /\ lost <= room /\ written \in 0 .. Len(cells)
       /\ fails => log_fault = "none"
       /\ log_file' = log_file \o trailer \o SubSeq(cells, 1, written)
       /\ log_writer' = [block_offset |-> offset + Len(cells), begin |-> FALSE,
                         left |-> SubSeq(w.left, n + 1, Len(w.left)), busy |-> ok /\ ~end]
       /\ log_added' = [log_added EXCEPT ![id].start = IF w.begin THEN start ELSE @,
                                         ![id].end = start + Len(cells),
                                         ![id].acked = ok /\ end]
       /\ log_fault' = IF fails THEN "append" ELSE log_fault
       /\ log_bad' = IF fails THEN Len(log_file) ELSE log_bad
       /\ UNCHANGED <<log_reader, log_out>>

-----------------------------------------------------------------------------
(* What happens to the file between the writer and the reader *)

\* The process or the machine dies: the file ends anywhere.
CutTail(n) ==
    /\ ~log_reader.open /\ log_fault = "none" /\ n \in 0 .. Len(log_file)
    /\ log_file' = SubSeq(log_file, 1, n)
    /\ log_fault' = "cut"
    /\ log_writer' = [log_writer EXCEPT !.busy = FALSE]
    /\ UNCHANGED <<log_added, log_bad, log_reader, log_out>>

\* One cell changes on the disk; a changed header may show any type and length.
DamageCell(i) ==
    /\ ~log_reader.open /\ ~log_writer.busy /\ log_fault = "none" /\ i \in DOMAIN log_file
    /\ \E cell \in IF log_file[i].kind = "header"
                    THEN {[log_file[i] EXCEPT !.type = t, !.length = n] :
                             t \in 0 .. kLastType + 1, n \in 0 .. kBlockSize} \ {log_file[i]}
                    ELSE {[kind |-> "changed"]} :
          log_file' = [log_file EXCEPT ![i] = cell]
    /\ log_fault' = "damage" /\ log_bad' = i - 1
    /\ UNCHANGED <<log_writer, log_added, log_reader, log_out>>

-----------------------------------------------------------------------------
(* The reader.  buffer_ is the cells lo .. hi - 1 of the file (offsets from *)
(* 0), and hi is end_of_buffer_offset_ and the position in the file.        *)

NewReader(initial) ==
    [open |-> TRUE, busy |-> TRUE, initial |-> initial, lo |-> 0, hi |-> 0,
     eof |-> FALSE, last |-> 0, drops |-> 0,
     calling |-> FALSE, in_fragmented |-> FALSE, scratch |-> <<>>, start |-> 0]

OpenReader(initial) ==
    /\ ~log_reader.open /\ ~log_writer.busy
    /\ initial = 0 \/ log_fault = "none"
    /\ log_reader' = NewReader(initial)
    /\ UNCHANGED <<log_file, log_writer, log_added, log_fault, log_bad, log_out>>

\* ReportDrop: the comparison is of unsigned numbers, a negative one is large.
ReportDrop(r, bytes) ==
    IF r.lo - bytes < 0 \/ r.lo - bytes >= r.initial THEN [r EXCEPT !.drops = @ + 1] ELSE r

SkipToInitialBlock(r) ==
    LET inBlock == r.initial % kBlockSize
        block == r.initial - inBlock
        skip == IF inBlock > kBlockSize - (kHeaderSize - 1) THEN block + kBlockSize ELSE block
    IN [r EXCEPT !.lo = skip, !.hi = skip]

Fault_Refill(r) ==
    LET end == IF r.hi + kBlockSize < Len(log_file) THEN r.hi + kBlockSize
               ELSE IF r.hi < Len(log_file) THEN Len(log_file) ELSE r.hi
    IN IF r.hi - r.lo < kHeaderSize /\ ~r.eof
       THEN [r EXCEPT !.lo = r.hi, !.hi = end, !.eof = end - r.hi <= kBlockSize]
       ELSE r

\* Refilling buffer_ with the next block; a short one is the last.
Refill(r) ==
    LET end == IF r.hi + kBlockSize < Len(log_file) THEN r.hi + kBlockSize
               ELSE IF r.hi < Len(log_file) THEN Len(log_file) ELSE r.hi
    IN IF r.hi - r.lo < kHeaderSize /\ ~r.eof
       THEN [r EXCEPT !.lo = r.hi, !.hi = end, !.eof = end - r.hi < kBlockSize]
       ELSE r

Cleared(r) == [r EXCEPT !.lo = r.hi]

\* The cells at offset lo are a whole header.
HeaderAt(lo) ==
    /\ log_file[lo + 1].kind = "header"
    /\ \A k \in 2 .. kHeaderSize : log_file[lo + k].kind = "rest of header"
Physically(r, t, data) == [r |-> r, type |-> t, data |-> data]

Fault_TornRecord(r) == Physically(ReportDrop(Cleared(r), r.hi - r.lo), kBadRecord, <<>>)

\* The file ends in the middle of a record: the writer died, no corruption.
TornRecord(r) == Physically(Cleared(r), kEof, <<>>)

Fault_ReadPhysicalRecord(r0) ==
    LET r == Refill(r0)
        h == log_file[r.lo + 1]
        next == r.lo + kHeaderSize + h.length
        data == SubSeq(log_file, r.lo + kHeaderSize + 1, next)
    IN IF r.hi - r.lo < kHeaderSize THEN Physically(Cleared(r), kEof, <<>>)
       ELSE IF ~HeaderAt(r.lo) \/ next > r.hi THEN Physically(Cleared(r), kEof, <<>>)
       ELSE Physically([r EXCEPT !.lo = next], h.type, data)

\* Cells that are not a header give garbage for a length and a checksum.
ReadPhysicalRecord(r0) ==
    LET r == Refill(r0)
        h == log_file[r.lo + 1]
        next == r.lo + kHeaderSize + h.length
        data == SubSeq(log_file, r.lo + kHeaderSize + 1, next)
        drop == ReportDrop(Cleared(r), r.hi - r.lo)
    IN IF r.hi - r.lo < kHeaderSize THEN Physically(Cleared(r), kEof, <<>>)
       ELSE IF ~HeaderAt(r.lo) THEN Physically(drop, kBadRecord, <<>>)
       ELSE IF next > r.hi
            THEN IF r.eof THEN TornRecord(r) ELSE Physically(drop, kBadRecord, <<>>)
       ELSE IF h.type = 0 /\ h.length = 0 THEN Physically(Cleared(r), kBadRecord, <<>>)
       ELSE IF h.crc # <<h.type, data>> THEN Physically(drop, kBadRecord, <<>>)
       ELSE IF r.lo < r.initial THEN Physically([r EXCEPT !.lo = next], kBadRecord, <<>>)
       ELSE Physically([r EXCEPT !.lo = next], h.type, data)

\* A record begins while another is open: dropped, unless it is empty.
DropPartial(r) ==
    IF r.in_fragmented /\ r.scratch # <<>> THEN ReportDrop(r, Len(r.scratch)) ELSE r

Return(r, offset, data) ==
    /\ log_reader' = [r EXCEPT !.last = offset, !.calling = FALSE]
    /\ log_out' = Append(log_out, [data |-> data, offset |-> offset])
Continue(r) == log_reader' = r /\ UNCHANGED log_out

\* ReadRecord begins by skipping to initial_offset_.
Called(r) ==
    IF r.calling THEN r
    ELSE [IF r.last < r.initial THEN SkipToInitialBlock(r) ELSE r
          EXCEPT !.calling = TRUE, !.in_fragmented = FALSE, !.scratch = <<>>]

\* file_->Read fails: the rest of the file is given up.
ReadFails ==
    LET r == Called(log_reader)
    IN /\ log_reader.open /\ log_reader.busy /\ log_fault = "none"
       /\ r.hi - r.lo < kHeaderSize /\ ~r.eof
       /\ log_reader' = ReportDrop([Cleared(r) EXCEPT !.eof = TRUE, !.busy = FALSE], kBlockSize)
       /\ log_fault' = "read" /\ log_bad' = r.hi
       /\ UNCHANGED <<log_file, log_writer, log_added, log_out>>

\* One turn of ReadRecord's loop.
ReadRecord ==
    LET at == Called(log_reader)
        offset == at.lo
        p == ReadPhysicalRecord(at)
        r == p.r
    IN /\ log_reader.open /\ log_reader.busy
       /\ \/ p.type = kFullType /\ Return(DropPartial(r), offset, p.data)
          \/ /\ p.type = kFirstType
             /\ Continue([DropPartial(r) EXCEPT !.start = offset, !.scratch = p.data,
                                                !.in_fragmented = TRUE])
          \/ /\ p.type \in {kMiddleType, kLastType} /\ ~r.in_fragmented
             /\ Continue(ReportDrop(r, Len(p.data)))
          \/ /\ p.type = kMiddleType /\ r.in_fragmented
             /\ Continue([r EXCEPT !.scratch = @ \o p.data])
          \/ p.type = kLastType /\ r.in_fragmented /\ Return(r, r.start, r.scratch \o p.data)
          \/ p.type = kEof /\ Continue([r EXCEPT !.busy = FALSE])
          \/ /\ p.type = kBadRecord
             /\ Continue([IF r.in_fragmented THEN ReportDrop(r, Len(r.scratch)) ELSE r
                           EXCEPT !.in_fragmented = FALSE, !.scratch = <<>>])
       /\ UNCHANGED <<log_file, log_writer, log_added, log_fault, log_bad>>

LogInit ==
    /\ log_file = <<>> /\ log_added = <<>> /\ log_out = <<>>
    /\ log_writer = [block_offset |-> 0, left |-> <<>>, begin |-> FALSE, busy |-> FALSE]
    /\ log_fault = "none" /\ log_bad = 0
    /\ log_reader = [open |-> FALSE]

LogNext ==
    \/ \E n \in RecordSizes : AddRecord(n)
    \/ \E lost \in 0 .. kHeaderSize - 1, written \in 0 .. kBlockSize : EmitFragment(lost, written)
    \/ \E n \in 0 .. Len(log_file) : CutTail(n)
    \/ \E i \in DOMAIN log_file : DamageCell(i)
    \/ \E initial \in 0 .. Len(log_file) : OpenReader(initial)
    \/ ReadRecord
    \/ ReadFails

-----------------------------------------------------------------------------
(* Properties *)

AllRead == log_reader.open /\ ~log_reader.busy
Returned(x) == \E i \in DOMAIN log_out : log_out[i].data = x.data

\* Whatever happened to the file, ReadRecord returns records as they were added,
\* each once and in order: fragments of two records are never put together.
ReadsOnlyRecords ==
    \E f \in [DOMAIN log_out -> DOMAIN log_added] :
        /\ \A i \in DOMAIN log_out : log_out[i].data = log_added[f[i]].data
        /\ \A i, j \in DOMAIN log_out : i < j => f[i] < f[j]

BlockOf(offset) == offset \div kBlockSize

\* The part of the file that may be lost: behind a cut, behind a failed append or
\* read, in the block of a damaged cell.
Spared(x) ==
    CASE log_fault = "none" -> TRUE
      [] log_fault = "cut" -> x.end <= Len(log_file)
      [] log_fault \in {"append", "read"} -> x.end <= log_bad
      [] OTHER -> ~(BlockOf(log_bad) \in BlockOf(x.start) .. BlockOf(x.end - 1))

\* The reader returns every acknowledged record that the fault did not touch:
\* damage costs no more than its block, and the reader finds the next block.
SparedRecordsRead ==
    AllRead => \A x \in Range(log_added) :
                   x.acked /\ Spared(x) /\ x.start >= log_reader.initial => Returned(x)

\* log_reader.cpp: a writer that died in the middle of a record is no corruption.
TornTailIsSilent ==
    log_reader.open /\ log_fault \in {"none", "cut"} /\ log_reader.initial = 0
        => log_reader.drops = 0

\* The log reader returns what was added: no record that was not, every record that the
\* fault spared, and no complaint about a torn tail.
LogReadExact == ReadsOnlyRecords /\ SparedRecordsRead /\ TornTailIsSilent
=============================================================================
