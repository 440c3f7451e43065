----------------------------- MODULE Encodings -----------------------------
(***************************************************************************)
(* How numbers, version edits, write batches, internal keys and file names *)
(* are written and read back (coding.cpp, version_edit.cpp,                *)
(* write_batch.cpp, dbformat.h, filename.cpp, logging.cpp).                *)
(*                                                                         *)
(* Input is a sequence of bytes.  A varint byte carries GroupBits bits and *)
(* a continuation bit (seven in the code); the widths of the two integer   *)
(* types, the number of levels and the largest number of a file name are   *)
(* parameters so that every boundary is reached with small numbers.  A     *)
(* decoder returns [ok, val, rest].  Fault_... definitions are wrong       *)
(* variants that the specification does not use.                           *)
(***************************************************************************)
EXTENDS Integers, FiniteSets, SequencesExt

CONSTANTS GroupBits, Width32, Width64,  \* 7, 32 and 64
          NumLevels,                    \* config::kNumLevels
          EditNumbers, EditKeys,        \* numbers and keys an edit may hold
          MaxFields,                    \* bound: fields of an edit
          BatchKeys, MaxBatch,          \* keys and values of a batch; bound: its records
          DigitChars, MaxDigits,        \* digits and length of a file name's number
          MaxU64                        \* ~static_cast<uint64_t>(0)

ASSUME EncodingsAssumption ==
    /\ {GroupBits, Width32, Width64, NumLevels} \subseteq Nat \ {0} /\ Width32 <= Width64
    /\ {MaxFields, MaxBatch, MaxDigits, MaxU64} \subseteq Nat
    /\ DigitChars \subseteq 0 .. 9

VARIABLES en_kind,     \* what is built: "edit", "batch" or "name"
          en_edit,     \* a VersionEdit
          en_batch,    \* a WriteBatch
          en_puts,     \* history: the records put into it
          en_name      \* digits and suffix of a file name
en_vars == <<en_kind, en_edit, en_batch, en_puts, en_name>>

-----------------------------------------------------------------------------
(* Varints and slices *)

Failed == [ok |-> FALSE, val |-> 0, rest |-> <<>>]
Got(val, rest) == [ok |-> TRUE, val |-> val, rest |-> rest]

RECURSIVE EncodeVarint64(_)
EncodeVarint64(v) ==
    IF v < 2 ^ GroupBits THEN <<v>>
    ELSE <<(v % 2 ^ GroupBits) + 2 ^ GroupBits>> \o EncodeVarint64(v \div 2 ^ GroupBits)

Fault_VarintLength(v) == IF v <= 2 ^ GroupBits THEN 1 ELSE 2

RECURSIVE VarintLength(_)
VarintLength(v) == IF v < 2 ^ GroupBits THEN 1 ELSE 1 + VarintLength(v \div 2 ^ GroupBits)

\* GetVarint32PtrFallback and GetVarint64Ptr: bits shifted past the width are lost.
RECURSIVE GetVarint(_, _, _, _)
GetVarint(in, width, shift, result) ==
    IF shift >= width \/ in = <<>> THEN Failed
    ELSE LET byte == Head(in)
             more == byte >= 2 ^ GroupBits
             sum == (result + (byte % 2 ^ GroupBits) * 2 ^ shift) % 2 ^ width
         IN IF more THEN GetVarint(Tail(in), width, shift + GroupBits, sum)
            ELSE Got(sum, Tail(in))

GetVarint32(in) == GetVarint(in, Width32, 0, 0)
GetVarint64(in) == GetVarint(in, Width64, 0, 0)

PutLengthPrefixedSlice(slice) == EncodeVarint64(Len(slice)) \o slice

Fault_GetLengthPrefixedSlice(in) ==
    LET n == GetVarint32(in)
    IN IF ~n.ok THEN Failed
       ELSE LET len == IF n.val > Len(n.rest) THEN Len(n.rest) ELSE n.val
            IN Got(SubSeq(n.rest, 1, len), SubSeq(n.rest, len + 1, Len(n.rest)))

GetLengthPrefixedSlice(in) ==
    LET n == GetVarint32(in)
    IN IF ~n.ok \/ n.val > Len(n.rest) THEN Failed
       ELSE Got(SubSeq(n.rest, 1, n.val), SubSeq(n.rest, n.val + 1, Len(n.rest)))

-----------------------------------------------------------------------------
(* VersionEdit: [nums, pointers, deleted, new]; nums maps the tags of the    *)
(* fields that are present (has_...) to their values.                        *)

kComparator == 1
kLogNumber == 2
kNextFileNumber == 3
kLastSequence == 4
kCompactPointer == 5
kDeletedFile == 6
kNewFile == 7
kPrevLogNumber == 9
NumberTags == <<kLogNumber, kPrevLogNumber, kNextFileNumber, kLastSequence>>

EmptyEdit == [nums |-> <<>>, pointers |-> <<>>, deleted |-> {}, new |-> <<>>]

\* std::set order of deleted_files_.
DeletedBefore(p, q) == p[1] < q[1] \/ (p[1] = q[1] /\ p[2] < q[2])

EncodeTo(e) ==
    LET Number(i) == IF NumberTags[i] \in DOMAIN e.nums
                     THEN EncodeVarint64(NumberTags[i]) \o EncodeVarint64(e.nums[NumberTags[i]])
                     ELSE <<>>
        Pointer(p) == EncodeVarint64(kCompactPointer) \o EncodeVarint64(p[1])
                      \o PutLengthPrefixedSlice(p[2])
        Deleted(d) == EncodeVarint64(kDeletedFile) \o EncodeVarint64(d[1]) \o EncodeVarint64(d[2])
        New(f) == EncodeVarint64(kNewFile) \o EncodeVarint64(f[1]) \o EncodeVarint64(f[2])
                  \o EncodeVarint64(f[3]) \o PutLengthPrefixedSlice(f[4])
                  \o PutLengthPrefixedSlice(f[5])
        deleted == SetToSortSeq(e.deleted, DeletedBefore)
    IN (IF kComparator \in DOMAIN e.nums
        THEN EncodeVarint64(kComparator) \o PutLengthPrefixedSlice(e.nums[kComparator]) ELSE <<>>)
       \o FlattenSeq([i \in DOMAIN NumberTags |-> Number(i)])
       \o FlattenSeq([i \in DOMAIN e.pointers |-> Pointer(e.pointers[i])])
       \o FlattenSeq([i \in DOMAIN deleted |-> Deleted(deleted[i])])
       \o FlattenSeq([i \in DOMAIN e.new |-> New(e.new[i])])

GetLevel(in) ==
    LET n == GetVarint32(in) IN IF n.ok /\ n.val < NumLevels THEN n ELSE Failed

\* A tuple of fields, each read by the decoder of its kind.
RECURSIVE GetFields(_, _, _)
GetFields(in, kinds, done) ==
    IF kinds = <<>> THEN Got(done, in)
    ELSE LET n == CASE Head(kinds) = "level" -> GetLevel(in)
                    [] Head(kinds) = "number" -> GetVarint64(in)
                    [] Head(kinds) = "slice" -> GetLengthPrefixedSlice(in)
         IN IF n.ok THEN GetFields(n.rest, Tail(kinds), Append(done, n.val)) ELSE Failed

FieldsOf(tag) ==
    CASE tag = kComparator -> <<"slice">>
      [] tag \in Range(NumberTags) -> <<"number">>
      [] tag = kCompactPointer -> <<"level", "slice">>
      [] tag = kDeletedFile -> <<"level", "number">>
      [] tag = kNewFile -> <<"level", "number", "number", "slice", "slice">>
      [] OTHER -> <<>>

SetField(e, tag, val) ==
    CASE tag = kCompactPointer -> [e EXCEPT !.pointers = Append(@, val)]
      [] tag = kDeletedFile -> [e EXCEPT !.deleted = @ \cup {val}]
      [] tag = kNewFile -> [e EXCEPT !.new = Append(@, val)]
      [] OTHER -> [e EXCEPT !.nums = (tag :> val[1]) @@ @]

\* DecodeFrom: field after field; an unknown tag, a bad field and a tag cut short fail.
RECURSIVE DecodeFrom(_, _)
Fault_DecodeFrom(in, e) ==
    LET tag == GetVarint32(in)
        val == GetFields(tag.rest, FieldsOf(tag.val), <<>>)
    IN IF ~tag.ok THEN Got(e, <<>>)
       ELSE IF FieldsOf(tag.val) = <<>> \/ ~val.ok THEN Failed
       ELSE DecodeFrom(val.rest, SetField(e, tag.val, val.val))

DecodeFrom(in, e) ==
    LET tag == GetVarint32(in)
        val == GetFields(tag.rest, FieldsOf(tag.val), <<>>)
    IN IF ~tag.ok THEN IF in = <<>> THEN Got(e, <<>>) ELSE Failed
       ELSE IF FieldsOf(tag.val) = <<>> \/ ~val.ok THEN Failed
       ELSE DecodeFrom(val.rest, SetField(e, tag.val, val.val))

FieldCount(e) == Cardinality(DOMAIN e.nums) + Len(e.pointers) + Cardinality(e.deleted) + Len(e.new)

\* The setters of VersionEdit (SetLogNumber ... AddFile, DeleteFile).
EditSet(tag, val) ==
    /\ en_kind = "edit" /\ FieldCount(en_edit) < MaxFields
    /\ en_edit' = SetField(en_edit, tag, val)
    /\ UNCHANGED <<en_kind, en_batch, en_puts, en_name>>

-----------------------------------------------------------------------------
(* WriteBatch: [seq, count, body] *)

kTypeDeletion == 0
kTypeValue == 1
EmptyBatch == [seq |-> 0, count |-> 0, body |-> <<>>]

BatchPut(b, key, value) ==
    [b EXCEPT !.count = @ + 1, !.body = @ \o <<kTypeValue>> \o PutLengthPrefixedSlice(key)
                                          \o PutLengthPrefixedSlice(value)]
BatchDelete(b, key) ==
    [b EXCEPT !.count = @ + 1, !.body = @ \o <<kTypeDeletion>> \o PutLengthPrefixedSlice(key)]

Fault_BatchAppend(dst, src) == [dst EXCEPT !.body = @ \o src.body]
BatchAppend(dst, src) == [dst EXCEPT !.count = @ + src.count, !.body = @ \o src.body]

\* Iterate: the handler is called as the records are met; the count is compared last.
RECURSIVE IterateFrom(_, _, _)
IterateFrom(in, count, calls) ==
    IF in = <<>> THEN [ok |-> Len(calls) = count, calls |-> calls]
    ELSE LET key == GetLengthPrefixedSlice(Tail(in))
             value == GetLengthPrefixedSlice(key.rest)
         IN CASE Head(in) = kTypeValue /\ key.ok /\ value.ok ->
                    IterateFrom(value.rest, count, Append(calls, <<kTypeValue, key.val, value.val>>))
              [] Head(in) = kTypeDeletion /\ key.ok ->
                    IterateFrom(key.rest, count, Append(calls, <<kTypeDeletion, key.val, <<>>>>))
              [] OTHER -> [ok |-> FALSE, calls |-> calls]
BatchIterate(b) == IterateFrom(b.body, b.count, <<>>)

\* Iterate1: only Puts; the caller's key and value are those of the last one.
BatchIterate1(b) ==
    LET calls == BatchIterate(b).calls
        dels == {i \in DOMAIN calls : calls[i][1] = kTypeDeletion}
    IN [ok |-> BatchIterate(b).ok /\ dels = {}, last |-> IF calls = <<>> THEN <<>> ELSE Last(calls)]

\* PackSequenceAndType and ParseInternalKey on the last eight bytes of a key.
PackSequenceAndType(seq, type) == seq * 256 + type
ParseInternalKey(packed) ==
    [ok |-> packed % 256 <= kTypeValue, seq |-> packed \div 256, type |-> packed % 256]

\* InsertInto: what MemTableInserter adds, record i with sequence number seq + i - 1.
Fault_InsertInto(b) ==
    LET it == BatchIterate(b)
    IN [ok |-> it.ok,
        added |-> [i \in DOMAIN it.calls |->
                      <<it.calls[i][2], PackSequenceAndType(b.seq, it.calls[i][1]), it.calls[i][3]>>]]
InsertInto(b) ==
    LET it == BatchIterate(b)
    IN [ok |-> it.ok,
        added |-> [i \in DOMAIN it.calls |->
                      <<it.calls[i][2], PackSequenceAndType(b.seq + i - 1, it.calls[i][1]),
                        it.calls[i][3]>>]]

BatchAdd(type, key, value) ==
    /\ en_kind = "batch" /\ Len(en_puts) < MaxBatch
    /\ en_batch' = IF type = kTypeValue THEN BatchPut(en_batch, key, value) ELSE BatchDelete(en_batch, key)
    /\ en_puts' = Append(en_puts, <<type, key, IF type = kTypeValue THEN value ELSE <<>>>>)
    /\ UNCHANGED <<en_kind, en_edit, en_name>>

\* BuildBatchGroup appends whole batches: here the batch to itself.
BatchAppendOther ==
    /\ en_kind = "batch" /\ en_puts # <<>> /\ 2 * Len(en_puts) <= MaxBatch
    /\ en_batch' = BatchAppend(en_batch, en_batch)
    /\ en_puts' = en_puts \o en_puts
    /\ UNCHANGED <<en_kind, en_edit, en_name>>

BatchSetSequence(seq) ==
    /\ en_kind = "batch" /\ en_batch.seq # seq
    /\ en_batch' = [en_batch EXCEPT !.seq = seq]
    /\ UNCHANGED <<en_kind, en_edit, en_puts, en_name>>

-----------------------------------------------------------------------------
(* File names: [digits, suffix]; "MANIFEST" stands for the prefix, and a     *)
(* fixed name is a suffix without digits.                                    *)

\* ConsumeDecimalNumber on the digits a name begins with.
Fault_ConsumeDigit(v, delta) == IF v > MaxU64 \div 10 THEN -1 ELSE v * 10 + delta
ConsumeDigit(v, delta) ==
    IF v > MaxU64 \div 10 \/ (v = MaxU64 \div 10 /\ delta > MaxU64 % 10) THEN -1
    ELSE v * 10 + delta
ConsumeDecimalNumber(digits) ==
    IF digits = <<>> THEN -1
    ELSE FoldLeft(LAMBDA v, d : IF v = -1 THEN -1 ELSE ConsumeDigit(v, d), 0, digits)

FixedNames == {"CURRENT", "LOCK", "LOG", "LOG.old"}
NameSuffixes == {"log", "ldb", "sst", "dbtmp", "MANIFEST", "other"} \cup FixedNames
ParseFixedName(suffix) ==
    [ok |-> TRUE, number |-> 0, type |-> CASE suffix = "CURRENT" -> "kCurrentFile"
                                           [] suffix = "LOCK" -> "kDBLockFile"
                                           [] OTHER -> "kInfoLogFile"]
ParseFileName(name) ==
    LET number == ConsumeDecimalNumber(name.digits)
        type == CASE name.suffix = "log" -> "kLogFile"
                  [] name.suffix \in {"ldb", "sst"} -> "kTableFile"
                  [] name.suffix = "dbtmp" -> "kTempFile"
                  [] name.suffix = "MANIFEST" -> "kDescriptorFile"
                  [] OTHER -> "none"
    IN IF name.digits = <<>> /\ name.suffix \in FixedNames THEN ParseFixedName(name.suffix)
       ELSE IF number = -1 \/ type = "none" THEN [ok |-> FALSE, number |-> 0, type |-> "none"]
       ELSE [ok |-> TRUE, number |-> number, type |-> type]

\* The digits snprintf's %06llu writes; three places here.
RECURSIVE Decimal(_)
Decimal(n) == IF n < 10 THEN <<n>> ELSE Append(Decimal(n \div 10), n % 10)
MakeFileName(number, suffix) ==
    LET d == Decimal(number)
    IN [digits |-> IF Len(d) >= 3 THEN d ELSE [i \in 1 .. 3 - Len(d) |-> 0] \o d, suffix |-> suffix]

NameChar(c) ==
    /\ en_kind = "name" /\ Len(en_name.digits) < MaxDigits
    /\ en_name' = [en_name EXCEPT !.digits = Append(@, c)]
    /\ UNCHANGED <<en_kind, en_edit, en_batch, en_puts>>

NameSuffix(suffix) ==
    /\ en_kind = "name" /\ en_name.suffix # suffix
    /\ en_name' = [en_name EXCEPT !.suffix = suffix]
    /\ UNCHANGED <<en_kind, en_edit, en_batch, en_puts>>

EncodingsInit ==
    /\ en_kind \in {"edit", "batch", "name"} /\ en_edit = EmptyEdit /\ en_batch = EmptyBatch
    /\ en_puts = <<>> /\ en_name = [digits |-> <<>>, suffix |-> "other"]

EncodingsNext ==
    \/ \E tag \in Range(NumberTags), n \in EditNumbers : EditSet(tag, <<n>>)
    \/ \E key \in EditKeys : EditSet(kComparator, <<key>>)
    \/ \E level \in 0 .. NumLevels - 1, key \in EditKeys : EditSet(kCompactPointer, <<level, key>>)
    \/ \E level \in 0 .. NumLevels - 1, n \in EditNumbers : EditSet(kDeletedFile, <<level, n>>)
    \/ \E level \in 0 .. NumLevels - 1, n, size \in EditNumbers, small, large \in EditKeys :
          EditSet(kNewFile, <<level, n, size, small, large>>)
    \/ \E type \in {kTypeDeletion, kTypeValue}, key, value \in BatchKeys : BatchAdd(type, key, value)
    \/ BatchAppendOther
    \/ \E seq \in EditNumbers : BatchSetSequence(seq)
    \/ \E c \in DigitChars : NameChar(c)
    \/ \E suffix \in NameSuffixes : NameSuffix(suffix)

-----------------------------------------------------------------------------
(* Properties *)

\* An edit is read back as it was written; and an edit cut short anywhere is refused
\* unless the cut is between two fields: no field is half read.
EditRoundTrip ==
    en_kind = "edit" =>
        LET bytes == EncodeTo(en_edit)
        IN /\ DecodeFrom(bytes, EmptyEdit) = Got(en_edit, <<>>)
           /\ \A n \in 0 .. Len(bytes) - 1 :
                 LET cut == DecodeFrom(SubSeq(bytes, 1, n), EmptyEdit)
                 IN cut.ok => EncodeTo(cut.val) = SubSeq(bytes, 1, n)

\* A varint is read back by the decoder of its width, has VarintLength bytes, and cut
\* short it is refused.
VarintRoundTrip ==
    en_kind = "edit" =>
        \A tag \in DOMAIN en_edit.nums \ {kComparator} :
            LET v == en_edit.nums[tag]
                bytes == EncodeVarint64(v)
            IN /\ Len(bytes) = VarintLength(v)
               /\ GetVarint64(bytes \o <<0>>) = Got(v, <<0>>)
               /\ v < 2 ^ Width32 => GetVarint32(bytes) = Got(v, <<>>)
               /\ \A n \in 0 .. Len(bytes) - 1 : ~GetVarint64(SubSeq(bytes, 1, n)).ok

\* InsertInto adds every record of the batch, in order, with consecutive sequence
\* numbers, also for a group appended from several batches; Iterate1 gives the last Put.
BatchRoundTrip ==
    en_kind = "batch" =>
        LET in == InsertInto(en_batch)
            one == BatchIterate1(en_batch)
        IN /\ in.ok /\ Len(in.added) = Len(en_puts)
           /\ \A i \in DOMAIN en_puts :
                 /\ in.added[i][1] = en_puts[i][2] /\ in.added[i][3] = en_puts[i][3]
                 /\ ParseInternalKey(in.added[i][2])
                       = [ok |-> TRUE, seq |-> en_batch.seq + i - 1, type |-> en_puts[i][1]]
           /\ one.ok <=> \A i \in DOMAIN en_puts : en_puts[i][1] = kTypeValue
           /\ one.ok /\ en_puts # <<>> => one.last = Last(en_puts)

\* A batch cut short anywhere is refused, after it has added a prefix of its records.
BatchCutRefused ==
    en_kind = "batch" =>
        \A n \in 0 .. Len(en_batch.body) - 1 :
            LET in == InsertInto([en_batch EXCEPT !.body = SubSeq(@, 1, n)])
            IN ~in.ok /\ IsPrefix(in.added, InsertInto(en_batch).added)

\* A name is parsed as the number its digits denote, or refused when that is too large
\* or its suffix is not one of the database's; made names are read back.  A fixed name is
\* taken only as it stands, with no digits in front.
NamesParse ==
    en_kind = "name" =>
        LET d == en_name.digits
            value == FoldLeft(LAMBDA v, c : v * 10 + c, 0, d)
            p == ParseFileName(en_name)
            fixed == en_name.suffix \in FixedNames
        IN /\ p.ok <=> IF fixed THEN d = <<>> ELSE d # <<>> /\ value <= MaxU64 /\ en_name.suffix # "other"
           /\ p.ok => /\ p.number = value
                      /\ fixed \/ ParseFileName(MakeFileName(value, en_name.suffix)) = p

\* What the encoders write, the decoders read back: version edits, varints, write batches
\* and file names; and what is cut short they refuse.
DecodersInvert ==
    /\ EditRoundTrip
    /\ VarintRoundTrip
    /\ BatchRoundTrip
    /\ BatchCutRefused
    /\ NamesParse
=============================================================================
