---------------------------- MODULE TableFormat ----------------------------
(***************************************************************************)
(* Table files: blocks of prefix-compressed keys with restart points       *)
(* (block_builder.cpp, block.cpp), the builder that cuts a table into      *)
(* blocks and keeps one separating key per block in the index              *)
(* (table_builder.cpp, comparator.cpp, dbformat.cpp), the filters          *)
(* (filter_block.cpp, bloom.cpp), and lookups in the finished file         *)
(* (table.cpp, format.cpp).                                                *)
(*                                                                         *)
(* An internal key is the bytes of its user key followed by one number for *)
(* the eight bytes of sequence number and type.  A block is its entries    *)
(* with their offsets; a file maps offsets to blocks.  Fault_...           *)
(* definitions are wrong variants that the specification does not use.     *)
(***************************************************************************)
EXTENDS Integers, FiniteSets, SequencesExt

CONSTANTS TableKeys,       \* internal keys that may be added
          MaxByte,         \* 0xff
          MaxTag,          \* kMaxSequenceNumber with kValueTypeForSeek
          RestartInterval, \* options.block_restart_interval
          BlockSizes,      \* options.block_size
          BaseLg,          \* kFilterBaseLg
          BitsPerKey, BloomProbes, BloomHash,   \* the Bloom filter
          MaxTableEntries  \* bound: entries of a table

ASSUME TableFormatAssumption ==
    /\ MaxByte \in Nat /\ MaxTag \in Nat /\ RestartInterval \in Nat \ {0}
    /\ BlockSizes \subseteq Nat /\ BaseLg \in Nat /\ BitsPerKey \in Nat
    /\ BloomProbes \in 1 .. 30 /\ MaxTableEntries \in Nat

VARIABLES tf_rep,        \* TableBuilder::Rep, see NewBuilder
          tf_added,      \* history: the keys added, in order
          tf_bad,        \* offsets of blocks damaged after Finish
          tf_iter,       \* a TwoLevelIterator over the file, see NewTwoLevel
          tf_at,         \* history: the index in tf_added it should be at, 0: not valid
          tf_scan        \* history: keys seen since SeekToFirst, <<0>> after another move
tf_vars == <<tf_rep, tf_added, tf_bad, tf_iter, tf_at, tf_scan>>

-----------------------------------------------------------------------------
(* Comparators *)

CommonPrefix(a, b) ==
    LET n == IF Len(a) < Len(b) THEN Len(a) ELSE Len(b)
        same == {i \in 0 .. n : SubSeq(a, 1, i) = SubSeq(b, 1, i)}
    IN CHOOSE i \in same : \A j \in same : j <= i

\* BytewiseComparatorImpl::Compare, as a less-than.
ByteLess(a, b) ==
    LET i == CommonPrefix(a, b)
    IN i < Len(b) /\ (i < Len(a) => a[i + 1] < b[i + 1])

UserKey(k) == Front(k)
Tag(k) == Last(k)

\* InternalKeyComparator::Compare: user keys up, sequence numbers down.
KeyLess(a, b) ==
    \/ ByteLess(UserKey(a), UserKey(b))
    \/ UserKey(a) = UserKey(b) /\ Tag(a) > Tag(b)
KeyLeq(a, b) == a = b \/ KeyLess(a, b)

ByteSeparator(start, limit) ==
    LET i == CommonPrefix(start, limit)
    IN IF i < Len(start) /\ i < Len(limit) /\ start[i + 1] < MaxByte
          /\ start[i + 1] + 1 < limit[i + 1]
       THEN Append(SubSeq(start, 1, i), start[i + 1] + 1) ELSE start

ByteSuccessor(key) ==
    LET can == {i \in DOMAIN key : key[i] # MaxByte}
        i == CHOOSE i \in can : \A j \in can : i <= j
    IN IF can = {} THEN key ELSE Append(SubSeq(key, 1, i - 1), key[i] + 1)

\* A user key that became shorter and larger gets the earliest tag.
Shortened(key, user) ==
    IF Len(user) < Len(UserKey(key)) /\ ByteLess(UserKey(key), user)
    THEN Append(user, MaxTag) ELSE key

Fault_FindShortestSeparator(start, limit) == Shortened(start, ByteSuccessor(UserKey(start)))
FindShortestSeparator(start, limit) ==
    Shortened(start, ByteSeparator(UserKey(start), UserKey(limit)))
FindShortSuccessor(key) == Shortened(key, ByteSuccessor(UserKey(key)))

-----------------------------------------------------------------------------
(* BlockBuilder: [entries, size, restarts, counter, last].  An entry has    *)
(* its offset, the length it shares with its predecessor, the rest of its   *)
(* key and a value.                                                         *)

NewBlock == [entries |-> <<>>, size |-> 0, restarts |-> <<0>>, counter |-> 0, last |-> <<>>]

\* Three lengths of a byte each, the unshared bytes (a tag has eight), the value.
EntrySize(delta) == 3 + (IF delta = <<>> THEN 0 ELSE Len(delta) + 7) + 1

Fault_BlockAdd(b, interval, key, value) ==
    LET shared == CommonPrefix(b.last, key)
        delta == SubSeq(key, shared + 1, Len(key))
    IN [entries |-> Append(b.entries, [at |-> b.size, shared |-> shared, delta |-> delta,
                                       value |-> value]),
        size |-> b.size + EntrySize(delta), last |-> key,
        restarts |-> IF b.counter < interval THEN b.restarts ELSE Append(b.restarts, b.size),
        counter |-> IF b.counter < interval THEN b.counter + 1 ELSE 1]

BlockAdd(b, interval, key, value) ==
    LET restart == b.counter >= interval
        shared == IF restart THEN 0 ELSE CommonPrefix(b.last, key)
        delta == SubSeq(key, shared + 1, Len(key))
    IN [entries |-> Append(b.entries, [at |-> b.size, shared |-> shared, delta |-> delta,
                                       value |-> value]),
        size |-> b.size + EntrySize(delta), last |-> key,
        restarts |-> IF restart THEN Append(b.restarts, b.size) ELSE b.restarts,
        counter |-> (IF restart THEN 0 ELSE b.counter) + 1]

SizeEstimate(b) == b.size + 4 * Len(b.restarts) + 4

-----------------------------------------------------------------------------
(* Block::Iter: [current, restart, key, value, next, ok]; current = size of *)
(* the block when it is not valid.  restart counts from 0.                  *)

RestartPoint(b, i) == b.restarts[i + 1]
EntryAt(b, offset) == b.entries[CHOOSE i \in DOMAIN b.entries : b.entries[i].at = offset]
EndIter(b) == [current |-> b.size, restart |-> Len(b.restarts), key |-> <<>>,
               value |-> 0, next |-> b.size, ok |-> TRUE]
CorruptIter(b) == [EndIter(b) EXCEPT !.ok = FALSE]
IterValid(b, it) == it.current < b.size
SeekToRestart(b, i) == [EndIter(b) EXCEPT !.restart = i, !.next = RestartPoint(b, i)]

ParseNextKey(b, it) ==
    IF it.next >= b.size THEN EndIter(b)
    ELSE LET e == EntryAt(b, it.next)
             later == {i \in it.restart .. Len(b.restarts) - 1 :
                          i = it.restart \/ RestartPoint(b, i) < it.next}
         IN IF Len(it.key) < e.shared THEN CorruptIter(b)
            ELSE [it EXCEPT !.current = e.at, !.key = SubSeq(@, 1, e.shared) \o e.delta,
                            !.value = e.value, !.next = e.at + EntrySize(e.delta),
                            !.restart = CHOOSE i \in later : \A j \in later : j <= i]

\* ParseNextKey until the end of the entry hits limit, or there is no more.
RECURSIVE ScanTo(_, _, _)
ScanTo(b, it, limit) ==
    LET n == ParseNextKey(b, it)
    IN IF IterValid(b, n) /\ n.next < limit THEN ScanTo(b, n, limit) ELSE n

BlockSeekToLast(b) == ScanTo(b, SeekToRestart(b, Len(b.restarts) - 1), b.size)

Fault_BlockPrev(b, it) ==
    LET before == {i \in 0 .. it.restart : i < Len(b.restarts) /\ RestartPoint(b, i) <= it.current}
        i == CHOOSE i \in before : \A j \in before : j <= i
    IN ScanTo(b, SeekToRestart(b, i), it.current)

\* Prev: back to a restart point before the entry, then forward to its predecessor.
BlockPrev(b, it) ==
    LET before == {i \in 0 .. it.restart : RestartPoint(b, i) < it.current}
        i == CHOOSE i \in before : \A j \in before : j <= i
    IN IF before = {} THEN EndIter(b) ELSE ScanTo(b, SeekToRestart(b, i), it.current)

\* The binary search over restart points: the last with a key < target.
RECURSIVE FindRestart(_, _, _, _)
FindRestart(b, target, left, right) ==
    IF left >= right THEN [at |-> left, ok |-> TRUE]
    ELSE LET mid == (left + right + 1) \div 2
             e == EntryAt(b, RestartPoint(b, mid))
         IN IF e.shared # 0 THEN [at |-> left, ok |-> FALSE]
            ELSE IF KeyLess(e.delta, target) THEN FindRestart(b, target, mid, right)
            ELSE FindRestart(b, target, left, mid - 1)

RECURSIVE ScanUntil(_, _, _)
ScanUntil(b, it, target) ==
    LET n == ParseNextKey(b, it)
    IN IF ~IterValid(b, n) \/ KeyLeq(target, n.key) THEN n ELSE ScanUntil(b, n, target)

BlockSeek(b, target) ==
    LET r == FindRestart(b, target, 0, Len(b.restarts) - 1)
    IN IF ~r.ok THEN CorruptIter(b) ELSE ScanUntil(b, SeekToRestart(b, r.at), target)

-----------------------------------------------------------------------------
(* Filters.  A filter is [bytes, k, bits]; filters are generated for every  *)
(* 2^BaseLg bytes of the file.                                              *)

\* The probes of a key: double hashing.  (The hashes of the model are small, so the
\* code's 32-bit additions do not wrap; builder and reader add alike.)
Delta(h) == (h \div 2 ^ 17) + (h % 2 ^ 17) * 2 ^ 15
Probe(key, bits, j) == LET h == BloomHash[UserKey(key)] IN (h + j * Delta(h)) % bits

CreateFilter(keys) ==
    LET asked == IF Len(keys) * BitsPerKey < 64 THEN 64 ELSE Len(keys) * BitsPerKey
        bytes == (asked + 7) \div 8
    IN [bytes |-> bytes, k |-> BloomProbes,
        bits |-> {Probe(keys[i], bytes * 8, j) : i \in DOMAIN keys, j \in 0 .. BloomProbes - 1}]

FilterMatches(f, key) ==
    \A j \in 0 .. f.k - 1 : Probe(key, f.bytes * 8, j) \in f.bits

\* FilterBlockBuilder: [keys, filters]; an empty filter is <<>>.
GenerateFilter(fb) ==
    [keys |-> <<>>, filters |-> Append(fb.filters, IF fb.keys = <<>> THEN <<>>
                                                   ELSE <<CreateFilter(fb.keys)>>)]

Fault_StartBlock(fb, offset) == GenerateFilter(fb)

RECURSIVE StartBlock(_, _)
StartBlock(fb, offset) ==
    IF offset \div 2 ^ BaseLg > Len(fb.filters) THEN StartBlock(GenerateFilter(fb), offset)
    ELSE fb

FilterFinish(fb) == IF fb.keys = <<>> THEN fb.filters ELSE GenerateFilter(fb).filters

\* FilterBlockReader: an empty filter matches nothing, a missing one everything.
KeyMayMatch(filters, offset, key) ==
    LET index == offset \div 2 ^ BaseLg + 1
    IN index \in DOMAIN filters => filters[index] # <<>> /\ FilterMatches(filters[index][1], key)

-----------------------------------------------------------------------------
(* TableBuilder *)

kBlockTrailerSize == 5
FooterSize == 48

NewBuilder(size, filter) ==
    [block_size |-> size, offset |-> 0, ok |-> TRUE, data |-> NewBlock, index |-> NewBlock,
     last |-> <<>>, pending |-> FALSE, handle |-> 0, closed |-> FALSE,
     filter |-> IF filter THEN <<StartBlock([keys |-> <<>>, filters |-> <<>>], 0)>> ELSE <<>>,
     blocks |-> <<>>, footer |-> [index |-> 0, meta |-> 0, filter |-> 0]]

\* WriteBlock and WriteRawBlock: the block at the current offset, unless Append fails.
WriteBlock(r, block, size, ok) ==
    IF ~ok THEN [r EXCEPT !.ok = FALSE]
    ELSE [r EXCEPT !.blocks = (r.offset :> block) @@ @, !.offset = @ + size + kBlockTrailerSize]

Flush(r, ok) ==
    IF ~r.ok \/ r.data.entries = <<>> THEN r
    ELSE LET w == [WriteBlock(r, r.data, SizeEstimate(r.data), ok)
                      EXCEPT !.handle = r.offset, !.data = NewBlock, !.pending = ok]
         IN [w EXCEPT !.filter = IF @ = <<>> THEN @ ELSE <<StartBlock(@[1], w.offset)>>]

IndexEntry(r, key) ==
    IF ~r.pending THEN r
    ELSE [r EXCEPT !.index = BlockAdd(@, 1, key, r.handle), !.pending = FALSE]

TableAdd(key, ok) ==
    LET r == tf_rep
        i == IF r.pending THEN IndexEntry(r, FindShortestSeparator(r.last, key)) ELSE r
        a == [i EXCEPT !.filter = IF @ = <<>> THEN @ ELSE <<[@[1] EXCEPT !.keys = Append(@, key)]>>,
                       !.last = key, !.data = BlockAdd(@, RestartInterval, key, Len(tf_added) + 1)]
    IN /\ ~r.closed /\ r.ok /\ Len(tf_added) < MaxTableEntries
       /\ tf_added # <<>> => KeyLess(Last(tf_added), key)
       /\ tf_added' = Append(tf_added, key)
       /\ tf_rep' = IF SizeEstimate(a.data) >= r.block_size THEN Flush(a, ok) ELSE a
       /\ ~ok => ~tf_rep'.ok
       /\ UNCHANGED <<tf_bad, tf_iter, tf_at, tf_scan>>

FilterSize(filters) ==
    4 * Len(filters) + 5
    + FoldSeq(LAMBDA f, n : n + IF f = <<>> THEN 0 ELSE f[1].bytes + 1, 0, filters)

\* Finish: the last block, the filter block, the metaindex and the index.  ok says
\* which of the file's operations succeed: the first that fails ends it.
TableFinish(ok) ==
    LET f == Flush(tf_rep, ok >= 1)
        filters == FilterFinish(f.filter[1])
        w == IF f.ok /\ f.filter # <<>> THEN WriteBlock(f, filters, FilterSize(filters), ok >= 2) ELSE f
        meta == IF f.filter = <<>> THEN NewBlock ELSE BlockAdd(NewBlock, RestartInterval, <<0>>, f.offset)
        m == IF w.ok THEN WriteBlock(w, meta, SizeEstimate(meta), ok >= 3) ELSE w
        x == IndexEntry(m, FindShortSuccessor(m.last))
        i == IF m.ok THEN WriteBlock(x, x.index, SizeEstimate(x.index), ok >= 4) ELSE m
    IN /\ ~tf_rep.closed /\ tf_added # <<>>
       /\ tf_rep' = [i EXCEPT !.closed = TRUE, !.offset = IF i.ok THEN @ + FooterSize ELSE @,
                              !.footer = [index |-> m.offset, meta |-> w.offset,
                                          filter |-> f.offset]]
       /\ ok # 4 => tf_rep.ok /\ ~tf_rep'.ok
       /\ UNCHANGED <<tf_added, tf_bad, tf_iter, tf_at, tf_scan>>

-----------------------------------------------------------------------------
(* The finished file.  Checksums are verified (paranoid_checks and           *)
(* verify_checksums), so a damaged block is noticed when it is read.         *)

Finished == tf_rep.closed /\ tf_rep.ok
DataOffsets == DOMAIN tf_rep.blocks \ {tf_rep.footer.index, tf_rep.footer.meta, tf_rep.footer.filter}

Damage(offset) ==
    /\ Finished /\ tf_bad = {} /\ tf_iter.index = EndIter(NewBlock)
    /\ tf_bad' = {offset}
    /\ UNCHANGED <<tf_rep, tf_added, tf_iter, tf_at, tf_scan>>

ReadBlock(offset) == offset \notin tf_bad
TableOpen == ReadBlock(tf_rep.footer.index)
IndexBlock == tf_rep.blocks[tf_rep.footer.index]

\* ReadMeta and ReadFilter: without a readable filter lookups go on without it.
FilterReader ==
    IF tf_rep.filter # <<>> /\ ReadBlock(tf_rep.footer.meta) /\ ReadBlock(tf_rep.footer.filter)
    THEN <<tf_rep.blocks[tf_rep.footer.filter]>> ELSE <<>>

\* BlockReader: an iterator over a data block, or an error.
ErrorBlock == [NewBlock EXCEPT !.counter = -1]
BlockReader(offset) == IF ReadBlock(offset) THEN tf_rep.blocks[offset] ELSE ErrorBlock

\* What the saver is called with (0: not called), and the status.
InternalGet(k) ==
    LET ii == BlockSeek(IndexBlock, k)
        b == BlockReader(ii.value)
        it == BlockSeek(b, k)
    IN IF ~IterValid(IndexBlock, ii) THEN [found |-> 0, ok |-> ii.ok]
       ELSE IF FilterReader # <<>> /\ ~KeyMayMatch(FilterReader[1], ii.value, k)
       THEN [found |-> 0, ok |-> TRUE]
       ELSE IF b = ErrorBlock THEN [found |-> 0, ok |-> FALSE]
       ELSE [found |-> IF IterValid(b, it) THEN it.value ELSE 0, ok |-> it.ok]

Fault_ApproximateOffsetOf(k) ==
    LET ii == BlockSeek(IndexBlock, k) IN IF IterValid(IndexBlock, ii) THEN ii.value ELSE 0

ApproximateOffsetOf(k) ==
    LET ii == BlockSeek(IndexBlock, k)
    IN IF IterValid(IndexBlock, ii) THEN ii.value ELSE tf_rep.footer.meta

-----------------------------------------------------------------------------
(* TwoLevelIterator: [index, block, data, saved]; block is the offset data   *)
(* iterates over, -1 when data_iter_ is NULL; saved is status_.              *)

NewTwoLevel == [index |-> EndIter(NewBlock), block |-> -1, data |-> EndIter(NewBlock), saved |-> TRUE]

DataBlock(t) == BlockReader(t.block)
DataIsOk(t) == t.block = -1 \/ (DataBlock(t) # ErrorBlock /\ t.data.ok)
TwoLevelValid(t) == t.block # -1 /\ IterValid(DataBlock(t), t.data)
TwoLevelOk(t) == t.index.ok /\ DataIsOk(t) /\ t.saved

Fault_SetDataIterator(t, block) ==
    [t EXCEPT !.block = block,
              !.data = IF block = -1 THEN EndIter(NewBlock) ELSE EndIter(BlockReader(block))]

SetDataIterator(t, block) ==
    [t EXCEPT !.saved = @ /\ DataIsOk(t), !.block = block,
              !.data = IF block = -1 THEN EndIter(NewBlock) ELSE EndIter(BlockReader(block))]

InitDataBlock(t) ==
    IF ~IterValid(IndexBlock, t.index) THEN SetDataIterator(t, -1)
    ELSE IF t.block = t.index.value THEN t ELSE SetDataIterator(t, t.index.value)

\* Seeks on an iterator over an error leave it not valid.
SeekFirstIn(b) == IF b = ErrorBlock THEN EndIter(b) ELSE ParseNextKey(b, SeekToRestart(b, 0))
SeekLastIn(b) == IF b = ErrorBlock THEN EndIter(b) ELSE BlockSeekToLast(b)
SeekIn(b, k) == IF b = ErrorBlock THEN EndIter(b) ELSE BlockSeek(b, k)

RECURSIVE SkipEmptyDataBlocksForward(_)
SkipEmptyDataBlocksForward(t) ==
    IF TwoLevelValid(t) THEN t
    ELSE IF ~IterValid(IndexBlock, t.index) THEN SetDataIterator(t, -1)
    ELSE LET n == InitDataBlock([t EXCEPT !.index = ParseNextKey(IndexBlock, @)])
         IN SkipEmptyDataBlocksForward(
               IF n.block = -1 THEN n ELSE [n EXCEPT !.data = SeekFirstIn(DataBlock(n))])

RECURSIVE SkipEmptyDataBlocksBackward(_)
SkipEmptyDataBlocksBackward(t) ==
    IF TwoLevelValid(t) THEN t
    ELSE IF ~IterValid(IndexBlock, t.index) THEN SetDataIterator(t, -1)
    ELSE LET n == InitDataBlock([t EXCEPT !.index = BlockPrev(IndexBlock, @)])
         IN SkipEmptyDataBlocksBackward(
               IF n.block = -1 THEN n ELSE [n EXCEPT !.data = SeekLastIn(DataBlock(n))])

CanIterate == Finished /\ TableOpen

IterSeek(k) ==
    LET n == InitDataBlock([tf_iter EXCEPT !.index = BlockSeek(IndexBlock, k)])
        geq == {i \in DOMAIN tf_added : KeyLeq(k, tf_added[i])}
    IN /\ CanIterate
       /\ tf_iter' = SkipEmptyDataBlocksForward(
                        IF n.block = -1 THEN n ELSE [n EXCEPT !.data = SeekIn(DataBlock(n), k)])
       /\ tf_at' = IF geq = {} THEN 0 ELSE Min(geq)
       /\ tf_scan' = <<0>>
       /\ UNCHANGED <<tf_rep, tf_added, tf_bad>>

Seen(t) == IF TwoLevelValid(t) THEN <<t.data.value>> ELSE <<>>

IterSeekToFirst ==
    LET n == InitDataBlock([tf_iter EXCEPT !.index = SeekFirstIn(IndexBlock)])
    IN /\ CanIterate
       /\ tf_iter' = SkipEmptyDataBlocksForward(
                        IF n.block = -1 THEN n ELSE [n EXCEPT !.data = SeekFirstIn(DataBlock(n))])
       /\ tf_at' = 1
       /\ tf_scan' = Seen(tf_iter')
       /\ UNCHANGED <<tf_rep, tf_added, tf_bad>>

IterSeekToLast ==
    LET n == InitDataBlock([tf_iter EXCEPT !.index = SeekLastIn(IndexBlock)])
    IN /\ CanIterate
       /\ tf_iter' = SkipEmptyDataBlocksBackward(
                        IF n.block = -1 THEN n ELSE [n EXCEPT !.data = SeekLastIn(DataBlock(n))])
       /\ tf_at' = Len(tf_added)
       /\ tf_scan' = <<0>>
       /\ UNCHANGED <<tf_rep, tf_added, tf_bad>>

IterNext ==
    /\ TwoLevelValid(tf_iter)
    /\ tf_iter' = SkipEmptyDataBlocksForward(
                     [tf_iter EXCEPT !.data = ParseNextKey(DataBlock(tf_iter), @)])
    /\ tf_at' = IF tf_at = Len(tf_added) THEN 0 ELSE tf_at + 1
    /\ tf_scan' = IF tf_scan = <<0>> THEN tf_scan ELSE tf_scan \o Seen(tf_iter')
    /\ UNCHANGED <<tf_rep, tf_added, tf_bad>>

IterPrev ==
    /\ TwoLevelValid(tf_iter)
    /\ tf_iter' = SkipEmptyDataBlocksBackward(
                     [tf_iter EXCEPT !.data = BlockPrev(DataBlock(tf_iter), @)])
    /\ tf_at' = tf_at - 1
    /\ tf_scan' = <<0>>
    /\ UNCHANGED <<tf_rep, tf_added, tf_bad>>

TableInit ==
    /\ tf_rep \in {NewBuilder(size, filter) : size \in BlockSizes, filter \in BOOLEAN}
    /\ tf_added = <<>> /\ tf_bad = {} /\ tf_iter = NewTwoLevel /\ tf_at = 0 /\ tf_scan = <<0>>

TableNext ==
    \/ \E key \in TableKeys, ok \in BOOLEAN : TableAdd(key, ok)
    \/ \E ok \in 0 .. 4 : TableFinish(ok)
    \/ \E offset \in DOMAIN tf_rep.blocks : Damage(offset)
    \/ \E key \in TableKeys : IterSeek(key)
    \/ IterSeekToFirst \/ IterSeekToLast \/ IterNext \/ IterPrev

-----------------------------------------------------------------------------
(* Properties *)

\* A lookup in a finished table finds the newest entry of the key's user key that the
\* sequence number may see, if the table has one, whatever the index separators and
\* the filters are; a lookup that says OK on a damaged table is right all the same.
TableGetExact ==
    Finished /\ TableOpen =>
        \A k \in TableKeys :
            LET r == InternalGet(k)
                geq == {i \in DOMAIN tf_added : KeyLeq(k, tf_added[i])}
            IN r.ok /\ geq # {} /\ UserKey(tf_added[Min(geq)]) = UserKey(k) => r.found = Min(geq)

\* Whatever Seek, Next and Prev are called in whatever order, across blocks and
\* restart points, the iterator over an undamaged table is where an iterator over the
\* sorted entries would be, and it rebuilds the key from the shared prefixes.
TableIterExact ==
    Finished /\ tf_bad = {} =>
        /\ TwoLevelOk(tf_iter)
        /\ TwoLevelValid(tf_iter) <=> tf_at # 0
        /\ TwoLevelValid(tf_iter) => /\ tf_iter.data.value = tf_at
                                     /\ tf_iter.data.key = tf_added[tf_at]

\* A scan from the first key that has come to its end without an error has seen every
\* entry, in order: the error of a damaged block in the middle is not forgotten.
TableScanComplete ==
    Finished /\ TableOpen /\ tf_scan # <<0>> /\ ~TwoLevelValid(tf_iter) /\ TwoLevelOk(tf_iter) =>
        tf_scan = [i \in DOMAIN tf_added |-> i]

\* ApproximateOffsetOf grows with the key and stays inside the file.
OffsetsMonotone ==
    Finished /\ TableOpen =>
        \A j, k \in TableKeys :
            /\ KeyLess(j, k) => ApproximateOffsetOf(j) <= ApproximateOffsetOf(k)
            /\ ApproximateOffsetOf(k) < tf_rep.offset

\* Lookups, iterators in both directions, scans of damaged tables and approximate offsets
\* agree with the entries that were added.
TableReadsExact == TableGetExact /\ TableIterExact /\ TableScanComplete /\ OffsetsMonotone
=============================================================================
