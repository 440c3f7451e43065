----------------------------- MODULE TableCache -----------------------------
(***************************************************************************)
(* The table cache (table_cache.cpp) over one shard of the LRU cache       *)
(* (cache.cpp) and the limit on mapped files (env_posix.cpp): threads that *)
(* look a table up, open and insert it when it is missing, use it and      *)
(* release it, and the collector that evicts a table and deletes its file. *)
(*                                                                         *)
(* A call of the cache holds the shard's mutex and is one step; opening a  *)
(* file is several.  An entry is an LRUHandle with the file it keeps open. *)
(* Fault_... definitions are wrong variants that the specification does    *)
(* not use.                                                                *)
(***************************************************************************)
EXTENDS Integers, FiniteSets, SequencesExt

CONSTANTS TableFiles,      \* file numbers: the keys
          Hash,            \* their hashes
          Readers,         \* threads that read tables
          Capacity,        \* capacity_ of the shard, charge 1 per table
          MmapLimit,       \* files that may be mapped (1000)
          InitialLength,   \* buckets of the first HandleTable (4)
          MaxOpenFails     \* bound: failures to open a table

ASSUME TableCacheAssumption ==
    /\ Hash \in [TableFiles -> Nat] /\ Capacity \in Nat /\ MmapLimit \in Nat
    /\ InitialLength \in Nat \ {0} /\ MaxOpenFails \in Nat

VARIABLES
    tc_entry,        \* LRUHandle -> [key, refs, mapped]
    tc_list,         \* HandleTable::list_: bucket -> chain of handles
    tc_elems,        \* HandleTable::elems_
    tc_lru,          \* the LRU list, oldest first
    tc_usage,        \* usage_
    tc_allowed,      \* MmapLimiter::allowed_
    tc_reader,       \* per thread: [pc, file, handle, mapped]
    tc_files,        \* tables on the disk
    tc_fails
tc_cache == <<tc_entry, tc_list, tc_elems, tc_lru, tc_usage>>
tc_vars == <<tc_cache, tc_allowed, tc_reader, tc_files, tc_fails>>

-----------------------------------------------------------------------------
(* HandleTable: buckets of chains *)

Buckets(list) == Cardinality(DOMAIN list)
Bucket(list, f) == Hash[f] % Buckets(list)

\* FindPointer: the position in its bucket's chain, one past the end if absent.
FindPointer(list, entry, f) ==
    LET chain == list[Bucket(list, f)]
        hits == {i \in DOMAIN chain : entry[chain[i]].key = f}
    IN IF hits = {} THEN Len(chain) + 1 ELSE CHOOSE i \in hits : \A j \in hits : i <= j

TableLookup(list, entry, f) ==
    LET chain == list[Bucket(list, f)]
        i == FindPointer(list, entry, f)
    IN IF i > Len(chain) THEN {} ELSE {chain[i]}

\* The smallest power of two times InitialLength that holds n entries.
NewLength(n) ==
    LET fits == {InitialLength * 2 ^ k : k \in 0 .. n}
    IN CHOOSE l \in fits : l >= n /\ \A m \in fits : m >= n => l <= m

Chained(list) == FoldLeft(LAMBDA acc, b : acc \o list[b - 1], <<>>,
                          [b \in 1 .. Buckets(list) |-> b])

Fault_Resize(list, entry, n) == [b \in 0 .. NewLength(n) - 1 |-> IF b \in DOMAIN list THEN list[b] ELSE <<>>]

\* Resize: every handle is pushed at the front of its new bucket.
Resize(list, entry, n) ==
    LET length == NewLength(n)
    IN [b \in 0 .. length - 1 |->
          Reverse(SelectSeq(Chained(list), LAMBDA h : Hash[entry[h].key] % length = b))]

\* HandleTable::Insert: in the place of the handle with the same key, or at the end.
TableInsert(list, entry, h) ==
    LET b == Bucket(list, entry[h].key)
        others == [x \in DOMAIN entry \ {h} |-> entry[x]]
        i == FindPointer(list, others, entry[h].key)
        old == TableLookup(list, others, entry[h].key)
        chain == IF old = {} THEN Append(list[b], h) ELSE [list[b] EXCEPT ![i] = h]
        inserted == [list EXCEPT ![b] = chain]
        elems == IF old = {} THEN tc_elems + 1 ELSE tc_elems
    IN [old |-> old, elems |-> elems,
        list |-> IF old = {} /\ elems > Buckets(list) THEN Resize(inserted, entry, elems)
                 ELSE inserted]

TableRemove(list, entry, f) ==
    LET b == Bucket(list, f)
    IN IF TableLookup(list, entry, f) = {} THEN list
       ELSE [list EXCEPT ![b] = RemoveAt(@, FindPointer(list, entry, f))]

-----------------------------------------------------------------------------
(* LRUCache.  c stands for the shard: [entry, list, elems, lru, usage].     *)
(* DeleteEntry closes the file of a freed entry, which gives a mapping back.*)

Shard == [entry |-> tc_entry, list |-> tc_list, elems |-> tc_elems, lru |-> tc_lru,
          usage |-> tc_usage, freed |-> 0]

SetShard(c) ==
    /\ tc_entry' = c.entry /\ tc_list' = c.list /\ tc_elems' = c.elems
    /\ tc_lru' = c.lru /\ tc_usage' = c.usage

Unref(c, h) ==
    IF c.entry[h].refs > 1 THEN [c EXCEPT !.entry[h].refs = @ - 1]
    ELSE [c EXCEPT !.entry = [x \in DOMAIN c.entry \ {h} |-> c.entry[x]],
                   !.usage = @ - 1,
                   !.freed = @ + IF c.entry[h].mapped THEN 1 ELSE 0]

LRURemove(c, h) == [c EXCEPT !.lru = Remove(@, h)]
LRUAppend(c, h) == [c EXCEPT !.lru = Append(@, h)]

Fault_Evicted(c) == c

\* The loop of Insert: while the shard is too full, its oldest entry leaves it.
RECURSIVE Evicted(_)
Evicted(c) ==
    IF c.usage <= Capacity \/ c.lru = <<>> THEN c
    ELSE LET h == Head(c.lru)
         IN Evicted(Unref([c EXCEPT !.lru = Tail(@),
                                    !.list = TableRemove(@, c.entry, c.entry[h].key),
                                    !.elems = @ - 1], h))

CacheInsert(h, f, mapped) ==
    LET c0 == [Shard EXCEPT !.entry = [x \in DOMAIN @ \cup {h} |->
                    IF x = h THEN [key |-> f, refs |-> 2, mapped |-> mapped] ELSE @[x]],
                            !.lru = Append(@, h), !.usage = @ + 1]
        t == TableInsert(c0.list, c0.entry, h)
        c1 == [c0 EXCEPT !.list = t.list, !.elems = t.elems]
        c2 == IF t.old = {} THEN c1
              ELSE LET o == CHOOSE o \in t.old : TRUE IN Unref(LRURemove(c1, o), o)
    IN Evicted(c2)

Fault_CacheErase(f) ==
    LET hit == TableLookup(tc_list, tc_entry, f)
    IN IF hit = {} THEN Shard
       ELSE [Shard EXCEPT !.list = TableRemove(@, tc_entry, f), !.elems = @ - 1,
                          !.lru = Remove(@, CHOOSE h \in hit : TRUE)]

CacheErase(f) ==
    LET hit == TableLookup(tc_list, tc_entry, f)
    IN IF hit = {} THEN Shard
       ELSE LET h == CHOOSE h \in hit : TRUE
            IN Unref([LRURemove(Shard, h) EXCEPT !.list = TableRemove(@, tc_entry, f),
                                                 !.elems = @ - 1], h)

-----------------------------------------------------------------------------
(* TableCache: FindTable, Get, Evict *)

NoHandle == 0
FreshHandle == CHOOSE h \in 1 .. 2 * Cardinality(Readers) + Capacity + 2 :
                   h \notin DOMAIN tc_entry
               /\ \A g \in 1 .. h - 1 : g \in DOMAIN tc_entry
Steps(t, r) == tc_reader' = [tc_reader EXCEPT ![t] = r]
Idle == [pc |-> "idle", file |-> NoHandle, handle |-> NoHandle, mapped |-> FALSE]

\* FindTable: a hit is referenced and becomes the newest entry.
Lookup(t, f) ==
    LET hit == TableLookup(tc_list, tc_entry, f)
        h == CHOOSE h \in hit : TRUE
    IN /\ tc_reader[t].pc = "idle" /\ f \in tc_files
       /\ IF hit = {}
          THEN /\ Steps(t, [Idle EXCEPT !.pc = "open", !.file = f])
               /\ UNCHANGED tc_cache
          ELSE /\ Steps(t, [Idle EXCEPT !.pc = "use", !.file = f, !.handle = h])
               /\ SetShard([LRUAppend(LRURemove(Shard, h), h) EXCEPT !.entry[h].refs = @ + 1])
       /\ UNCHANGED <<tc_allowed, tc_files, tc_fails>>

\* MmapLimiter::Acquire looks at allowed_ once without its mutex ...
AcquirePeek(t) ==
    /\ tc_reader[t].pc = "open"
    /\ Steps(t, [tc_reader[t] EXCEPT !.pc = IF tc_allowed <= 0 THEN "insert" ELSE "acquire"])
    /\ UNCHANGED <<tc_cache, tc_allowed, tc_files, tc_fails>>

Fault_MayMap == TRUE
MayMap == tc_allowed > 0

\* ... and once more with it; without a slot the file is read with pread.
Acquire(t) ==
    /\ tc_reader[t].pc = "acquire"
    /\ Steps(t, [tc_reader[t] EXCEPT !.pc = IF MayMap THEN "map" ELSE "insert",
                                     !.mapped = MayMap])
    /\ tc_allowed' = IF MayMap THEN tc_allowed - 1 ELSE tc_allowed
    /\ UNCHANGED <<tc_cache, tc_files, tc_fails>>

\* GetFileSize and mmap; when one fails the slot is given back and FindTable fails.
Map(t, ok) ==
    /\ tc_reader[t].pc = "map"
    /\ ok \/ tc_fails < MaxOpenFails
    /\ Steps(t, IF ok THEN [tc_reader[t] EXCEPT !.pc = "insert"] ELSE Idle)
    /\ tc_allowed' = IF ok THEN tc_allowed ELSE tc_allowed + 1
    /\ tc_fails' = IF ok THEN tc_fails ELSE tc_fails + 1
    /\ UNCHANGED <<tc_cache, tc_files>>

\* Table::Open fails: the file is closed and the error is not cached.
OpenFails(t) ==
    /\ tc_reader[t].pc = "insert" /\ tc_fails < MaxOpenFails
    /\ Steps(t, Idle)
    /\ tc_allowed' = tc_allowed + IF tc_reader[t].mapped THEN 1 ELSE 0
    /\ tc_fails' = tc_fails + 1
    /\ UNCHANGED <<tc_cache, tc_files>>

\* Another thread may have inserted the same table meanwhile: it is displaced.
InsertTable(t) ==
    LET h == FreshHandle
        c == CacheInsert(h, tc_reader[t].file, tc_reader[t].mapped)
    IN /\ tc_reader[t].pc = "insert"
       /\ SetShard(c)
       /\ tc_allowed' = tc_allowed + c.freed
       /\ Steps(t, [tc_reader[t] EXCEPT !.pc = "use", !.handle = h, !.mapped = FALSE])
       /\ UNCHANGED <<tc_files, tc_fails>>

\* Get is done with the table, or the iterator that registered UnrefEntry is gone.
Release(t) ==
    LET c == Unref(Shard, tc_reader[t].handle)
    IN /\ tc_reader[t].pc = "use"
       /\ SetShard(c)
       /\ tc_allowed' = tc_allowed + c.freed
       /\ Steps(t, Idle)
       /\ UNCHANGED <<tc_files, tc_fails>>

\* DeleteObsoleteFiles: no Version has the file any more, so nobody is reading it.
Evict(f) ==
    LET c == CacheErase(f)
    IN /\ f \in tc_files /\ \A t \in Readers : tc_reader[t].file # f
       /\ SetShard(c)
       /\ tc_allowed' = tc_allowed + c.freed
       /\ tc_files' = tc_files \ {f}
       /\ UNCHANGED <<tc_reader, tc_fails>>

TableCacheInit ==
    /\ tc_entry = [h \in {} |-> 0] /\ tc_elems = 0 /\ tc_lru = <<>> /\ tc_usage = 0
    /\ tc_list = [b \in 0 .. InitialLength - 1 |-> <<>>]
    /\ tc_allowed = MmapLimit /\ tc_files = TableFiles /\ tc_fails = 0
    /\ tc_reader = [t \in Readers |-> Idle]

TableCacheNext ==
    \/ \E t \in Readers : \/ \E f \in TableFiles : Lookup(t, f)
                          \/ AcquirePeek(t) \/ Acquire(t)
                          \/ \E ok \in BOOLEAN : Map(t, ok)
                          \/ OpenFails(t) \/ InsertTable(t) \/ Release(t)
    \/ \E f \in TableFiles : Evict(f)

-----------------------------------------------------------------------------
(* Properties *)

Holders(h) == {t \in Readers : tc_reader[t].handle = h}

\* An entry lives exactly as long as somebody refers to it: its count is one for
\* the cache and one per reader, and no reader's handle or its table is freed.
RefsExact ==
    /\ \A t \in Readers : tc_reader[t].handle # NoHandle =>
           /\ tc_reader[t].handle \in DOMAIN tc_entry
           /\ tc_entry[tc_reader[t].handle].key = tc_reader[t].file
    /\ \A h \in DOMAIN tc_entry :
           /\ tc_entry[h].refs = Cardinality(Holders(h)) + IF Contains(tc_lru, h) THEN 1 ELSE 0
           /\ tc_entry[h].refs > 0

\* The hash table and the LRU list hold the same entries, one per key, and a
\* lookup finds each of them, whatever was inserted, removed and resized before.
TableMatchesList ==
    /\ ToSet(Chained(tc_list)) = ToSet(tc_lru) /\ tc_elems = Len(tc_lru)
    /\ \A h \in ToSet(tc_lru) : TableLookup(tc_list, tc_entry, tc_entry[h].key) = {h}

\* usage_ counts every live entry, and what the cache itself keeps is within the
\* capacity even when readers pin more than that.
UsageBounded == tc_usage = Cardinality(DOMAIN tc_entry) /\ Len(tc_lru) <= Capacity

Mapped == Cardinality({h \in DOMAIN tc_entry : tc_entry[h].mapped})
          + Cardinality({t \in Readers : tc_reader[t].mapped})

\* Mappings never exceed the limit, and each is given back when its file is closed
\* or its opening fails; an evicted table's file does not stay open.
MappingsReturned ==
    /\ tc_allowed >= 0 /\ tc_allowed + Mapped = MmapLimit
    /\ \A h \in DOMAIN tc_entry : tc_entry[h].key \in tc_files

\* The bookkeeping of the cache is exact: references, hash table against LRU list, usage
\* against capacity, and the mappings of open files against their limit.
CacheExact == RefsExact /\ TableMatchesList /\ UsageBounded /\ MappingsReturned
=============================================================================
