------------------------------ MODULE MemTable ------------------------------
(***************************************************************************)
(* The memtable: a skip list (skiplist.h, memtable.cpp) that one thread    *)
(* inserts into while others read it without a lock.  Each store to a link *)
(* and each load of one is a step.  Entries are named by their sequence    *)
(* number, which is the order they are inserted in; the internal key order *)
(* is by user key, newest first.                                           *)
(*                                                                         *)
(* max_height_ is stored without a barrier: a reader may see any value it  *)
(* has had.  Fault_... definitions are wrong variants that the             *)
(* specification does not use.                                             *)
(***************************************************************************)
EXTENDS Integers, FiniteSets

CONSTANTS UserKeys,        \* a set of naturals
          kMaxHeight,
          MaxEntries,      \* bound: entries inserted
          MemReaders,      \* threads that read
          MaxReads         \* bound: calls of one reader

ASSUME MemTableAssumption ==
    /\ UserKeys \subseteq Nat /\ kMaxHeight \in Nat \ {0} /\ MaxEntries \in Nat
    /\ MaxReads \in Nat

ListHead == 0
NullNode == -1
UnsetLink == -2              \* a link that was never stored

VARIABLES
    sl_key,          \* user key of every entry inserted or being inserted
    sl_next,         \* node -> level -> node
    sl_height,       \* max_height_
    sl_insert,       \* Insert's locals: [busy, x, height, level, prev]
    sl_seq,          \* LastSequence: entries whose Insert has returned
    sl_reader        \* per reader: see Idling
sl_vars == <<sl_key, sl_next, sl_height, sl_insert, sl_seq, sl_reader>>

ListLevels == 0 .. kMaxHeight - 1
Nodes == DOMAIN sl_key

\* KeyComparator: node n is before the internal key <<user key, sequence>>.
Before(n, k) == sl_key[n] < k[1] \/ (sl_key[n] = k[1] /\ n > k[2])
KeyOf(n) == <<sl_key[n], n>>

-----------------------------------------------------------------------------
(* Insert *)

\* FindGreaterOrEqual for the inserting thread, which nobody disturbs: the last
\* node of each level that is before k.
Linked(level) == {n \in Nodes : \E m \in Nodes \cup {ListHead} : sl_next[m][level] = n}
PrevNode(k, level) ==
    LET smaller == {n \in Linked(level) : Before(n, k)}
    IN IF smaller = {} THEN ListHead
       ELSE CHOOSE n \in smaller : \A m \in smaller : m = n \/ Before(m, KeyOf(n))

\* MemTable::Add and the first part of SkipList::Insert: the node is made with a
\* random height, and max_height_ raised if it is higher.
InsertBegins(key, height) ==
    LET x == sl_seq + 1
    IN /\ ~sl_insert.busy /\ x <= MaxEntries
       /\ sl_key' = [n \in Nodes \cup {x} |-> IF n = x THEN key ELSE sl_key[n]]
       /\ sl_next' = [n \in DOMAIN sl_next \cup {x} |->
                        IF n = x THEN [l \in ListLevels |-> UnsetLink] ELSE sl_next[n]]
       /\ sl_insert' = [busy |-> TRUE, x |-> x, height |-> height, level |-> 0,
                        prev |-> [l \in ListLevels |-> IF l < sl_height THEN PrevNode(<<key, x>>, l)
                                                   ELSE ListHead]]
       /\ sl_height' = IF height > sl_height THEN height ELSE sl_height
       /\ UNCHANGED <<sl_seq, sl_reader>>

Fault_LinkLevel(i) == sl_insert.height - 1 - i
LinkLevel(i) == i

Fault_Link(x, level, prev) == [sl_next EXCEPT ![prev][level] = x]

\* The node's own link is stored before the node is published on that level.
Link(x, level, prev) ==
    [sl_next EXCEPT ![x][level] = sl_next[prev][level], ![prev][level] = x]

\* The loop of Insert links the node bottom-up, one level at a time; after the
\* last the writer publishes the new sequence number.
InsertLinks ==
    LET level == LinkLevel(sl_insert.level)
    IN /\ sl_insert.busy
       /\ sl_next' = Link(sl_insert.x, level, sl_insert.prev[level])
       /\ IF sl_insert.level + 1 < sl_insert.height
          THEN /\ sl_insert' = [sl_insert EXCEPT !.level = @ + 1]
               /\ UNCHANGED sl_seq
          ELSE /\ sl_insert' = [sl_insert EXCEPT !.busy = FALSE]
               /\ sl_seq' = sl_insert.x
       /\ UNCHANGED <<sl_key, sl_height, sl_reader>>

-----------------------------------------------------------------------------
(* Readers.  op is "get" and "seek" (FindGreaterOrEqual), "prev"            *)
(* (FindLessThan), "last" (FindLast) or "next"; target is an internal key.  *)

Idling == [op |-> "none", target |-> <<0, 0>>, x |-> ListHead, level |-> 0,
           seen |-> {}, done |-> FALSE, node |-> NullNode, reads |-> 0]

\* A call begins: GetMaxHeight may return a stale value.  seen is a history
\* variable: the entries that were inserted when the call began.
Begin(r, op, target) ==
    /\ sl_reader[r].op = "none" \/ sl_reader[r].done
    /\ sl_reader[r].reads < MaxReads
    /\ \E height \in 1 .. sl_height :
          sl_reader' = [sl_reader EXCEPT ![r] =
              [sl_reader[r] EXCEPT !.op = op, !.target = target, !.x = ListHead,
                        !.level = height - 1, !.seen = 1 .. sl_seq, !.done = FALSE,
                        !.reads = @ + 1]]
    /\ UNCHANGED <<sl_key, sl_next, sl_height, sl_insert, sl_seq>>

\* MemTable::Get and an iterator's Seek: a key at a snapshot taken by the caller.
MemGet(r, key) == \E s \in 0 .. sl_seq : Begin(r, "get", <<key, s>>)
SeekToLast(r) == Begin(r, "last", <<0, 0>>)
MovePrev(r) ==
    /\ sl_reader[r].done /\ sl_reader[r].node > ListHead
    /\ Begin(r, "prev", KeyOf(sl_reader[r].node))

\* Next and SeekToFirst: one load of a link at the lowest level.
StepLowest(r, from) ==
    /\ sl_reader[r].op = "none" \/ sl_reader[r].done
    /\ sl_reader[r].reads < MaxReads
    /\ sl_reader' = [sl_reader EXCEPT ![r] =
          [sl_reader[r] EXCEPT !.op = "next", !.x = from, !.level = 0, !.seen = 1 .. sl_seq,
                    !.done = TRUE, !.node = sl_next[from][0], !.reads = @ + 1]]
    /\ UNCHANGED <<sl_key, sl_next, sl_height, sl_insert, sl_seq>>
MoveNext(r) == sl_reader[r].node > ListHead /\ StepLowest(r, sl_reader[r].node)
SeekToFirst(r) == StepLowest(r, ListHead)

Fault_GoesOn(q, next) ==
    next # NullNode /\ (q.op = "last" \/ next = q.target[2] \/ Before(next, q.target))

\* Whether the search goes on in this level, past the node next.
GoesOn(q, next) ==
    next # NullNode /\ (q.op = "last" \/ Before(next, q.target))

\* One turn of the loop of FindGreaterOrEqual, FindLessThan or FindLast.
Search(r) ==
    LET q == sl_reader[r]
        next == sl_next[q.x][q.level]
        found == IF q.op = "get" THEN next ELSE IF q.x = ListHead THEN NullNode ELSE q.x
    IN /\ q.op \in {"get", "prev", "last"} /\ ~q.done /\ next # UnsetLink
       /\ sl_reader' = [sl_reader EXCEPT ![r] =
             IF GoesOn(q, next) THEN [q EXCEPT !.x = next]
             ELSE IF q.level > 0 THEN [q EXCEPT !.level = @ - 1]
             ELSE [q EXCEPT !.done = TRUE, !.node = found]]
       /\ UNCHANGED <<sl_key, sl_next, sl_height, sl_insert, sl_seq>>

MemTableInit ==
    /\ sl_key = [n \in {} |-> 0] /\ sl_height = 1 /\ sl_seq = 0
    /\ sl_next = [n \in {ListHead} |-> [l \in ListLevels |-> NullNode]]
    /\ sl_insert = [busy |-> FALSE, x |-> NullNode, height |-> 0, level |-> 0,
                    prev |-> [l \in ListLevels |-> ListHead]]
    /\ sl_reader = [r \in MemReaders |-> Idling]

MemTableNext ==
    \/ \E key \in UserKeys, height \in 1 .. kMaxHeight : InsertBegins(key, height)
    \/ InsertLinks
    \/ \E r \in MemReaders : \/ \E key \in UserKeys : MemGet(r, key)
                             \/ SeekToLast(r) \/ MovePrev(r) \/ MoveNext(r) \/ SeekToFirst(r)
                             \/ Search(r)

MemTableSpec == MemTableInit /\ [][MemTableNext]_sl_vars

-----------------------------------------------------------------------------
(* Properties *)

\* The links a reader follows were stored before it could reach them: it meets no
\* link of a node that is not yet linked at that level.
NoUnsetLink ==
    \A r \in MemReaders : LET q == sl_reader[r] IN
        q.op # "none" => sl_next[q.x][q.level] # UnsetLink /\ q.node # UnsetLink

\* Each level is in order and a part of the level below, also while a node is
\* linked at some of its levels only.
LevelsNested ==
    /\ \A l \in ListLevels, n \in Nodes : sl_next[n][l] \in Nodes => Before(n, KeyOf(sl_next[n][l]))
    /\ \A l \in ListLevels \ {0} : Linked(l) \subseteq Linked(l - 1)

\* MemTable::Get during inserts: the entry found for a key and a snapshot is the
\* newest one of the key at the snapshot, and it is found if there is one.
GetIsExact ==
    \A r \in MemReaders : LET q == sl_reader[r] IN
        q.op = "get" /\ q.done =>
            LET old == {n \in q.seen : sl_key[n] = q.target[1] /\ n <= q.target[2]}
            IN IF old = {} THEN q.node = NullNode \/ sl_key[q.node] # q.target[1]
               ELSE q.node \in old /\ \A n \in old : n <= q.node

\* An iterator that moves does move, and skips no entry that was there when it did.
NothingSkipped ==
    \A r \in MemReaders : LET q == sl_reader[r] IN
        q.done => \A n \in q.seen :
            CASE q.op = "prev" -> /\ q.node # NullNode => Before(q.node, q.target)
                                  /\ ~(Before(n, q.target)
                                       /\ (q.node = NullNode \/ Before(q.node, KeyOf(n))))
              [] q.op = "last" -> q.node # NullNode /\ ~Before(q.node, KeyOf(n))
              [] q.op = "next" -> ~((q.x = ListHead \/ Before(q.x, KeyOf(n)))
                                    /\ (q.node = NullNode \/ Before(n, KeyOf(q.node))))
              [] OTHER -> TRUE

\* Readers that walk the skip list without a lock while a node is linked level by level
\* meet a list in order, miss no entry and find the newest one.
ListReadsExact == NoUnsetLink /\ LevelsNested /\ GetIsExact /\ NothingSkipped
=============================================================================
