------------------------------- MODULE DBIter -------------------------------
(***************************************************************************)
(* Iteration over the database while it changes: NewInternalIterator and   *)
(* its cleanup (db_impl.cpp), MergingIterator over the memtables and the   *)
(* tables (merger.cpp), and DBIter, which turns internal entries into the  *)
(* user's keys at a sequence number (db_iter.cpp).                         *)
(*                                                                         *)
(* A run is a memtable, or the tables of a version; only the first run of  *)
(* di_db is written to, and an iterator over it sees what is added.  An    *)
(* entry is [k, s, t]; its sequence number stands for its value.           *)
(* Fault_... definitions are wrong variants that the specification does    *)
(* not use.                                                                *)
(***************************************************************************)
EXTENDS Integers, Sequences, FiniteSets

CONSTANTS IterKeys,       \* user keys, numbers
          MaxSequence,    \* bound: writes
          MaxRuns         \* bound: runs ever made

ASSUME DBIterAssumption == IterKeys \subseteq Nat /\ {MaxSequence, MaxRuns} \subseteq Nat

VARIABLES di_runs,        \* id -> [entries, refs]; a run with no reference is freed
          di_db,          \* ids of mem_, imm_ and the current version, newest first
          di_last,        \* LastSequence
          di_it,          \* the iterator: [m, snap, fwd, valid, key, val]
          di_at,          \* history: the key it should be at, 0 when not valid
          di_open         \* there is an iterator
di_vars == <<di_runs, di_db, di_last, di_it, di_at, di_open>>

NoEntry == [k |-> 0, s |-> 0, t |-> 0]
Freed == [entries |-> {}, refs |-> 0]
Ids == 1 .. MaxRuns

Before(a, b) == a.k < b.k \/ (a.k = b.k /\ (a.s > b.s \/ (a.s = b.s /\ a.t > b.t)))
Least(S) == IF S = {} THEN NoEntry ELSE CHOOSE e \in S : \A f \in S : f = e \/ Before(e, f)
Greatest(S) == IF S = {} THEN NoEntry ELSE CHOOSE e \in S : \A f \in S : f = e \/ Before(f, e)

-----------------------------------------------------------------------------
(* MergingIterator: [pos, cur, fwd]; pos maps each child to its entry.       *)

Children(m) == DOMAIN m.pos
Entries(id) == di_runs[id].entries
ChildSeek(id, e) == Least({f \in Entries(id) : f = e \/ Before(e, f)})
ChildNext(id, e) == Least({f \in Entries(id) : Before(e, f)})
ChildPrev(id, e) == Greatest({f \in Entries(id) : Before(f, e)})
MergedKey(m) == m.pos[m.cur]
MergedValid(m) == m.cur # 0

FindSmallest(m) ==
    LET live == {id \in Children(m) : m.pos[id] # NoEntry}
    IN [m EXCEPT !.cur = IF live = {} THEN 0
                         ELSE CHOOSE id \in live : m.pos[id] = Least({m.pos[i] : i \in live})]
FindLargest(m) ==
    LET live == {id \in Children(m) : m.pos[id] # NoEntry}
    IN [m EXCEPT !.cur = IF live = {} THEN 0
                         ELSE CHOOSE id \in live : m.pos[id] = Greatest({m.pos[i] : i \in live})]

MergedSeekToFirst(m) ==
    [FindSmallest([m EXCEPT !.pos = [id \in Children(m) |-> Least(Entries(id))]]) EXCEPT !.fwd = TRUE]
MergedSeekToLast(m) ==
    [FindLargest([m EXCEPT !.pos = [id \in Children(m) |-> Greatest(Entries(id))]]) EXCEPT !.fwd = FALSE]
MergedSeek(m, e) ==
    [FindSmallest([m EXCEPT !.pos = [id \in Children(m) |-> ChildSeek(id, e)]]) EXCEPT !.fwd = TRUE]

\* When the direction changes, the other children are put on the right side of the key.
Fault_MergedNext(m) ==
    FindSmallest([m EXCEPT !.pos[m.cur] = ChildNext(m.cur, @), !.fwd = TRUE])
MergedNext(m) ==
    LET at == MergedKey(m)
        pos == IF m.fwd THEN m.pos
               ELSE [id \in Children(m) |-> IF id = m.cur THEN at ELSE ChildNext(id, at)]
    IN FindSmallest([m EXCEPT !.pos = [pos EXCEPT ![m.cur] = ChildNext(m.cur, at)], !.fwd = TRUE])

MergedPrev(m) ==
    LET at == MergedKey(m)
        Back(id) == IF ChildSeek(id, at) # NoEntry THEN ChildPrev(id, ChildSeek(id, at))
                    ELSE Greatest(Entries(id))
        pos == IF ~m.fwd THEN m.pos
               ELSE [id \in Children(m) |-> IF id = m.cur THEN at ELSE Back(id)]
    IN FindLargest([m EXCEPT !.pos = [pos EXCEPT ![m.cur] = ChildPrev(m.cur, at)], !.fwd = FALSE])

-----------------------------------------------------------------------------
(* DBIter *)

Clear(it) == [it EXCEPT !.valid = FALSE, !.key = 0, !.val = 0]
Visible(it, e) == e.s <= it.snap

\* FindNextUserEntry; skip = 0 when not skipping.
RECURSIVE FindNextUserEntry(_, _)
FindNextUserEntry(it, skip) ==
    LET e == MergedKey(it.m)
        n == [it EXCEPT !.m = MergedNext(@)]
        hide == IF Visible(it, e) /\ e.t = 0 THEN e.k ELSE skip
    IN IF Visible(it, e) /\ e.t = 1 /\ e.k > skip THEN [it EXCEPT !.valid = TRUE, !.key = 0]
       ELSE IF MergedValid(n.m) THEN FindNextUserEntry(n, hide)
       ELSE [n EXCEPT !.valid = FALSE, !.key = 0]

\* FindPrevUserEntry; type is value_type, which starts as a deletion.
RECURSIVE FindPrevUserEntry(_, _)
FindPrevUserEntry(it, type) ==
    LET e == MergedKey(it.m)
        taken == IF e.t = 0 THEN [it EXCEPT !.key = 0, !.val = 0]
                 ELSE [it EXCEPT !.key = e.k, !.val = e.s]
    IN IF ~MergedValid(it.m) \/ (Visible(it, e) /\ type = 1 /\ e.k < it.key)
       THEN IF type = 0 THEN [Clear(it) EXCEPT !.fwd = TRUE] ELSE [it EXCEPT !.valid = TRUE]
       ELSE IF Visible(it, e) THEN FindPrevUserEntry([taken EXCEPT !.m = MergedPrev(@)], e.t)
       ELSE FindPrevUserEntry([it EXCEPT !.m = MergedPrev(@)], type)

IterNextOf(it) ==
    IF it.fwd THEN FindNextUserEntry(it, MergedKey(it.m).k)
    ELSE LET m == IF MergedValid(it.m) THEN MergedNext(it.m) ELSE MergedSeekToFirst(it.m)
             n == [it EXCEPT !.fwd = TRUE, !.m = m]
         IN IF MergedValid(m) THEN FindNextUserEntry(n, it.key) ELSE [n EXCEPT !.valid = FALSE, !.key = 0]

\* Prev of a forward iterator first leaves the entries of the current key.
RECURSIVE LeaveKey(_, _)
LeaveKey(m, key) ==
    LET n == MergedPrev(m) IN IF MergedValid(n) /\ MergedKey(n).k >= key THEN LeaveKey(n, key) ELSE n
IterPrevOf(it) ==
    LET m == IF it.fwd THEN LeaveKey(it.m, MergedKey(it.m).k) ELSE it.m
    IN IF it.fwd /\ ~MergedValid(m) THEN [Clear(it) EXCEPT !.m = m]
       ELSE FindPrevUserEntry([it EXCEPT !.fwd = FALSE, !.m = m], 0)

IterSeekOf(it, key) ==
    LET m == MergedSeek(it.m, [k |-> key, s |-> it.snap, t |-> 1])
        n == [it EXCEPT !.m = m, !.fwd = TRUE, !.val = 0]
    IN IF MergedValid(m) THEN FindNextUserEntry(n, 0) ELSE [n EXCEPT !.valid = FALSE]
IterSeekToFirstOf(it) ==
    LET m == MergedSeekToFirst(it.m)
        n == [it EXCEPT !.m = m, !.fwd = TRUE, !.val = 0]
    IN IF MergedValid(m) THEN FindNextUserEntry(n, 0) ELSE [n EXCEPT !.valid = FALSE]
IterSeekToLastOf(it) ==
    FindPrevUserEntry([it EXCEPT !.m = MergedSeekToLast(@), !.fwd = FALSE, !.val = 0], 0)

KeyOf(it) == IF it.fwd THEN MergedKey(it.m).k ELSE it.key
ValueOf(it) == IF it.fwd THEN MergedKey(it.m).s ELSE it.val

-----------------------------------------------------------------------------
(* The database *)

Unref(runs, ids) ==
    [id \in Ids |-> IF id \notin ids THEN runs[id]
                    ELSE IF runs[id].refs = 1 THEN Freed ELSE [runs[id] EXCEPT !.refs = @ - 1]]

Fresh == {id \in Ids : \A i \in Ids : i >= id => di_runs[i] = Freed /\ i \notin {di_db[j] : j \in DOMAIN di_db}}
NewId == CHOOSE id \in Fresh : \A i \in Fresh : id <= i

DBWrite(k, t) ==
    /\ di_last < MaxSequence
    /\ di_last' = di_last + 1
    /\ di_runs' = [di_runs EXCEPT ![Head(di_db)].entries = @ \cup {[k |-> k, s |-> di_last + 1, t |-> t]}]
    /\ UNCHANGED <<di_db, di_it, di_at, di_open>>

\* MakeRoomForWrite: mem_ becomes imm_.
Rotate ==
    /\ Len(di_db) < 2 /\ Fresh # {} /\ Entries(Head(di_db)) # {}
    /\ di_db' = <<NewId>> \o di_db
    /\ di_runs' = [di_runs EXCEPT ![NewId] = [entries |-> {}, refs |-> 1]]
    /\ UNCHANGED <<di_last, di_it, di_at, di_open>>

\* A flush or a compaction installs a version without the entries no read of the
\* present can see, and lets go of what it replaces.
Replace ==
    LET old == {di_db[i] : i \in 2 .. Len(di_db)}
        all == UNION {Entries(id) : id \in old}
        kept == {e \in all : e.t = 1 /\ \A f \in all : f.k = e.k => f.s <= e.s}
    IN /\ Fresh # {} /\ old # {}
       /\ di_db' = <<Head(di_db), NewId>>
       /\ di_runs' = Unref([di_runs EXCEPT ![NewId] = [entries |-> kept, refs |-> 1]], old)
       /\ UNCHANGED <<di_last, di_it, di_at, di_open>>

\* NewInternalIterator and NewIterator take a reference to everything they read.
Fault_NewInternalIterator(ids) == di_runs
NewInternalIterator(ids) == [id \in Ids |-> IF id \in ids THEN [di_runs[id] EXCEPT !.refs = @ + 1] ELSE di_runs[id]]

NewIterator ==
    LET ids == {di_db[i] : i \in DOMAIN di_db}
    IN /\ ~di_open
       /\ di_open' = TRUE
       /\ di_runs' = NewInternalIterator(ids)
       /\ di_it' = [m |-> [pos |-> [id \in ids |-> NoEntry], cur |-> 0, fwd |-> TRUE],
                    snap |-> di_last, fwd |-> TRUE, valid |-> FALSE, key |-> 0, val |-> 0]
       /\ di_at' = 0
       /\ UNCHANGED <<di_db, di_last>>

NoIterator == [m |-> [pos |-> <<>>, cur |-> 0, fwd |-> TRUE], snap |-> 0, fwd |-> TRUE,
               valid |-> FALSE, key |-> 0, val |-> 0]

CleanupIteratorState ==
    /\ di_open
    /\ di_open' = FALSE /\ di_it' = NoIterator /\ di_at' = 0
    /\ di_runs' = Unref(di_runs, Children(di_it.m))
    /\ UNCHANGED <<di_db, di_last>>

\* The keys and the newest value of each at the iterator's sequence number.
Newest(k) ==
    Least(UNION {{e \in Entries(id) : e.k = k /\ e.s <= di_it.snap} : id \in Children(di_it.m)})
View == {k \in IterKeys : Newest(k).t = 1}
LeastKey(S) == IF S = {} THEN 0 ELSE CHOOSE k \in S : \A j \in S : k <= j
GreatestKey(S) == IF S = {} THEN 0 ELSE CHOOSE k \in S : \A j \in S : k >= j

Move(it, at) == /\ di_open /\ di_it' = it /\ di_at' = at
                /\ UNCHANGED <<di_runs, di_db, di_last, di_open>>

DBIterInit ==
    /\ di_runs = [id \in Ids |-> IF id = 1 THEN [entries |-> {}, refs |-> 1] ELSE Freed]
    /\ di_db = <<1>> /\ di_last = 0 /\ di_it = NoIterator /\ di_at = 0 /\ di_open = FALSE

DBIterNext ==
    \/ \E k \in IterKeys, t \in {0, 1} : DBWrite(k, t)
    \/ Rotate \/ Replace \/ NewIterator \/ CleanupIteratorState
    \/ \E k \in IterKeys : Move(IterSeekOf(di_it, k), LeastKey({j \in View : j >= k}))
    \/ Move(IterSeekToFirstOf(di_it), LeastKey(View))
    \/ Move(IterSeekToLastOf(di_it), GreatestKey(View))
    \/ di_it.valid /\ Move(IterNextOf(di_it), LeastKey({j \in View : j > di_at}))
    \/ di_it.valid /\ Move(IterPrevOf(di_it), GreatestKey({j \in View : j < di_at}))

-----------------------------------------------------------------------------
(* Properties *)

\* However Seek, Next and Prev are mixed with each other and with writes, flushes and
\* compactions, the iterator is where an iterator over the database as it was when it
\* was made would be, with the value of that time.
IteratorIsSnapshot ==
    di_open => /\ di_it.valid <=> di_at # 0
               /\ di_it.valid => KeyOf(di_it) = di_at /\ ValueOf(di_it) = Newest(di_at).s

\* What an iterator reads is not freed while it is open, and nothing is kept that
\* neither the database nor an iterator refers to.
RunsHeld ==
    \A id \in Ids :
        di_runs[id].refs = (IF \E i \in DOMAIN di_db : di_db[i] = id THEN 1 ELSE 0)
                           + (IF id \in Children(di_it.m) THEN 1 ELSE 0)

\* A database iterator shows one state of the database and keeps what it reads alive,
\* whatever is written, flushed and compacted under it.
IteratorStable == IteratorIsSnapshot /\ RunsHeld
=============================================================================
