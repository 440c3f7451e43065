------------------------------ MODULE LSMTree -------------------------------
(***************************************************************************)
(* The log-structured merge tree: memtables, the current Version, flushes, *)
(* compactions (background and manual), snapshots and point reads          *)
(* (db_impl.cpp, version_set.cpp, memtable.cpp).                           *)
(*                                                                         *)
(* One background thread does all work on the tree.  A compaction picks    *)
(* its inputs under mutex_, merges with mutex_ released and installs under *)
(* mutex_; writers, readers, snapshots, manual compactions and the flush   *)
(* of a full memtable (done by the compaction itself) fall in between.     *)
(* Sizes in bytes are abstracted: wherever the code compares a size with a *)
(* limit, both outcomes are possible.                                      *)
(*                                                                         *)
(* Definitions named Fault_... are wrong variants of the definition that   *)
(* follows them; the specification does not use them.                      *)
(***************************************************************************)
EXTENDS Records, FiniteSets

CONSTANTS NumKeys,            \* user keys are 1 .. NumKeys
          MaxSeq,             \* bound: sequence numbers
          NumLevels,          \* config::kNumLevels (7)
          MaxMemCompactLevel, \* config::kMaxMemCompactLevel (2)
          ManualRanges,       \* <<begin, end>> of CompactRange; 0, NumKeys + 1: NULL
          Instances           \* the builds, trees and bounds to check: see "inst"

Keys == 1 .. NumKeys
Levels == 0 .. NumLevels - 1

ASSUME TreeAssumption ==
    /\ NumKeys \in Nat \ {0} /\ MaxSeq \in Nat /\ NumLevels \in Nat \ {0, 1}
    /\ MaxMemCompactLevel \in Levels
    /\ \A i \in Instances :
          /\ i.keys \in Keys /\ i.writes \in 0 .. MaxSeq
          /\ i.snapshots \in Nat /\ i.manuals \in Nat /\ i.faults \in Nat
          /\ i.verify \in BOOLEAN /\ i.cut \in BOOLEAN
    /\ ManualRanges \subseteq (0 .. NumKeys) \X (1 .. NumKeys + 1)

VARIABLES
    inst,       \* fixed for a behaviour: the tree of the opened database, whether the
                \* build defines VERIFY, whether a compaction can fill an output table
                \* (cut), and the bounds on keys, sequence numbers, open snapshots,
                \* calls of CompactRange and I/O failures of the background thread
    written,    \* history: every record written; the n-th has sequence number n
    mem, imm,   \* records of mem_ and imm_
    has_imm,    \* imm_ /= NULL
    files,      \* files_ of the current Version: level -> set of tables
    snapshots,  \* numbers of the open snapshots, oldest first
    c,          \* the compaction under way
    g,          \* g_current_user_key, g_has_current_user_key, g_last_sequence_for_key
    manual,     \* the thread in CompactRange and manual_compaction_
    manuals,    \* calls of CompactRange so far
    bg_error, faults

vars == <<inst, written, mem, imm, has_imm, files, snapshots, c, g, manual, manuals,
          bg_error, faults>>

kMaxSequenceNumber == MaxSeq + 1
LastSequence == Len(written)

\* A table: its number (compared between tables of level 0 only, and kept only
\* there), its records in table order, and whether it cannot be read.
Table(num, recs, bad) == [num |-> num, recs |-> recs, bad |-> bad]
Smallest(f) == f.recs[1]
Largest(f) == f.recs[Len(f.recs)]
Lo(f) == Smallest(f).key
Hi(f) == Largest(f).key
AtLevel(f, level) == [f EXCEPT !.num = IF level = 0 THEN @ ELSE 0]

\* The vector files_[level]: Builder keeps it sorted by smallest key.
BySmallestKey(f1, f2) == InternalBefore(Smallest(f1), Smallest(f2))
Vector(fs) == SetToSortSeq(fs, BySmallestKey)

\* NewFileNumber, as far as level 0 can tell.
NextNumber == 1 + Max({0} \cup {f.num : f \in files[0]})

-----------------------------------------------------------------------------
(* Overlaps *)

LookupKey(k, s) == [key |-> k, seq |-> s]

\* FindFile: index (from 0) of the first file whose largest key is not before
\* the target, by binary search.
FindFile(fs, target) ==
    LET search[left \in 0 .. Len(fs), right \in 0 .. Len(fs)] ==
            LET mid == (left + right) \div 2
            IN  IF left >= right THEN right
                ELSE IF InternalBefore(Largest(fs[mid + 1]), target)
                THEN search[mid + 1, right]
                ELSE search[left, mid]
    IN  search[0, Len(fs)]

\* SomeFileOverlapsRange
OverlapInLevel(level, lo, hi) ==
    IF level = 0 THEN \E f \in files[0] : ~(lo > Hi(f) \/ hi < Lo(f))
    ELSE LET fs == Vector(files[level])
             index == FindFile(fs, LookupKey(lo, kMaxSequenceNumber))
         IN  index < Len(fs) /\ ~(hi < Lo(fs[index + 1]))

\* GetOverlappingInputs: at level 0 a file that sticks out of the range widens
\* it and restarts the search.
Touching(fs, lo, hi) == {f \in fs : ~(Hi(f) < lo) /\ ~(Lo(f) > hi)}
GetOverlappingInputs(level, lo, hi) ==
    LET widened[n \in Nat] ==
            IF n = 0 THEN <<lo, hi>>
            ELSE LET r == widened[n - 1]
                     fs == Touching(files[0], r[1], r[2])
                 IN  <<Min({r[1]} \cup {Lo(f) : f \in fs}),
                       Max({r[2]} \cup {Hi(f) : f \in fs})>>
        range == widened[IF level = 0 THEN Cardinality(files[0]) ELSE 0]
    IN  Touching(files[level], range[1], range[2])

-----------------------------------------------------------------------------
(* Writes and snapshots *)

\* The whole of the group commit, which WriteQueue models.
Write(k, t) ==
    /\ ~bg_error /\ LastSequence < inst.writes /\ k <= inst.keys
    /\ LET r == [key |-> k, seq |-> LastSequence + 1, type |-> t]
       IN  written' = Append(written, r) /\ mem' = mem \cup {r}
    /\ UNCHANGED <<inst, imm, has_imm, files, snapshots, c, g, manual, manuals, bg_error, faults>>

\* MakeRoomForWrite: a full mem_ becomes imm_.
Fault_HasImmNotSet == ~bg_error /\ ~has_imm /\ imm' = mem /\ mem' = {} /\ UNCHANGED has_imm
NewMemTable == ~bg_error /\ ~has_imm /\ imm' = mem /\ has_imm' = TRUE /\ mem' = {}

SwitchMem ==
    /\ mem /= {} /\ NewMemTable
    /\ UNCHANGED <<inst, written, files, snapshots, c, g, manual, manuals, bg_error, faults>>

GetSnapshot ==
    /\ Len(snapshots) < inst.snapshots
    /\ snapshots' = Append(snapshots, LastSequence)
    /\ UNCHANGED <<inst, written, mem, imm, has_imm, files, c, g, manual, manuals, bg_error, faults>>

ReleaseSnapshot ==
    /\ \E i \in DOMAIN snapshots : snapshots' = RemoveAt(snapshots, i)
    /\ UNCHANGED <<inst, written, mem, imm, has_imm, files, c, g, manual, manuals, bg_error, faults>>

-----------------------------------------------------------------------------
(* Flushes *)

\* PickLevelForMemTableOutput: the levels it may return.
LevelsBelow(lo, hi) ==
    {level \in 0 .. MaxMemCompactLevel :
        /\ \A l \in 1 .. level : ~OverlapInLevel(l, lo, hi)
        /\ \/ level = MaxMemCompactLevel
           \/ OverlapInLevel(level + 1, lo, hi)
           \/ level + 2 < NumLevels /\ GetOverlappingInputs(level + 2, lo, hi) /= {}}
Fault_IgnoresLevel0(lo, hi) == LevelsBelow(lo, hi)
PickLevelForMemTableOutput(lo, hi) ==
    IF OverlapInLevel(0, lo, hi) THEN {0} ELSE LevelsBelow(lo, hi)

\* CompactMemTable, by the idle background thread or in the middle of a
\* compaction.  An empty memtable makes no table.
CompactMemTable ==
    /\ has_imm
    /\ imm' = {} /\ has_imm' = FALSE
    /\ IF imm = {} THEN UNCHANGED files
       ELSE LET f == Table(NextNumber, SetToSortSeq(imm, InternalBefore), FALSE)
            IN  \E level \in PickLevelForMemTableOutput(Lo(f), Hi(f)) :
                    files' = [files EXCEPT ![level] = @ \cup {AtLevel(f, level)}]
    /\ UNCHANGED <<inst, written, mem, snapshots, c, g, manual, manuals, bg_error, faults>>

\* BuildTable or LogAndApply fails: imm_ stays.
CompactMemTableFails ==
    /\ has_imm /\ faults < inst.faults
    /\ faults' = faults + 1 /\ bg_error' = TRUE
    /\ UNCHANGED <<inst, written, mem, imm, has_imm, files, snapshots, c, g, manual, manuals>>

Flush == (c.active \/ ~bg_error) /\ (CompactMemTable \/ CompactMemTableFails)

-----------------------------------------------------------------------------
(* Picking a compaction *)

NoCompaction == [active |-> FALSE, level |-> 0, in0 |-> {}, in1 |-> {},
                 smallest_snapshot |-> 0, base |-> {}, manual |-> FALSE, end |-> 0]

RangeLo(fs) == Min({Lo(f) : f \in fs})
RangeHi(fs) == Max({Hi(f) : f \in fs})

\* SetupOtherInputs: the inputs it may choose, <<in0, in1>>.  More files of
\* "level" are taken if that adds none of level + 1 and the bytes allow it.
Fault_NoParents(level, in0) == {<<in0, {}>>}
SetupOtherInputs(level, in0) ==
    LET in1 == GetOverlappingInputs(level + 1, RangeLo(in0), RangeHi(in0))
        all == in0 \cup in1
        expanded0 == GetOverlappingInputs(level, RangeLo(all), RangeHi(all))
        expanded1 == GetOverlappingInputs(level + 1, RangeLo(expanded0), RangeHi(expanded0))
    IN  {<<in0, in1>>} \cup
        (IF /\ in1 /= {} /\ Cardinality(expanded0) > Cardinality(in0)
            /\ Cardinality(expanded1) = Cardinality(in1)
         THEN {<<expanded0, expanded1>>} ELSE {})

\* IsBaseLevelForKey, in the Version the compaction started from.
Fault_AlwaysBase(level, k) == TRUE
IsBaseLevelForKey(level, k) ==
    \A l \in {l \in Levels : l >= level + 2} : Touching(files[l], k, k) = {}

\* DoCompactionWork up to the unlock.
Fault_IgnoresSnapshots == LastSequence
SmallestSnapshot == IF snapshots = <<>> THEN LastSequence ELSE snapshots[1]

StartCompaction(level, in, is_manual) ==
    c' = [active |-> TRUE, level |-> level, in0 |-> in[1], in1 |-> in[2],
          smallest_snapshot |-> SmallestSnapshot,
          base |-> {k \in Keys : IsBaseLevelForKey(level, k)},
          manual |-> is_manual, end |-> Hi(Last(Vector(in[1])))]

\* PickCompaction: any file of any level but the last, as the score,
\* compact_pointer_ or the seeks have it.
Picked(level, f) ==
    IF level = 0 THEN GetOverlappingInputs(0, Lo(f), Hi(f)) ELSE {f}

Idle == ~c.active /\ ~bg_error /\ ~has_imm

TrivialMove(level, in) ==
    /\ Cardinality(in[1]) = 1 /\ in[2] = {}
    /\ files' = [files EXCEPT ![level] = @ \ in[1],
                              ![level + 1] = @ \cup {AtLevel(f, level + 1) : f \in in[1]}]
    /\ UNCHANGED <<c, bg_error, faults>>

MoveFails(in) ==
    /\ Cardinality(in[1]) = 1 /\ in[2] = {} /\ faults < inst.faults
    /\ bg_error' = TRUE /\ faults' = faults + 1
    /\ UNCHANGED <<files, c>>

\* The move is not made if grandparents overlap too much.
MayMerge(level, in) ==
    \/ Cardinality(in[1]) > 1 \/ in[2] /= {}
    \/ level + 2 < NumLevels /\ GetOverlappingInputs(level + 2, RangeLo(in[1]), RangeHi(in[1])) /= {}

BackgroundCompaction ==
    /\ Idle /\ ~manual.set
    /\ \E level \in 0 .. NumLevels - 2 : \E f \in files[level] :
         \E in \in SetupOtherInputs(level, Picked(level, f)) :
            \/ TrivialMove(level, in)
            \/ MoveFails(in)
            \/ MayMerge(level, in) /\ StartCompaction(level, in, FALSE)
               /\ UNCHANGED <<files, bg_error, faults>>
    /\ UNCHANGED <<inst, written, mem, imm, has_imm, snapshots, g, manual, manuals>>

\* VersionSet::CompactRange: above level 0 some first files of the range.
ManualInputs(level, lo, hi) ==
    LET fs == GetOverlappingInputs(level, lo, hi)
        v == Vector(fs)
    IN  IF level = 0 THEN {fs} ELSE {{v[i] : i \in 1 .. n} : n \in 1 .. Len(v)}

\* No file left in the range.
Fault_NotDone == [manual EXCEPT !.set = FALSE]
RangeDone == [manual EXCEPT !.done = TRUE, !.set = FALSE]

ManualCompaction ==
    /\ Idle /\ manual.set
    /\ IF GetOverlappingInputs(manual.level, manual.begin, manual.end) = {}
       THEN manual' = RangeDone /\ UNCHANGED c
       ELSE /\ \E in0 \in ManualInputs(manual.level, manual.begin, manual.end) :
               \E in \in SetupOtherInputs(manual.level, in0) :
                   StartCompaction(manual.level, in, TRUE)
            /\ UNCHANGED manual
    /\ UNCHANGED <<inst, written, mem, imm, has_imm, files, snapshots, g, manuals, bg_error, faults>>

-----------------------------------------------------------------------------
(* Doing a compaction *)

\* MakeInputIterator, SU_PrepareInputs: one channel per table of level 0, one
\* per other level.  A table that cannot be read yields nothing.
Channel(f) == IF f.bad THEN <<>> ELSE f.recs
InputChannels ==
    LET each(fs) == [i \in 1 .. Cardinality(fs) |-> Channel(Vector(fs)[i])]
    IN  (IF c.level = 0 THEN each(c.in0) ELSE <<FlattenSeq(each(c.in0))>>)
        \o <<FlattenSeq(each(c.in1))>>

\* MergingIterator, or the enclave of EnclaveMerge.
Merged == Merge(InputChannels, inst.verify)

\* The drop rules of DoCompactionWork and SU_flush_data, over the records that
\* reach them: what is kept, and the key and sequence number remembered.
Fault_KeepsHidden(st, recs) ==
    LET Rule(s, r) ==
            [has |-> TRUE, key |-> r.key, last |-> r.seq,
             out |-> IF r.type = "deletion" /\ r.key \in c.base THEN s.out ELSE Append(s.out, r)]
    IN  FoldLeft(Rule, st, recs)
DropRules(st, recs) ==
    LET Rule(s, r) ==
            LET last == IF ~s.has \/ s.key /= r.key THEN kMaxSequenceNumber ELSE s.last
                drop == \/ last <= c.smallest_snapshot
                        \/ /\ r.type = "deletion"
                           /\ r.seq <= c.smallest_snapshot
                           /\ r.key \in c.base
            IN  [has |-> TRUE, key |-> r.key, last |-> r.seq,
                 out |-> IF drop THEN s.out ELSE Append(s.out, r)]
    IN  FoldLeft(Rule, st, recs)

\* The non-VERIFY loop starts from local variables, SU_flush_data from what the
\* previous compaction left in the globals.
NoKey == [has |-> FALSE, key |-> 0, last |-> kMaxSequenceNumber]
StartState == IF inst.verify THEN g ELSE NoKey
Open(st) == [has |-> st.has, key |-> st.key, last |-> st.last, out |-> <<>>]
KeyState(st) == [has |-> st.has, key |-> st.key, last |-> st.last]

\* ShouldStopBefore and MaxOutputFileSize may end an output table anywhere.
OutputTables(recs, cuts) ==
    LET ends == cuts \cup {Len(recs)}
    IN  {Table(0, SubSeq(recs, i, Min({e \in ends : e >= i})), FALSE) :
            i \in {1} \cup {e + 1 : e \in cuts}}
AllOutputs(recs) ==
    IF recs = <<>> THEN {{}}
    ELSE {OutputTables(recs, cuts) : cuts \in IF inst.cut THEN SUBSET (1 .. Len(recs) - 1)
                                              ELSE {{}}}

InstallCompactionResults(outputs) ==
    files' = [files EXCEPT ![c.level] = @ \ c.in0,
                           ![c.level + 1] = (@ \ c.in1) \cup outputs]

\* BackgroundCompaction after the work: the manual compaction moves on.
Wound(failed) ==
    IF c.manual
    THEN [manual EXCEPT !.set = FALSE, !.done = @ \/ failed,
                        !.begin = IF failed THEN @ ELSE c.end]
    ELSE manual

CompactionDone ==
    /\ c.active
    /\ LET kept == DropRules(Open(StartState), Merged)
       IN  /\ \E outputs \in AllOutputs(kept.out) : InstallCompactionResults(outputs)
           /\ g' = IF inst.verify THEN KeyState(kept) ELSE g
    /\ c' = NoCompaction /\ manual' = Wound(FALSE)
    /\ UNCHANGED <<inst, written, mem, imm, has_imm, snapshots, manuals, bg_error, faults>>

\* The last FinishCompactionOutputFile, InstallCompactionResults or, in the
\* loop of the other build, any file operation fails: nothing is installed.
CompactionFails ==
    /\ c.active /\ faults < inst.faults
    /\ faults' = faults + 1 /\ bg_error' = TRUE
    /\ g' = IF inst.verify THEN KeyState(DropRules(Open(StartState), Merged)) ELSE g
    /\ c' = NoCompaction /\ manual' = Wound(TRUE)
    /\ UNCHANGED <<inst, written, mem, imm, has_imm, files, snapshots, manuals>>

\* VERIFY: FinishCompactionOutputFile1 fails inside SU_flush_data, whose status
\* do_flush_1c ignores.  The table stays in outputs; if ShouldStopBefore ended
\* it, the record at hand is skipped.
CompactionIgnoresError ==
    /\ inst.verify /\ c.active /\ faults < inst.faults
    /\ faults' = faults + 1
    /\ \E x \in 1 .. Len(Merged) + 1 :
         \E skip \in IF x <= Len(Merged) THEN {0, 1} ELSE {0} :
            LET a == DropRules(Open(StartState), SubSeq(Merged, 1, x - 1))
                b == DropRules(Open(a), SubSeq(Merged, x + skip, Len(Merged)))
            IN  /\ a.out /= <<>>
                /\ \E before \in AllOutputs(a.out), after \in AllOutputs(b.out) :
                     InstallCompactionResults(
                        {IF Largest(f) = Last(a.out) THEN [f EXCEPT !.bad = TRUE] ELSE f :
                            f \in before} \cup after)
                /\ g' = KeyState(b)
    /\ c' = NoCompaction /\ manual' = Wound(FALSE)
    /\ UNCHANGED <<inst, written, mem, imm, has_imm, snapshots, manuals, bg_error>>

-----------------------------------------------------------------------------
(* CompactRange, a client's call *)

NoManual == [pc |-> "no", lo |-> 0, end |-> 0, top |-> 0, level |-> 0,
             begin |-> 0, done |-> FALSE, set |-> FALSE]

CompactRange ==
    /\ manual.pc = "no" /\ manuals < inst.manuals
    /\ manuals' = manuals + 1
    /\ \E r \in ManualRanges :
          manual' = [NoManual EXCEPT !.pc = "write", !.lo = r[1], !.begin = r[1], !.end = r[2],
                        !.top = Max({1} \cup {l \in Levels \ {0} : OverlapInLevel(l, r[1], r[2])})]
    /\ UNCHANGED <<inst, written, mem, imm, has_imm, files, snapshots, c, g, bg_error, faults>>

\* TEST_CompactMemTable: the NULL batch forces a switch, joins the group of
\* another writer, or gets the background error.
ManualWrite ==
    /\ manual.pc = "write"
    /\ \/ NewMemTable /\ manual' = [manual EXCEPT !.pc = "wait"]
       \/ ~bg_error /\ manual' = [manual EXCEPT !.pc = "wait"] /\ UNCHANGED <<mem, imm, has_imm>>
       \/ bg_error /\ manual' = [manual EXCEPT !.pc = "loop"] /\ UNCHANGED <<mem, imm, has_imm>>
    /\ UNCHANGED <<inst, written, files, snapshots, c, g, manuals, bg_error, faults>>

ManualWait ==
    /\ manual.pc = "wait" /\ (~has_imm \/ bg_error)
    /\ manual' = [manual EXCEPT !.pc = "loop"]
    /\ UNCHANGED <<inst, written, mem, imm, has_imm, files, snapshots, c, g, manuals, bg_error, faults>>

\* TEST_CompactRange: post manual_compaction_, or leave the level.
ManualLoop ==
    /\ manual.pc = "loop"
    /\ IF manual.done \/ bg_error
       THEN manual' = IF manual.level + 1 < manual.top
                      THEN [manual EXCEPT !.level = @ + 1, !.begin = manual.lo,
                                          !.done = FALSE, !.set = FALSE]
                      ELSE NoManual
       ELSE ~manual.set /\ manual' = [manual EXCEPT !.set = TRUE]
    /\ UNCHANGED <<inst, written, mem, imm, has_imm, files, snapshots, c, g, manuals, bg_error, faults>>

-----------------------------------------------------------------------------
Init ==
    /\ inst \in Instances
    /\ written = inst.tree.written /\ files = inst.tree.files
    /\ mem = {} /\ imm = {} /\ has_imm = FALSE /\ snapshots = <<>>
    /\ c = NoCompaction /\ g = NoKey
    /\ manual = NoManual /\ manuals = 0
    /\ bg_error = FALSE /\ faults = 0

\* All bounded work is done.
Quiet == (LastSequence = inst.writes \/ bg_error) /\ ~c.active /\ ~manual.set /\ UNCHANGED vars

Next ==
    \/ \E k \in Keys, t \in Types : Write(k, t)
    \/ SwitchMem \/ GetSnapshot \/ ReleaseSnapshot
    \/ Flush \/ BackgroundCompaction \/ ManualCompaction
    \/ CompactionDone \/ CompactionFails \/ CompactionIgnoresError
    \/ CompactRange \/ ManualWrite \/ ManualWait \/ ManualLoop
    \/ Quiet

\* The background thread and the thread in CompactRange keep running: weak
\* fairness of their steps, with the condition that enables each written out.
BackgroundStep == Flush \/ ManualCompaction \/ CompactionDone
BackgroundMayStep ==
    \/ has_imm /\ (c.active \/ ~bg_error)
    \/ Idle /\ manual.set
    \/ c.active

CallStep == ManualWrite \/ ManualWait \/ ManualLoop
CallMayStep ==
    \/ manual.pc = "write"
    \/ manual.pc = "wait" /\ (~has_imm \/ bg_error)
    \/ manual.pc = "loop" /\ (manual.done \/ bg_error \/ ~manual.set)

Fairness ==
    /\ []<>~BackgroundMayStep \/ []<><<BackgroundStep>>_vars
    /\ []<>~CallMayStep \/ []<><<CallStep>>_vars

Spec == Init /\ [][Next]_vars
FairSpec == Spec /\ Fairness

-----------------------------------------------------------------------------
(* Point reads.  A read takes mem_, imm_ and current_ under mutex_ and       *)
(* searches them afterwards; they do not change below its sequence number.  *)

NoRecord == [key |-> 0, seq |-> 0, type |-> "none"]
Unreadable == [key |-> 0, seq |-> 0, type |-> "error"]

\* MemTable::SUGet, Table::InternalGet with SaveValue: seek to the first record
\* that is not before the target and look at its user key.
Seek(recs, k, s) ==
    LET at == {i \in DOMAIN recs : ~InternalBefore(recs[i], LookupKey(k, s))}
    IN  IF at = {} \/ recs[Min(at)].key /= k THEN NoRecord ELSE recs[Min(at)]

FileGet(f, k, s) == IF f.bad THEN Unreadable ELSE Seek(f.recs, k, s)

\* The tables a level is searched in, in this order.
FilesToSearch(level, k, s) ==
    IF level = 0
    THEN SetToSortSeq(Touching(files[0], k, k), LAMBDA a, b : a.num > b.num)
    ELSE LET fs == Vector(files[level])
             index == FindFile(fs, LookupKey(k, s))
         IN  IF index < Len(fs) /\ Lo(fs[index + 1]) <= k THEN <<fs[index + 1]>> ELSE <<>>

Searched(k, s) ==
    FlattenSeq([i \in 1 .. NumLevels |-> FilesToSearch(i - 1, k, s)])

Sorted(m) == SetToSortSeq(m, InternalBefore)

\* The first record found; a deletion ends the search like a value.
Hits(k, s) ==
    LET fs == Searched(k, s)
    IN  SelectSeq(<<Seek(Sorted(mem), k, s), Seek(Sorted(imm), k, s)>>
                      \o [i \in DOMAIN fs |-> FileGet(fs[i], k, s)],
                  LAMBDA r : r /= NoRecord)

\* DBImpl::SUGet: the value (named by its sequence number), 0 for NotFound,
\* -1 for an I/O error.
Answer(r) == CASE r.type = "value" -> r.seq
               [] r.type = "error" -> -1
               [] OTHER -> 0
SUGet(k, s) == IF Hits(k, s) = <<>> THEN 0 ELSE Answer(Hits(k, s)[1])

-----------------------------------------------------------------------------
(* Properties *)

\* The type invariant: memtables, tables and compaction inputs hold records that
\* were written, where the code keeps them.
TypeOK ==
    /\ LastSequence \in 0 .. MaxSeq
    /\ \A r \in mem \cup imm : r.seq \in DOMAIN written /\ written[r.seq] = r
    /\ ~has_imm => imm = {}
    /\ DOMAIN files = Levels
    /\ \A l \in Levels : \A f \in files[l] :
          f.recs /= <<>> /\ \A i \in DOMAIN f.recs : written[f.recs[i].seq] = f.recs[i]
    /\ c.active => c.in0 /= {} /\ c.in0 \subseteq files[c.level] /\ c.in1 \subseteq files[c.level + 1]

\* The newest record of k written up to s, as SUGet should report it.
Expected(k, s) ==
    LET seen == {r \in Range(written) : r.key = k /\ r.seq <= s}
    IN  IF seen = {} THEN 0
        ELSE Answer(CHOOSE r \in seen : \A q \in seen : q.seq <= r.seq)

\* SUGet returns the last write at the latest state and at every open
\* snapshot, whatever flushes and compactions have moved or dropped.
ReadsAgree ==
    \A k \in Keys : \A s \in {LastSequence} \cup Range(snapshots) :
        SUGet(k, s) = Expected(k, s)

\* The same of the builds whose merge keeps the order of InternalKeyComparator:
\* reads are not disturbed by flushes, compactions, failures and snapshots.
SUGetAgrees == ~inst.verify => ReadsAgree

\* The files of a level above 0 do not overlap: the condition SaveTo checks in
\* debug builds and FindFile and the concatenating iterator rely on.
LevelsDisjoint ==
    \A l \in Levels \ {0} :
        LET v == Vector(files[l])
        IN  \A i \in 2 .. Len(v) : InternalBefore(Largest(v[i - 1]), Smallest(v[i]))

\* Every table is in the order TableBuilder::Add requires.
TablesSorted ==
    \A l \in Levels : \A f \in files[l] : \A i \in 2 .. Len(f.recs) :
        InternalBefore(f.recs[i - 1], f.recs[i])

\* A record of a key is newer than every record of the key further down: in
\* imm_, in older tables of level 0 and in deeper levels.
Depth(l, f) == <<l, IF l = 0 THEN -f.num ELSE 0>>
Above(p, q) == p[1] < q[1] \/ (p[1] = q[1] /\ p[2] < q[2])
Placed ==
    {<<r, <<-2, 0>>>> : r \in mem} \cup {<<r, <<-1, 0>>>> : r \in imm}
    \cup UNION {UNION {{<<f.recs[i], Depth(l, f)>> : i \in DOMAIN f.recs} : f \in files[l]} :
                 l \in Levels}
NewerAbove ==
    \A p, q \in Placed :
        p[1].key = q[1].key /\ Above(p[2], q[2]) => p[1].seq > q[1].seq

\* CompactRange returns.
ManualReturns == manual.pc /= "no" ~> manual.pc = "no"

\* Every Version that flushes and compactions install is one that reads may search:
\* records that were written, tables in order, levels above 0 without overlap.
TreeSound == TypeOK /\ LevelsDisjoint /\ TablesSorted
=============================================================================
