----------------------------- MODULE VersionSet -----------------------------
(***************************************************************************)
(* Versions and the threads that hold them (version_set.cpp, db_impl.cpp). *)
(* A Version is an immutable list of tables per level, counted by          *)
(* references; a FileMetaData is shared by the Versions that list it.      *)
(* Readers, iterators and size estimates take a reference under mutex_,    *)
(* work with mutex_ released and drop it under mutex_; meanwhile the       *)
(* background thread installs new Versions and deletes tables.  A read     *)
(* that needs a second table charges the first one a seek, and a table     *)
(* without seeks left is compacted.                                        *)
(*                                                                         *)
(* LSMTree models what flushes and compactions write; here a table holds   *)
(* one record per key, and a compaction writes one table.                  *)
(*                                                                         *)
(* Definitions named Fault_... are wrong variants of the definition that   *)
(* follows them; the specification does not use them.                      *)
(***************************************************************************)
EXTENDS Integers, Sequences, FiniteSets, FiniteSetsExt, Functions, TLC

CONSTANTS VersionReaders,   \* threads in Get, NewIterator and GetApproximateSizes
          VersionKeys,         \* user keys, integers from 1
          FlushContents,    \* key -> type: what a memtable may hold when it is flushed
          MaxTableFlushes,  \* bound: flushes
          MaxVersionReads,         \* bound: reads of a thread
          MaxVersionFaults, \* bound: I/O failures of the background thread
          kNumLevels, kMaxMemCompactLevel, kL0_CompactionTrigger,
          kMinSeeks,        \* the 100 of Builder::Apply
          kLevelBase        \* MaxBytesForLevel(1), in records

ASSUME VersionSetAssumption ==
    /\ IsFiniteSet(VersionReaders) /\ IsFiniteSet(VersionKeys) /\ VersionKeys \subseteq Nat \ {0}
    /\ kNumLevels \in Nat \ {0, 1}
    /\ kMaxMemCompactLevel \in 0 .. kNumLevels - 1
    /\ kL0_CompactionTrigger \in Nat \ {0} /\ kMinSeeks \in Nat \ {0} /\ kLevelBase \in Nat \ {0}
    /\ \A m \in FlushContents : DOMAIN m \subseteq VersionKeys /\ DOMAIN m /= {}

VARIABLES
    vs_meta,     \* the FileMetaData alive: id -> [num, recs, refs, allowed_seeks]
    vs_versions, \* the Versions alive: id -> [files, refs, file_to_compact_, ..._level_]
    vs_current,  \* current_
    vs_built,    \* the Version LogAndApply has built and not yet installed, or none
    vs_next,     \* next_file_number_
    vs_pointer,  \* compact_pointer_: level -> key, 0 if empty
    vs_disk,     \* numbers of the table files on disk
    vs_pending,  \* pending_outputs_
    vs_flush,    \* CompactMemTable under way, or none
    vs_job,      \* the compaction under way, or none
    vs_read,     \* thread -> its read
    vs_error,    \* bg_error_
    vs_count     \* ids given, flushes and faults so far

vs_vars == <<vs_meta, vs_versions, vs_current, vs_built, vs_next, vs_pointer, vs_disk,
             vs_pending, vs_flush, vs_job, vs_read, vs_error, vs_count>>

NoFile == 0
VLevels == 0 .. kNumLevels - 1
None == <<>>
NotReading == [pc |-> "idle", version |-> 0, key |-> 0, seek_file |-> NoFile, seek_level |-> -1,
               reads |-> 0, got |-> "none"]

-----------------------------------------------------------------------------
(* Tables and levels *)

FirstKey(o) == Min(DOMAIN vs_meta[o].recs)
LastKey(o) == Max(DOMAIN vs_meta[o].recs)
FileSize(o) == Cardinality(DOMAIN vs_meta[o].recs)
FilesOf(v, level) == vs_versions[v].files[level]
TotalFileSize(os) == Cardinality(UNION {{o} \X DOMAIN vs_meta[o].recs : o \in os})

\* The order of every files_[level], and the first of some of its tables.
BySmallestKey(a, b) ==
    \/ FirstKey(a) < FirstKey(b)
    \/ FirstKey(a) = FirstKey(b) /\ vs_meta[a].num <= vs_meta[b].num
FirstFile(os) == CHOOSE a \in os : \A b \in os : BySmallestKey(a, b)

\* The tables from the one FindFile returns on, for a key that comes before all
\* records of user key k.
NotBefore(os, k) == {o \in os : LastKey(o) >= k}

TouchingFiles(v, level, lo, hi) ==
    {o \in FilesOf(v, level) : ~(LastKey(o) < lo) /\ ~(FirstKey(o) > hi)}

\* GetOverlappingInputs: level 0 restarts with the widened range.
OverlappingInputs(v, level, lo, hi) ==
    LET widened[n \in 0 .. Cardinality(FilesOf(v, level))] ==
            IF n = 0 \/ level > 0 THEN TouchingFiles(v, level, lo, hi)
            ELSE LET os == widened[n - 1]
                 IN  TouchingFiles(v, level, Min({lo} \cup {FirstKey(o) : o \in os}),
                                            Max({hi} \cup {LastKey(o) : o \in os}))
    IN  widened[Cardinality(FilesOf(v, level))]

\* PickLevelForMemTableOutput, far below kMaxGrandParentOverlapBytes.
LevelForMemTable(v, lo, hi) ==
    Max({l \in 0 .. kMaxMemCompactLevel :
            l > 0 => \A m \in 0 .. l : TouchingFiles(v, m, lo, hi) = {}})

-----------------------------------------------------------------------------
(* References *)

Unlinked(meta, os) ==
    [o \in {o \in DOMAIN meta : o \in os => meta[o].refs > 1} |->
        IF o \in os THEN [meta[o] EXCEPT !.refs = @ - 1] ELSE meta[o]]

AllFiles(files) == UNION {files[l] : l \in VLevels}

\* Version::Ref, Version::Unref and ~Version, on both maps.
Maps == [versions |-> vs_versions, meta |-> vs_meta]
VRef(st, v) == [st EXCEPT !.versions[v].refs = @ + 1]
Fault_VUnref(st, v) ==
    IF st.versions[v].refs > 1 THEN [st EXCEPT !.versions[v].refs = @ - 1]
    ELSE [st EXCEPT !.versions = Restrict(@, DOMAIN @ \ {v})]
VUnref(st, v) ==
    IF st.versions[v].refs > 1 THEN [st EXCEPT !.versions[v].refs = @ - 1]
    ELSE [versions |-> Restrict(st.versions, DOMAIN st.versions \ {v}),
          meta |-> Unlinked(st.meta, AllFiles(st.versions[v].files))]
Become(st) == vs_versions' = st.versions /\ vs_meta' = st.meta

FreeId(used) == Min((1 .. Cardinality(used) + 1) \ used)
Adding(f, x, y) == [z \in DOMAIN f \cup {x} |-> IF z = x THEN y ELSE f[z]]

\* Builder: Apply and SaveTo, over current_.  An edit deletes <<level, number>>
\* pairs and adds at most one table; a listed table gains a reference.
Fault_VersionLinked(meta, os) ==
    [o \in DOMAIN meta |-> IF o \in os /\ meta[o].refs = 0 THEN [meta[o] EXCEPT !.refs = 1] ELSE meta[o]]
VersionLinked(meta, os) ==
    [o \in DOMAIN meta |-> IF o \in os THEN [meta[o] EXCEPT !.refs = @ + 1] ELSE meta[o]]

Build(edit, st) ==
    LET o == FreeId(DOMAIN st.meta)
        kept(l) == {f \in st.versions[vs_current].files[l] : <<l, st.meta[f].num>> \notin edit.deleted}
        files == [l \in VLevels |-> kept(l) \cup IF edit.recs /= None /\ l = edit.level THEN {o} ELSE {}]
        metas == IF edit.recs = None THEN st.meta
                 ELSE Adding(st.meta, o, [num |-> edit.num, recs |-> edit.recs, refs |-> 0,
                                          allowed_seeks |-> kMinSeeks])
    IN  [meta |-> VersionLinked(metas, AllFiles(files)), files |-> files]

\* LogAndApply up to the unlock.
LogAndApply(edit, st) ==
    LET built == Build(edit, st)
    IN  /\ vs_built' = built.files
        /\ vs_versions' = st.versions /\ vs_meta' = built.meta

-----------------------------------------------------------------------------
(* Reads *)

\* The tables Get, SUGet and ForEachOverlapping look at, as <<level, table>>, and
\* their order: newest first in level 0, at most one per other level.
Fault_NewestFirst(a, b) == vs_meta[a].num < vs_meta[b].num
NewestFirst(a, b) == vs_meta[a].num > vs_meta[b].num
TableInLevel(v, l, k) ==
    LET os == NotBefore(FilesOf(v, l), k)
    IN  IF os = {} THEN {} ELSE {o \in {FirstFile(os)} : k >= FirstKey(o)}
TablesFor(v, k) ==
    ({0} \X TouchingFiles(v, 0, k, k)) \cup UNION {{l} \X TableInLevel(v, l, k) : l \in VLevels \ {0}}
SearchOrder(x, y) == x[1] < y[1] \/ (x[1] = y[1] /\ ~NewestFirst(y[2], x[2]))
FirstTable(tables) == CHOOSE x \in tables : \A y \in tables : SearchOrder(x, y)

\* The tables that have a record of k: the first of them ends the search.
Hits(v, k) == {x \in TablesFor(v, k) : k \in DOMAIN vs_meta[x[2]].recs}
Searched(v, k) ==
    {x \in TablesFor(v, k) : Hits(v, k) /= {} => SearchOrder(x, FirstTable(Hits(v, k)))}

Value(r) == IF r.type = "value" THEN "found" ELSE "missing"

\* What Version::Get may return after reading all tables it wants to.  Its
\* saver is set when a table is read; with none, saver.state is whatever the
\* stack held, and a state that looks like a hit returns the initial s, OK.
VersionGet(v, k) ==
    IF TablesFor(v, k) = {} THEN {"found", "missing"}
    ELSE IF Hits(v, k) = {} THEN {"missing"}
    ELSE {Value(vs_meta[FirstTable(Hits(v, k))[2]].recs[k])}

\* The seek that reading n of the tables costs: the first one's, if there was a second.
SeekFile(tables, n) == IF n < 2 THEN NoFile ELSE FirstTable(tables)[2]
SeekLevel(tables, n) == IF n < 2 THEN -1 ELSE FirstTable(tables)[1]

ReadStart(t) ==
    /\ vs_read[t].pc = "idle" /\ vs_read[t].reads < MaxVersionReads
    /\ Become(VRef(Maps, vs_current))
    /\ \/ \E k \in VersionKeys :
             vs_read' = [vs_read EXCEPT ![t] = [NotReading EXCEPT !.pc = "get", !.version = vs_current,
                                                  !.key = k, !.reads = vs_read[t].reads + 1]]
       \/ vs_read' = [vs_read EXCEPT ![t] = [NotReading EXCEPT !.pc = "hold", !.version = vs_current,
                                                !.reads = vs_read[t].reads + 1]]
    /\ UNCHANGED <<vs_current, vs_built, vs_next, vs_pointer, vs_disk, vs_pending, vs_flush, vs_job,
                   vs_error, vs_count>>

\* DBImpl::Get with mutex_ released.  A hit in a memtable leaves no statistics;
\* a read error of the n-th table ends the search there.
ReadTables(t) ==
    /\ vs_read[t].pc = "get"
    /\ LET r == vs_read[t]
           tables == TablesFor(r.version, r.key)
           all == Cardinality(Searched(r.version, r.key))
           Charged(n) == [r EXCEPT !.seek_file = SeekFile(tables, n), !.seek_level = SeekLevel(tables, n)]
       IN  \E new \in {[r EXCEPT !.pc = "hold"]}
                 \cup {[Charged(all) EXCEPT !.pc = "charge", !.got = g] : g \in VersionGet(r.version, r.key)}
                 \cup {[Charged(n) EXCEPT !.pc = "charge", !.got = "error"] : n \in 1 .. all} :
                 vs_read' = [vs_read EXCEPT ![t] = new]
    /\ UNCHANGED <<vs_meta, vs_versions, vs_current, vs_built, vs_next, vs_pointer, vs_disk, vs_pending,
                   vs_flush, vs_job, vs_error, vs_count>>

\* Version::UpdateStats, on the Version the read used.
UpdateStats(st, v, f, level) ==
    IF f = NoFile THEN st
    ELSE LET st1 == [st EXCEPT !.meta[f].allowed_seeks = @ - 1]
         IN  IF st1.meta[f].allowed_seeks <= 0 /\ st.versions[v].file_to_compact = NoFile
             THEN [st1 EXCEPT !.versions[v].file_to_compact = f,
                              !.versions[v].file_to_compact_level = level]
             ELSE st1

\* The end of DBImpl::Get, of GetApproximateSizes and of an iterator.
Fault_ChargedVersion(t) == vs_current
ChargedVersion(t) == vs_read[t].version
ReadEnd(t) ==
    /\ vs_read[t].pc \in {"charge", "hold"}
    /\ LET r == vs_read[t]
       IN  /\ Become(VUnref(UpdateStats(Maps, ChargedVersion(t), r.seek_file, r.seek_level), r.version))
           /\ vs_read' = [vs_read EXCEPT ![t] = [NotReading EXCEPT !.reads = r.reads]]
    /\ UNCHANGED <<vs_current, vs_built, vs_next, vs_pointer, vs_disk, vs_pending, vs_flush, vs_job,
                   vs_error, vs_count>>

\* DBImpl::RecordReadSample: an iterator charges the first of two tables of the
\* current Version, without a reference of its own.
ReadSample(t) ==
    /\ vs_read[t].pc = "hold" /\ vs_read[t].reads <= MaxVersionReads
    /\ \E k \in VersionKeys :
          LET tables == TablesFor(vs_current, k)
              n == Cardinality(tables)
          IN  Become(UpdateStats(Maps, vs_current, SeekFile(tables, n), SeekLevel(tables, n)))
    /\ vs_read' = [vs_read EXCEPT ![t].reads = @ + 1]
    /\ UNCHANGED <<vs_current, vs_built, vs_next, vs_pointer, vs_disk, vs_pending, vs_flush, vs_job,
                   vs_error, vs_count>>

-----------------------------------------------------------------------------
(* Flushes *)

\* The background thread starts nothing new after an error; a flush also comes
\* in the middle of a compaction.
BackgroundFree == vs_flush = None /\ vs_built = None

\* CompactMemTable, WriteLevel0Table: up to BuildTable's end.
FlushStart ==
    /\ BackgroundFree /\ vs_count.flushes < MaxTableFlushes
    /\ IF vs_job = None THEN ~vs_error ELSE ~vs_job.move
    /\ \E m \in FlushContents :
          vs_flush' = [num |-> vs_next, base |-> vs_current,
                       recs |-> [k \in DOMAIN m |-> [seq |-> vs_next, type |-> m[k]]]]
    /\ vs_next' = vs_next + 1
    /\ vs_disk' = vs_disk \cup {vs_next} /\ vs_pending' = vs_pending \cup {vs_next}
    /\ vs_count' = [vs_count EXCEPT !.flushes = @ + 1]
    /\ Become(VRef(Maps, vs_current))
    /\ UNCHANGED <<vs_current, vs_built, vs_pointer, vs_job, vs_read, vs_error>>

\* mutex_ again: the level, and LogAndApply.
FlushApply ==
    /\ vs_flush /= None /\ vs_built = None
    /\ LET f == vs_flush
           level == LevelForMemTable(f.base, Min(DOMAIN f.recs), Max(DOMAIN f.recs))
       IN  /\ LogAndApply([deleted |-> {}, level |-> level, num |-> f.num, recs |-> f.recs],
                          VUnref(Maps, f.base))
           /\ vs_flush' = [f EXCEPT !.base = 0]
           /\ vs_pending' = vs_pending \ {f.num}
    /\ UNCHANGED <<vs_current, vs_next, vs_pointer, vs_disk, vs_job, vs_read, vs_error, vs_count>>

\* BuildTable fails and deletes its file; CompactMemTable records the error.
FlushFails ==
    /\ vs_flush /= None /\ vs_built = None /\ vs_count.faults < MaxVersionFaults
    /\ Become(VUnref(Maps, vs_flush.base))
    /\ vs_pending' = vs_pending \ {vs_flush.num} /\ vs_disk' = vs_disk \ {vs_flush.num}
    /\ vs_flush' = None /\ vs_error' = TRUE
    /\ vs_count' = [vs_count EXCEPT !.faults = @ + 1]
    /\ UNCHANGED <<vs_current, vs_built, vs_next, vs_pointer, vs_job, vs_read>>

-----------------------------------------------------------------------------
(* Compactions *)

MaxBytesForLevel[l \in VLevels] == IF l <= 1 THEN kLevelBase ELSE 10 * MaxBytesForLevel[l - 1]

\* Finalize: the score of a level as <<numerator, denominator>>, and the first
\* level with the best one.
Score(v, l) ==
    IF l = 0 THEN <<Cardinality(FilesOf(v, 0)), kL0_CompactionTrigger>>
    ELSE <<TotalFileSize(FilesOf(v, l)), MaxBytesForLevel[l]>>
Lower(p, q) == p[1] * q[2] < q[1] * p[2]
CompactionLevel(v) ==
    CHOOSE l \in 0 .. kNumLevels - 2 :
        \A m \in 0 .. kNumLevels - 2 :
            /\ ~Lower(Score(v, l), Score(v, m))
            /\ m < l => Lower(Score(v, m), Score(v, l))
SizeCompaction(v) == ~Lower(Score(v, CompactionLevel(v)), <<1, 1>>)
SeekCompaction(v) == vs_versions[v].file_to_compact /= NoFile

\* The file PickCompaction starts from: the first after compact_pointer_, from
\* the beginning again if there is none, or the one reads have worn out.
AfterPointer(level) ==
    LET os == FilesOf(vs_current, level)
        after == {o \in os : vs_pointer[level] = 0 \/ LastKey(o) > vs_pointer[level]}
    IN  FirstFile(IF after = {} THEN os ELSE after)
PickedLevel == IF SizeCompaction(vs_current) THEN CompactionLevel(vs_current)
               ELSE vs_versions[vs_current].file_to_compact_level
PickedFile == IF SizeCompaction(vs_current) THEN AfterPointer(PickedLevel)
              ELSE vs_versions[vs_current].file_to_compact

Low(os) == Min({FirstKey(o) : o \in os})
High(os) == Max({LastKey(o) : o \in os})

\* SetupOtherInputs, far below kExpandedCompactionByteSizeLimit.
Inputs(level, in0) ==
    LET in1 == OverlappingInputs(vs_current, level + 1, Low(in0), High(in0))
        more0 == OverlappingInputs(vs_current, level, Low(in0 \cup in1), High(in0 \cup in1))
        more1 == OverlappingInputs(vs_current, level + 1, Low(more0), High(more0))
    IN  IF in1 /= {} /\ Cardinality(more0) > Cardinality(in0) /\ Cardinality(more1) = Cardinality(in1)
        THEN <<more0, more1>> ELSE <<in0, in1>>

Deletions(level, in) ==
    {<<level, vs_meta[o].num>> : o \in in[1]} \cup {<<level + 1, vs_meta[o].num>> : o \in in[2]}

\* PickCompaction; IsTrivialMove goes on to LogAndApply, anything else to the
\* merge with mutex_ released.
PickCompaction ==
    /\ BackgroundFree /\ vs_job = None /\ ~vs_error
    /\ SizeCompaction(vs_current) \/ SeekCompaction(vs_current)
    /\ LET level == PickedLevel
           f == PickedFile
           in == Inputs(level, IF level = 0 THEN OverlappingInputs(vs_current, 0, FirstKey(f), LastKey(f))
                               ELSE {f})
           move == Cardinality(in[1]) = 1 /\ in[2] = {}
           st == VRef(Maps, vs_current)
       IN  /\ vs_job' = [level |-> level, in |-> in, version |-> vs_current, move |-> move, num |-> 0]
           /\ vs_pointer' = [vs_pointer EXCEPT ![level] = High(in[1])]
           /\ IF move
              THEN LET o == CHOOSE o \in in[1] : TRUE
                   IN  LogAndApply([deleted |-> Deletions(level, in), level |-> level + 1,
                                    num |-> vs_meta[o].num, recs |-> vs_meta[o].recs], st)
              ELSE Become(st) /\ UNCHANGED vs_built
    /\ UNCHANGED <<vs_current, vs_next, vs_disk, vs_pending, vs_flush, vs_read, vs_error, vs_count>>

\* The newest record of each key; a deletion no deeper table needs is dropped.
CompactionRecords ==
    LET all == vs_job.in[1] \cup vs_job.in[2]
        newest(k) == CHOOSE r \in {vs_meta[o].recs[k] : o \in {o \in all : k \in DOMAIN vs_meta[o].recs}} :
                        \A o \in all : k \in DOMAIN vs_meta[o].recs => vs_meta[o].recs[k].seq <= r.seq
        base(k) == \A l \in VLevels : l >= vs_job.level + 2 => TouchingFiles(vs_job.version, l, k, k) = {}
        keys == UNION {DOMAIN vs_meta[o].recs : o \in all}
    IN  [k \in {k \in keys : ~(newest(k).type = "deletion" /\ base(k))} |-> newest(k)]

Merging == vs_job /= None /\ BackgroundFree

\* OpenCompactionOutputFile and the writes to the file.
CompactionOutput ==
    /\ Merging /\ ~vs_job.move /\ vs_job.num = 0 /\ DOMAIN CompactionRecords /= {}
    /\ vs_job' = [vs_job EXCEPT !.num = vs_next]
    /\ vs_next' = vs_next + 1
    /\ vs_disk' = vs_disk \cup {vs_next} /\ vs_pending' = vs_pending \cup {vs_next}
    /\ UNCHANGED <<vs_meta, vs_versions, vs_current, vs_built, vs_pointer, vs_flush, vs_read, vs_error, vs_count>>

\* InstallCompactionResults up to the unlock in LogAndApply.
CompactionApply ==
    /\ Merging /\ ~vs_job.move /\ (vs_job.num = 0 <=> DOMAIN CompactionRecords = {})
    /\ LogAndApply([deleted |-> Deletions(vs_job.level, vs_job.in), level |-> vs_job.level + 1,
                    num |-> vs_job.num,
                    recs |-> IF vs_job.num = 0 THEN None ELSE CompactionRecords], Maps)
    /\ UNCHANGED <<vs_current, vs_next, vs_pointer, vs_disk, vs_pending, vs_flush, vs_job, vs_read,
                   vs_error, vs_count>>

\* DeleteObsoleteFiles: what no Version in the list and no output under way needs.
Fault_LiveNumbers(st) ==
    {st.meta[o].num : o \in AllFiles(st.versions[CHOOSE v \in DOMAIN st.versions :
                                \A w \in DOMAIN st.versions : w <= v].files)}
LiveNumbers(st) ==
    {st.meta[o].num : o \in UNION {AllFiles(st.versions[v].files) : v \in DOMAIN st.versions}}

\* What follows LogAndApply, or a failed merge: CleanupCompaction, ReleaseInputs
\* or ~Compaction, DeleteObsoleteFiles.
Fault_Released(st, move) == IF move THEN st ELSE VUnref(st, vs_job.version)
Released(st, move) == VUnref(st, vs_job.version)
EndWork(st, failed) ==
    LET flushing == vs_flush /= None
        st1 == IF flushing THEN st ELSE Released(st, vs_job.move)
        pending == IF flushing THEN vs_pending ELSE vs_pending \ {vs_job.num}
    IN  /\ Become(st1)
        /\ vs_pending' = pending
        /\ vs_disk' = IF failed \/ vs_error \/ (~flushing /\ vs_job.move) THEN vs_disk
                      ELSE vs_disk \cap (pending \cup LiveNumbers(st1))
        /\ vs_flush' = None
        /\ vs_job' = IF flushing THEN vs_job ELSE None
        /\ vs_built' = None
        /\ vs_error' = (vs_error \/ failed)

\* AppendVersion
Install ==
    /\ vs_built /= None
    /\ LET v == FreeId(DOMAIN vs_versions)
           new == [files |-> vs_built, refs |-> 1, file_to_compact |-> NoFile,
                   file_to_compact_level |-> -1]
       IN  /\ EndWork(VUnref([Maps EXCEPT !.versions = Adding(@, v, new)], vs_current), FALSE)
           /\ vs_current' = v
    /\ UNCHANGED <<vs_next, vs_pointer, vs_read, vs_count>>

\* The descriptor cannot be written: delete v.
InstallFails ==
    /\ vs_built /= None /\ vs_count.faults < MaxVersionFaults
    /\ EndWork([Maps EXCEPT !.meta = Unlinked(@, AllFiles(vs_built))], TRUE)
    /\ vs_count' = [vs_count EXCEPT !.faults = @ + 1]
    /\ UNCHANGED <<vs_current, vs_next, vs_pointer, vs_read>>

\* DoCompactionWork ends with an error, with or without an output file.
CompactionFails ==
    /\ Merging /\ ~vs_job.move /\ vs_count.faults < MaxVersionFaults
    /\ EndWork(Maps, TRUE)
    /\ vs_count' = [vs_count EXCEPT !.faults = @ + 1]
    /\ UNCHANGED <<vs_current, vs_next, vs_pointer, vs_read>>

-----------------------------------------------------------------------------
VersionSetInit ==
    /\ vs_meta = <<>> /\ vs_current = 1 /\ vs_built = None /\ vs_next = 2
    /\ vs_versions = <<[files |-> [l \in VLevels |-> {}], refs |-> 1,
                        file_to_compact |-> NoFile, file_to_compact_level |-> -1]>>
    /\ vs_pointer = [l \in VLevels |-> 0]
    /\ vs_disk = {} /\ vs_pending = {} /\ vs_flush = None /\ vs_job = None
    /\ vs_read = [t \in VersionReaders |-> NotReading]
    /\ vs_error = FALSE /\ vs_count = [flushes |-> 0, faults |-> 0]

\* All bounded work is done.
VersionSetQuiet ==
    /\ vs_job = None /\ BackgroundFree
    /\ \A t \in VersionReaders : vs_read[t].pc = "idle"
    /\ UNCHANGED vs_vars

VersionSetNext ==
    \/ \E t \in VersionReaders : ReadStart(t) \/ ReadTables(t) \/ ReadEnd(t) \/ ReadSample(t)
    \/ FlushStart \/ FlushApply \/ FlushFails
    \/ PickCompaction \/ CompactionOutput \/ CompactionApply \/ CompactionFails
    \/ Install \/ InstallFails
    \/ VersionSetQuiet

-----------------------------------------------------------------------------
(* Iterators and size estimates over a Version *)

\* LevelFileNumIterator under a TwoLevelIterator: the level's first key that is
\* not before k, from the file FindFile names or, past its end, the next one.
Fault_LevelSeek(v, level, k) ==
    {Min({j \in DOMAIN vs_meta[o].recs : j >= k}) : o \in TableInLevel(v, level, k)}
LevelSeek(v, level, k) ==
    LET os == NotBefore(FilesOf(v, level), k)
    IN  IF os = {} THEN {} ELSE {Min({j \in DOMAIN vs_meta[FirstFile(os)].recs : j >= k})}

\* AddIterators: one iterator per table of level 0, one per other level.
VersionSeek(v, k) ==
    LET level0 == {j \in UNION {DOMAIN vs_meta[o].recs : o \in FilesOf(v, 0)} : j >= k}
        all == level0 \cup UNION {LevelSeek(v, l, k) : l \in VLevels \ {0}}
    IN  IF all = {} THEN {} ELSE {Min(all)}

\* VersionSet::ApproximateOffsetOf, for a key before all records of user key k:
\* the files of a deeper level end with the first that starts past it.
Fault_PastEnd(o, k) == LastKey(o) >= k
PastEnd(o, k) == FirstKey(o) >= k
VersionOffset(v, k) ==
    LET Counted(level) ==
            LET past == {o \in FilesOf(v, level) : PastEnd(o, k)}
            IN  {o \in FilesOf(v, level) :
                    level > 0 /\ past /= {} => ~BySmallestKey(FirstFile(past), o)}
        Bytes(o) == IF LastKey(o) < k THEN FileSize(o)
                    ELSE Cardinality({j \in DOMAIN vs_meta[o].recs : j < k})
    IN  MapThenSumSet(LAMBDA l : MapThenSumSet(Bytes, Counted(l)), VLevels)

-----------------------------------------------------------------------------
(* Properties *)

VersionHolders(v) ==
    Cardinality({t \in VersionReaders : vs_read[t].pc /= "idle" /\ vs_read[t].version = v})
    + (IF v = vs_current THEN 1 ELSE 0)
    + (IF vs_job /= None THEN IF vs_job.version = v THEN 1 ELSE 0 ELSE 0)
    + (IF vs_flush /= None THEN IF vs_flush.base = v THEN 1 ELSE 0 ELSE 0)

\* References are exact: a Version lives as long as current_, a reader, an
\* iterator, the compaction or the flush that started from it needs it, and no
\* longer; a FileMetaData as long as a Version lists it.  A leak would keep its
\* tables on disk for ever and fail the assertion of ~VersionSet, a reference
\* too few is a use after free.
VersionRefsExact ==
    /\ \A v \in DOMAIN vs_versions : vs_versions[v].refs = VersionHolders(v) /\ VersionHolders(v) > 0
    /\ \A o \in DOMAIN vs_meta :
          vs_meta[o].refs = Cardinality({v \in DOMAIN vs_versions : o \in AllFiles(vs_versions[v].files)})
                            + (IF vs_built /= None THEN IF o \in AllFiles(vs_built) THEN 1 ELSE 0 ELSE 0)

\* A table stays on disk while any Version that a thread may read lists it,
\* while it is being written and while LogAndApply writes the edit that adds it.
TablesKept ==
    /\ \A v \in DOMAIN vs_versions : \A o \in AllFiles(vs_versions[v].files) :
          o \in DOMAIN vs_meta /\ vs_meta[o].num \in vs_disk
    /\ vs_built /= None => \A o \in AllFiles(vs_built) : vs_meta[o].num \in vs_disk
    /\ vs_pending \subseteq vs_disk

\* A seek compaction works on the Version whose read ordered it: the table a
\* reader charges after its unlocked search and the table a Version wants
\* compacted are tables of that Version's level, and the inputs of the running
\* compaction are still in current_, whatever was flushed meanwhile.
SeeksChargeOwnVersion ==
    /\ \A t \in VersionReaders :
          vs_read[t].seek_file /= NoFile =>
            vs_read[t].seek_file \in FilesOf(vs_read[t].version, vs_read[t].seek_level)
    /\ \A v \in DOMAIN vs_versions :
          LET w == vs_versions[v] IN
          w.file_to_compact /= NoFile => w.file_to_compact \in w.files[w.file_to_compact_level]
    /\ vs_job /= None =>
          /\ vs_job.in[1] \subseteq FilesOf(vs_current, vs_job.level)
          /\ vs_job.in[2] \subseteq FilesOf(vs_current, vs_job.level + 1)

\* In every live Version, Get of a key some table holds returns its newest
\* record, and an iterator's Seek finds the first key that exists.
VersionReadsAgree ==
    \A v \in DOMAIN vs_versions : \A k \in VersionKeys :
        LET os == AllFiles(vs_versions[v].files)
            recs == {vs_meta[o].recs[k] : o \in {o \in os : k \in DOMAIN vs_meta[o].recs}}
            after == {j \in UNION {DOMAIN vs_meta[o].recs : o \in os} : j >= k}
        IN  /\ \A r \in recs : (\A q \in recs : q.seq <= r.seq) => VersionGet(v, k) = {Value(r)}
            /\ VersionSeek(v, k) = (IF after = {} THEN {} ELSE {Min(after)})

\* ApproximateOffsetOf counts the records before the key: GetApproximateSizes of
\* adjacent ranges add up, and a range that ends later is no smaller.
OffsetsAgree ==
    \A v \in DOMAIN vs_versions : \A k \in VersionKeys :
        VersionOffset(v, k) =
            MapThenSumSet(LAMBDA o : Cardinality({j \in DOMAIN vs_meta[o].recs : j < k}),
                          AllFiles(vs_versions[v].files))

\* Versions, their tables and the files on disk live as long as somebody needs them and
\* no longer, whoever holds mutex_ in between.
VersionsKept == VersionRefsExact /\ TablesKept

\* Reads of any live Version, its size estimates and the compactions that its reads order
\* agree with the tables it lists.
VersionReadsSound == VersionReadsAgree /\ OffsetsAgree /\ SeeksChargeOwnVersion
=============================================================================
