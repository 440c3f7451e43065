------------------------------ MODULE Recovery ------------------------------
(***************************************************************************)
(* What a crash leaves behind and what DB::Open makes of it: the files of  *)
(* the database (logs, tables, descriptors, CURRENT), the writes that      *)
(* append to the log, memtable switches, flushes and compactions as edits  *)
(* of the descriptor, DeleteObsoleteFiles, and Open, step by step          *)
(* (db_impl.cpp, version_set.cpp, filename.cpp, builder.cpp).              *)
(*                                                                         *)
(* The disk: a file is its contents and, for logs and descriptors, how     *)
(* much of them is synced.  Tables are synced before anything refers to    *)
(* them.  A process crash loses the memory only; a power loss also cuts    *)
(* every file somewhere behind its synced part.  Creations, renames and    *)
(* deletions survive a power loss in the order they were made.             *)
(*                                                                         *)
(* Levels, keys and drop rules are LSMTree's: here a Version is a set of   *)
(* table numbers and a compaction keeps every record of its inputs.        *)
(* Definitions named Fault_... are wrong variants of the definition that   *)
(* follows them; the specification does not use them.                      *)
(***************************************************************************)
EXTENDS Integers, FiniteSets, SequencesExt

CONSTANTS MaxWrites,        \* bound: writes
          MaxCrashes,       \* bound: crashes of either kind
          MaxFails,         \* bound: I/O failures
          MaxCompactions,   \* bound: compactions and trivial moves
          MaxHeld           \* bound: Versions readers hold at a time

ASSUME RecoveryAssumption ==
    /\ MaxWrites \in Nat /\ MaxCrashes \in Nat /\ MaxFails \in Nat
    /\ MaxCompactions \in Nat /\ MaxHeld \in Nat

VARIABLES
    \* the disk
    logs,            \* number -> [recs: the records the reader returns of it, synced,
                     \*            torn: an append to it failed, lost: the records
                     \*            behind that which the reader does not return]
    tables,          \* number -> set of records; {} while it is being written
    manifests,       \* number -> [edits, synced]
    current,         \* the descriptor CURRENT names; 0: no CURRENT
    temps,           \* numbers of the .dbtmp files
    \* the process
    pc,              \* stage of DB::Open; "up" after it; "purge": in DeleteObsoleteFiles
    mem, imm,        \* records of mem_ and imm_; {}: none
    logfile_number,
    vs,              \* VersionSet: [files, log, next, last, manifest]
    open,            \* Open's locals: [logs (still to replay), add, max_sequence]
    pending,         \* pending_outputs_
    held,            \* older Versions that readers keep referenced
    writing,         \* the record the leader has logged: {} or {[rec, sync]}
    flush,           \* CompactMemTable: [stage, out]
    comp,            \* the compaction: [stage, in, out, move]
    bg_error,
    \* history
    ids,             \* writes so far
    acked,           \* records that must be in the database when it is up
    durable,         \* records a power loss must leave
    skipped,         \* records Open went on without: of logs whose replay failed
                     \* without failing Open, and those in dropped
    dropped,         \* records behind a failed append that a replay did not return
    opened,          \* the database has been opened once
    crashes, fails, compactions

disk == <<logs, tables, manifests, current, temps>>
memory == <<pc, mem, imm, logfile_number, vs, open, pending, held, writing,
            flush, comp, bg_error>>
history == <<ids, acked, durable, skipped, dropped, opened, crashes, fails, compactions>>
vars == <<disk, memory, history>>

Put(f, n, val) == [x \in DOMAIN f \cup {n} |-> IF x = n THEN val ELSE f[x]]
Without(f, S) == [x \in DOMAIN f \ S |-> f[x]]

-----------------------------------------------------------------------------
(* Version edits *)

Edit(log, next, last, add, del) ==
    [full |-> TRUE, log |-> log, next |-> next, last |-> last, add |-> add, del |-> del]

\* WriteSnapshot: the files and neither numbers nor a sequence number.
WriteSnapshot(files) ==
    [full |-> FALSE, log |-> 0, next |-> 0, last |-> 0, add |-> files, del |-> {}]

\* LogAndApply's record for a change of the current Version.
EditNow(log, add, del) == Edit(log, vs.next, vs.last, add, del)

\* VersionSet::Recover: the edits of a descriptor applied in order; have: the
\* numbers have been seen.
NoEdits == [files |-> {}, log |-> 0, next |-> 0, last |-> 0, have |-> FALSE]
Apply(v, e) == [files |-> (v.files \ e.del) \cup e.add,
                log   |-> IF e.full THEN e.log ELSE v.log,
                next  |-> IF e.full THEN e.next ELSE v.next,
                last  |-> IF e.full THEN e.last ELSE v.last,
                have  |-> IF e.full THEN TRUE ELSE v.have]
Recovered(edits) ==
    LET after[k \in 0 .. Len(edits)] ==
            IF k = 0 THEN NoEdits ELSE Apply(after[k - 1], edits[k])
    IN  after[Len(edits)]

Readable(m) == m \in DOMAIN manifests /\ Recovered(manifests[m].edits).have

AddRecord(m, e) == [manifests EXCEPT ![m].edits = Append(@, e)]
SyncManifest(m) == [manifests EXCEPT ![m].synced = Len(manifests[m].edits)]

\* NewFileNumber, MarkFileNumberUsed
Fault_NumberNotTaken == vs
NewFileNumber == [vs EXCEPT !.next = @ + 1]
Fault_NotMarked(next, number) == next
MarkFileNumberUsed(next, number) == Max({next, number + 1})

NewLog == [recs |-> <<>>, synced |-> 0, torn |-> FALSE, lost |-> {}]

-----------------------------------------------------------------------------
(* DeleteObsoleteFiles *)

\* pending_outputs_ and AddLiveFiles
Fault_LiveForgetsPending == vs.files \cup UNION held
Live == pending \cup vs.files \cup UNION held

Fault_ObsoleteBelowLogfile == {n \in DOMAIN logs : n < logfile_number}
ObsoleteLogs == {n \in DOMAIN logs : n < vs.log}
ObsoleteManifests == {n \in DOMAIN manifests : n < vs.manifest}
ObsoleteTables == DOMAIN tables \ Live
ObsoleteTemps == temps \ Live

\* After an error the descriptor may hold an edit that was not installed.
Fault_AlwaysCollects == TRUE
MayCollect == ~bg_error

\* Run with mutex_ held, so nothing but a crash comes between.
DeleteObsoleteFiles ==
    /\ pc = "purge" /\ pc' = "up"
    /\ IF ~MayCollect THEN UNCHANGED <<logs, manifests, tables, temps>>
       ELSE /\ logs' = Without(logs, ObsoleteLogs)
            /\ manifests' = Without(manifests, ObsoleteManifests)
            /\ tables' = Without(tables, ObsoleteTables)
            /\ temps' = temps \ ObsoleteTemps
    /\ UNCHANGED <<current, mem, imm, logfile_number, vs, open, pending, held,
                   writing, flush, comp, bg_error, history>>

-----------------------------------------------------------------------------
(* Writes *)

Store == mem \cup imm \cup UNION {tables[n] : n \in vs.files \cap DOMAIN tables}

\* The leader appends its record to the log, with mutex_ released.  Behind a failed
\* append the reader gives up the rest of the block, and block_offset_ is out of
\* step with the file, so that a later block need not begin with a fragment: the
\* append succeeds, but the reader may not return the record.
LogRecord(sync) ==
    /\ pc = "up" /\ writing = {} /\ ~bg_error /\ ids < MaxWrites
    /\ LET rec == [id |-> ids + 1, seq |-> vs.last + 1]
       IN  /\ \/ logs' = [logs EXCEPT ![logfile_number].recs = Append(@, rec)]
              \/ /\ logs[logfile_number].torn
                 /\ logs' = [logs EXCEPT ![logfile_number].lost = @ \cup {rec}]
           /\ writing' = {[rec |-> rec, sync |-> sync]}
    /\ ids' = ids + 1
    /\ UNCHANGED <<tables, manifests, current, temps, pc, mem, imm, logfile_number, vs,
                   open, pending, held, flush, comp, bg_error, acked, durable, skipped, dropped,
                   opened, crashes, fails, compactions>>

\* AddRecord fails with a part of the record written: the write returns the error and
\* LastSequence advances, but bg_error_ is not set and the log stays in use.
AppendFails ==
    /\ pc = "up" /\ writing = {} /\ ~bg_error /\ ids < MaxWrites
    /\ fails < MaxFails /\ fails' = fails + 1
    /\ logs' = [logs EXCEPT ![logfile_number].torn = TRUE]
    /\ vs' = [vs EXCEPT !.last = @ + 1]
    /\ ids' = ids + 1
    /\ UNCHANGED <<tables, manifests, current, temps, pc, mem, imm, logfile_number, open,
                   pending, held, writing, flush, comp, bg_error, acked, durable, skipped,
                   dropped, opened, crashes, compactions>>

\* It syncs the log if asked to, inserts into mem_, publishes and returns.
FinishWrite ==
    /\ pc = "up"
    /\ \E w \in writing :
         /\ logs' = IF w.sync THEN [logs EXCEPT ![logfile_number].synced =
                                       Len(logs[logfile_number].recs)]
                              ELSE logs
         /\ mem' = mem \cup {w.rec}
         /\ vs' = [vs EXCEPT !.last = w.rec.seq]
         /\ acked' = acked \cup {w.rec}
         /\ durable' = IF w.sync THEN durable \cup {w.rec} ELSE durable
    /\ writing' = {}
    /\ UNCHANGED <<tables, manifests, current, temps, pc, imm, logfile_number, open,
                   pending, held, flush, comp, bg_error, ids, skipped, dropped, opened,
                   crashes, fails, compactions>>

\* Sync fails: the record may or may not show up again, every later write fails.
SyncFails ==
    /\ pc = "up" /\ fails < MaxFails
    /\ \E w \in writing : w.sync /\ vs' = [vs EXCEPT !.last = w.rec.seq]
    /\ writing' = {} /\ bg_error' = TRUE /\ fails' = fails + 1
    /\ UNCHANGED <<disk, pc, mem, imm, logfile_number, open, pending, held, flush, comp,
                   ids, acked, durable, skipped, dropped, opened, crashes, compactions>>

\* MakeRoomForWrite switches to a new memtable and log.
SwitchMemTable ==
    /\ pc = "up" /\ writing = {} /\ ~bg_error /\ mem /= {} /\ imm = {}
    /\ logs' = Put(logs, vs.next, NewLog)
    /\ logfile_number' = vs.next
    /\ vs' = NewFileNumber
    /\ imm' = mem /\ mem' = {}
    /\ UNCHANGED <<tables, manifests, current, temps, pc, open, pending, held, writing,
                   flush, comp, bg_error, history>>

-----------------------------------------------------------------------------
(* CompactMemTable, by itself or inside a compaction *)

NoFlush == [stage |-> "none", out |-> 0]

\* WriteLevel0Table takes a number and creates the file.
FlushStart ==
    /\ pc = "up" /\ imm /= {} /\ flush = NoFlush
    /\ comp.stage = "merge" \/ (comp.stage = "none" /\ ~bg_error)
    /\ flush' = [stage |-> "build", out |-> vs.next]
    /\ vs' = NewFileNumber
    /\ pending' = pending \cup {vs.next}
    /\ tables' = Put(tables, vs.next, {})
    /\ UNCHANGED <<logs, manifests, current, temps, pc, mem, imm, logfile_number, open,
                   held, writing, comp, bg_error, history>>

\* The table is complete and synced; LogAndApply appends the edit.
FlushLog ==
    /\ pc = "up" /\ flush.stage = "build"
    /\ tables' = [tables EXCEPT ![flush.out] = imm]
    /\ pending' = pending \ {flush.out}
    /\ manifests' = AddRecord(vs.manifest, EditNow(logfile_number, {flush.out}, {}))
    /\ flush' = [flush EXCEPT !.stage = "manifest"]
    /\ UNCHANGED <<logs, current, temps, pc, mem, imm, logfile_number, vs, open, held,
                   writing, comp, bg_error, history>>

\* Synced and installed; the log of imm_ is no longer needed.
FlushInstall ==
    /\ pc = "up" /\ flush.stage = "manifest"
    /\ manifests' = SyncManifest(vs.manifest)
    /\ vs' = [vs EXCEPT !.files = @ \cup {flush.out}, !.log = logfile_number]
    /\ imm' = {} /\ flush' = NoFlush /\ pc' = "purge"
    /\ durable' = durable \cup imm
    /\ UNCHANGED <<logs, tables, current, temps, mem, logfile_number, open, pending, held,
                   writing, comp, bg_error, ids, acked, skipped, dropped, opened, crashes,
                   fails, compactions>>

\* BuildTable fails (and deletes its file), or AddRecord or Sync does.
FlushFails ==
    /\ pc = "up" /\ flush /= NoFlush /\ fails < MaxFails
    /\ tables' \in IF flush.stage = "build"
                   THEN {Without(tables, {flush.out}), [tables EXCEPT ![flush.out] = imm]}
                   ELSE {tables}
    /\ pending' = pending \ {flush.out}
    /\ flush' = NoFlush /\ bg_error' = TRUE /\ fails' = fails + 1
    /\ UNCHANGED <<logs, manifests, current, temps, pc, mem, imm, logfile_number, vs, open,
                   held, writing, comp, ids, acked, durable, skipped, dropped, opened,
                   crashes, compactions>>

-----------------------------------------------------------------------------
(* Compactions *)

NoCompaction == [stage |-> "none", in |-> {}, out |-> 0, move |-> FALSE]

CompactStart ==
    /\ pc = "up" /\ ~bg_error /\ imm = {} /\ flush = NoFlush /\ comp = NoCompaction
    /\ compactions < MaxCompactions /\ compactions' = compactions + 1
    /\ \E in \in (SUBSET vs.files) \ {{}} :
          comp' = [stage |-> "merge", in |-> in, out |-> vs.next, move |-> FALSE]
    /\ vs' = NewFileNumber
    /\ pending' = pending \cup {vs.next}
    /\ tables' = Put(tables, vs.next, {})
    /\ UNCHANGED <<logs, manifests, current, temps, pc, mem, imm, logfile_number, open, held,
                   writing, flush, bg_error, ids, acked, durable, skipped, dropped, opened,
                   crashes, fails>>

\* The output is complete and synced; InstallCompactionResults appends the edit.
\* A file deleted meanwhile stays deleted: the descriptor names a missing table.
CompactLog ==
    /\ pc = "up" /\ flush = NoFlush /\ comp.stage = "merge"
    /\ tables' = [tables EXCEPT ![comp.out] =
                     UNION {tables[n] : n \in comp.in \cap DOMAIN tables}]
    /\ manifests' = AddRecord(vs.manifest, EditNow(vs.log, {comp.out}, comp.in))
    /\ comp' = [comp EXCEPT !.stage = "manifest"]
    /\ UNCHANGED <<logs, current, temps, pc, mem, imm, logfile_number, vs, open, pending, held,
                   writing, flush, bg_error, history>>

\* IsTrivialMove: the edit deletes and adds the same file.
MoveLog ==
    /\ pc = "up" /\ ~bg_error /\ imm = {} /\ flush = NoFlush /\ comp = NoCompaction
    /\ compactions < MaxCompactions /\ compactions' = compactions + 1
    /\ \E f \in vs.files :
         /\ manifests' = AddRecord(vs.manifest, EditNow(vs.log, {f}, {f}))
         /\ comp' = [stage |-> "manifest", in |-> {f}, out |-> f, move |-> TRUE]
    /\ UNCHANGED <<logs, tables, current, temps, pc, mem, imm, logfile_number, vs, open,
                   pending, held, writing, flush, bg_error, ids, acked, durable, skipped,
                   dropped, opened, crashes, fails>>

\* Synced and installed, CleanupCompaction; only a merge deletes obsolete files.
CompactInstall ==
    /\ pc = "up" /\ comp.stage = "manifest"
    /\ manifests' = SyncManifest(vs.manifest)
    /\ vs' = [vs EXCEPT !.files = (@ \ comp.in) \cup {comp.out}]
    /\ pending' = pending \ {comp.out}
    /\ pc' = IF comp.move THEN "up" ELSE "purge"
    /\ comp' = NoCompaction
    /\ UNCHANGED <<logs, tables, current, temps, mem, imm, logfile_number, open, held,
                   writing, flush, bg_error, history>>

\* The output or the descriptor cannot be written.
CompactFails ==
    /\ pc = "up" /\ flush = NoFlush /\ comp /= NoCompaction /\ fails < MaxFails
    /\ pending' = pending \ {comp.out}
    /\ comp' = NoCompaction /\ bg_error' = TRUE /\ fails' = fails + 1
    /\ UNCHANGED <<disk, pc, mem, imm, logfile_number, vs, open, held, writing, flush,
                   ids, acked, durable, skipped, dropped, opened, crashes, compactions>>

\* A read or an iterator references the current Version, and lets go of it.
Ref ==
    /\ pc = "up" /\ Cardinality(held) < MaxHeld
    /\ held' = held \cup {vs.files}
    /\ UNCHANGED <<disk, pc, mem, imm, logfile_number, vs, open, pending, writing, flush,
                   comp, bg_error, history>>
Unref ==
    /\ pc = "up"
    /\ \E v \in held : held' = held \ {v}
    /\ UNCHANGED <<disk, pc, mem, imm, logfile_number, vs, open, pending, writing, flush,
                   comp, bg_error, history>>

-----------------------------------------------------------------------------
(* DB::Open *)

NotOpen == [files |-> {}, log |-> 0, next |-> 0, last |-> 0, manifest |-> 0]
NoOpen == [logs |-> {}, add |-> {}, max_sequence |-> 0]

\* NewDB writes descriptor 1 and does not sync it.
NewDB ==
    /\ pc = "down" /\ current = 0
    /\ manifests' = Put(manifests, 1, [edits |-> <<Edit(0, 2, 0, {}, {})>>, synced |-> 0])
    /\ pc' = "newdb_tmp"
    /\ UNCHANGED <<logs, tables, current, temps, mem, imm, logfile_number, vs, open, pending,
                   held, writing, flush, comp, bg_error, history>>

\* SetCurrentFile: a synced temporary file renamed to CURRENT.
Installing == IF pc \in {"newdb_tmp", "newdb_rename"} THEN 1 ELSE vs.manifest
WriteTemp ==
    /\ pc \in {"newdb_tmp", "open_tmp"}
    /\ temps' = temps \cup {Installing}
    /\ pc' = IF pc = "newdb_tmp" THEN "newdb_rename" ELSE "open_rename"
    /\ UNCHANGED <<logs, tables, manifests, current, mem, imm, logfile_number, vs, open, pending,
                   held, writing, flush, comp, bg_error, history>>
RenameNewDB ==
    /\ pc = "newdb_rename"
    /\ current' = Installing /\ temps' = temps \ {Installing}
    /\ pc' = "recover"
    /\ UNCHANGED <<logs, tables, manifests, mem, imm, logfile_number, vs, open, pending, held,
                   writing, flush, comp, bg_error, history>>

\* VersionSet::Recover, and the look for missing files, which compares numbers
\* and not types.
Recover ==
    /\ pc = "recover" \/ (pc = "down" /\ current /= 0)
    /\ LET v == Recovered(manifests[current].edits)
           missing == v.files \ (DOMAIN tables \cup DOMAIN logs \cup DOMAIN manifests \cup temps)
       IN  IF ~Readable(current) \/ missing /= {}
           THEN pc' = "corrupt" /\ UNCHANGED <<vs, open>>
           ELSE /\ pc' = "replay"
                /\ vs' = [files |-> v.files, log |-> v.log, next |-> v.next + 1,
                          last |-> v.last, manifest |-> v.next]
                /\ open' = [NoOpen EXCEPT !.logs = {n \in DOMAIN logs : n >= v.log}]
    /\ UNCHANGED <<disk, mem, imm, logfile_number, pending, held, writing, flush, comp,
                   bg_error, history>>

\* The tables RecoverLogFile makes of a log: one of what is left at its end, and
\* one whenever the memtable is full, here at most once.
Parts(recs) ==
    IF recs = <<>> THEN {<<>>}
    ELSE {IF cut = Len(recs) THEN <<ToSet(recs)>>
          ELSE <<ToSet(SubSeq(recs, 1, cut)), ToSet(SubSeq(recs, cut + 1, Len(recs)))>> :
             cut \in 1 .. Len(recs)}

\* RecoverLogFile for the oldest log left, and MarkFileNumberUsed.  The reader's
\* complaints are logged and ignored (paranoid_checks is off).
RecoverLogFile ==
    /\ pc = "replay" /\ open.logs /= {}
    /\ LET log == Min(open.logs)
           recs == logs[log].recs
       IN  /\ skipped' = skipped \cup logs[log].lost
           /\ dropped' = dropped \cup logs[log].lost
           /\ \E parts \in Parts(recs) :
             LET new == vs.next .. vs.next + Len(parts) - 1
             IN  /\ tables' = [n \in DOMAIN tables \cup new |->
                                 IF n \in new THEN parts[n - vs.next + 1] ELSE tables[n]]
                 /\ open' = [logs |-> open.logs \ {log}, add |-> open.add \cup new,
                             max_sequence |-> Max({open.max_sequence} \cup
                                                  {r.seq : r \in ToSet(recs)})]
                 /\ vs' = [vs EXCEPT !.next = MarkFileNumberUsed(@ + Len(parts), log)]
    /\ UNCHANGED <<logs, manifests, current, temps, pc, mem, imm, logfile_number, pending, held,
                   writing, flush, comp, bg_error, ids, acked, durable, opened, crashes, fails,
                   compactions>>

\* A log that cannot be opened is ignored (MaybeIgnoreError, paranoid_checks is
\* off).  A table that cannot be written fails RecoverLogFile, but the status is
\* overwritten by that of the next log.
RecoverLogFileFails ==
    /\ pc = "replay" /\ open.logs /= {} /\ fails < MaxFails /\ fails' = fails + 1
    /\ LET log == Min(open.logs)
           recs == logs[log].recs
           seen == {r.seq : r \in ToSet(recs)}
       IN  /\ \/ /\ open' = [open EXCEPT !.logs = @ \ {log}]
                 /\ vs' = [vs EXCEPT !.next = MarkFileNumberUsed(@, log)]
              \/ /\ recs /= <<>> /\ Cardinality(open.logs) > 1
                 /\ open' = [open EXCEPT !.logs = @ \ {log},
                                         !.max_sequence = Max({@} \cup seen)]
                 /\ vs' = [vs EXCEPT !.next = MarkFileNumberUsed(@ + 1, log)]
           /\ skipped' = skipped \cup ToSet(recs) \cup logs[log].lost
    /\ UNCHANGED <<disk, pc, mem, imm, logfile_number, pending, held, writing, flush, comp,
                   bg_error, ids, acked, durable, dropped, opened, crashes, compactions>>

\* The new log of this incarnation.
Fault_FromDescriptor == vs.last
RecoveredLastSequence == Max({vs.last, open.max_sequence})
CreateLog ==
    /\ pc = "replay" /\ open.logs = {}
    /\ logs' = Put(logs, vs.next, NewLog) /\ logfile_number' = vs.next
    /\ vs' = [NewFileNumber EXCEPT !.last = RecoveredLastSequence]
    /\ pc' = "manifest"
    /\ UNCHANGED <<tables, manifests, current, temps, mem, imm, open, pending, held, writing,
                   flush, comp, bg_error, history>>

\* LogAndApply with a new descriptor: a snapshot and Open's edit, then Sync.
CreateManifest ==
    /\ pc = "manifest"
    /\ manifests' = Put(manifests, vs.manifest,
                        [edits |-> <<WriteSnapshot(vs.files), EditNow(logfile_number, open.add, {})>>,
                         synced |-> 0])
    /\ pc' = "open_sync"
    /\ UNCHANGED <<logs, tables, current, temps, mem, imm, logfile_number, vs, open, pending,
                   held, writing, flush, comp, bg_error, history>>
SyncNewManifest ==
    /\ pc = "open_sync"
    /\ manifests' = SyncManifest(vs.manifest)
    /\ pc' = "open_tmp"
    /\ UNCHANGED <<logs, tables, current, temps, mem, imm, logfile_number, vs, open, pending,
                   held, writing, flush, comp, bg_error, history>>

\* CURRENT names the new descriptor, the Version is installed.  What the database
\* holds from here on is in synced tables.
RenameCurrent ==
    /\ pc = "open_rename"
    /\ current' = Installing /\ temps' = temps \ {Installing}
    /\ vs' = [vs EXCEPT !.files = @ \cup open.add, !.log = logfile_number]
    /\ open' = NoOpen /\ pc' = "purge" /\ opened' = TRUE
    /\ LET store == UNION {tables[n] : n \in (vs.files \cup open.add) \cap DOMAIN tables}
       IN  acked' = acked \cup store /\ durable' = durable \cup store
    /\ UNCHANGED <<logs, tables, manifests, mem, imm, logfile_number, pending, held, writing,
                   flush, comp, bg_error, ids, skipped, dropped, crashes, fails, compactions>>

\* Open returns an error: the process has nothing of the database in memory.
Forget ==
    /\ pc' = "down" /\ mem' = {} /\ imm' = {} /\ logfile_number' = 0 /\ vs' = NotOpen
    /\ open' = NoOpen /\ pending' = {} /\ held' = {} /\ writing' = {} /\ flush' = NoFlush
    /\ comp' = NoCompaction /\ bg_error' = FALSE
OpenStages == {"newdb_tmp", "newdb_rename", "recover", "replay", "manifest", "open_sync", "open_tmp",
               "open_rename"}

\* An I/O failure that Open returns.  LogAndApply deletes the descriptor it has
\* begun, SetCurrentFile its temporary file.
OpenFails ==
    /\ pc \in OpenStages /\ fails < MaxFails /\ fails' = fails + 1
    /\ pc = "replay" => Cardinality(open.logs) <= 1 \/ open.add = {}
    /\ manifests' = IF pc \in {"open_sync", "open_tmp", "open_rename"}
                    THEN Without(manifests, {vs.manifest}) ELSE manifests
    /\ temps' = IF pc \in {"newdb_rename", "open_rename"} THEN temps \ {Installing} ELSE temps
    /\ Forget
    /\ UNCHANGED <<logs, tables, current, ids, acked, durable, skipped, dropped, opened,
                   crashes, compactions>>

-----------------------------------------------------------------------------
(* Crashes *)

\* What a power loss may leave of a file: a part that contains the synced one.
CutLogs ==
    {[n \in DOMAIN logs |-> [logs[n] EXCEPT !.recs = SubSeq(@, 1, k[n]), !.synced = k[n]]] :
        k \in {f \in [DOMAIN logs -> 0 .. MaxWrites] :
                 \A n \in DOMAIN logs : f[n] \in logs[n].synced .. Len(logs[n].recs)}}
CutManifests ==
    LET longest == Max({0} \cup {Len(manifests[n].edits) : n \in DOMAIN manifests})
    IN  {[n \in DOMAIN manifests |-> [edits |-> SubSeq(manifests[n].edits, 1, k[n]),
                                      synced |-> k[n]]] :
            k \in {f \in [DOMAIN manifests -> 0 .. longest] :
                     \A n \in DOMAIN manifests :
                        f[n] \in manifests[n].synced .. Len(manifests[n].edits)}}

\* The process ends: a crash inside DeleteObsoleteFiles finds some of its files
\* deleted.
Purged(S) == IF pc = "purge" /\ MayCollect THEN SUBSET S ELSE {{}}
Crash(logsLeft, manifestsLeft) ==
    /\ crashes < MaxCrashes /\ crashes' = crashes + 1
    /\ Forget
    /\ \E l \in Purged(ObsoleteLogs), t \in Purged(ObsoleteTables),
          m \in Purged(ObsoleteManifests), d \in Purged(ObsoleteTemps) :
            /\ logs' = Without(logsLeft, l) /\ tables' = Without(tables, t)
            /\ manifests' = Without(manifestsLeft, m) /\ temps' = temps \ d
    /\ UNCHANGED <<current, ids, durable, skipped, dropped, opened, fails, compactions>>

\* A process crash: the operating system has every append.
ProcessCrash ==
    /\ pc \notin {"down", "corrupt"}
    /\ Crash(logs, manifests)
    /\ UNCHANGED acked

\* A power loss: only synced writes, and what tables hold, have to come back.
PowerLoss ==
    /\ pc /= "corrupt"
    /\ \E l \in CutLogs, m \in CutManifests : Crash(l, m)
    /\ acked' = durable

Done ==
    /\ \/ pc = "corrupt"
       \/ pc = "up" /\ bg_error
       \/ pc = "up" /\ ids = MaxWrites
    /\ UNCHANGED vars

Init ==
    /\ logs = <<>> /\ tables = <<>> /\ manifests = <<>> /\ current = 0 /\ temps = {}
    /\ pc = "down" /\ mem = {} /\ imm = {} /\ logfile_number = 0 /\ vs = NotOpen
    /\ open = NoOpen /\ pending = {} /\ held = {} /\ writing = {} /\ flush = NoFlush
    /\ comp = NoCompaction /\ bg_error = FALSE
    /\ ids = 0 /\ acked = {} /\ durable = {} /\ skipped = {} /\ dropped = {} /\ opened = FALSE
    /\ crashes = 0 /\ fails = 0 /\ compactions = 0

Next ==
    \/ DeleteObsoleteFiles
    \/ LogRecord(TRUE) \/ LogRecord(FALSE) \/ AppendFails \/ FinishWrite \/ SyncFails
    \/ SwitchMemTable
    \/ FlushStart \/ FlushLog \/ FlushInstall \/ FlushFails
    \/ CompactStart \/ CompactLog \/ MoveLog \/ CompactInstall \/ CompactFails
    \/ Ref \/ Unref
    \/ NewDB \/ WriteTemp \/ RenameNewDB \/ Recover \/ RecoverLogFile \/ RecoverLogFileFails
    \/ CreateLog
    \/ CreateManifest \/ SyncNewManifest \/ RenameCurrent \/ OpenFails
    \/ ProcessCrash \/ PowerLoss
    \/ Done

Spec == Init /\ [][Next]_vars

-----------------------------------------------------------------------------
(* Properties *)

Recs == [id : 1 .. MaxWrites, seq : 1 .. MaxWrites]

\* The type invariant.
TypeOK ==
    /\ \A n \in DOMAIN logs : n \in Nat /\ logs[n].recs \in Seq(Recs) /\ logs[n].lost \subseteq Recs
                              /\ logs[n].synced \in 0 .. Len(logs[n].recs)
    /\ \A n \in DOMAIN tables : n \in Nat /\ tables[n] \subseteq Recs
    /\ \A n \in DOMAIN manifests : n \in Nat /\ manifests[n].synced \in 0 .. Len(manifests[n].edits)
    /\ current \in Nat /\ temps \subseteq Nat /\ pending \subseteq Nat
    /\ pc \in OpenStages \cup {"down", "up", "purge", "corrupt"}
    /\ mem \subseteq Recs /\ imm \subseteq Recs /\ Cardinality(writing) <= 1
    /\ pc \in {"up", "purge"} => vs.log <= logfile_number /\ logfile_number < vs.next
    /\ durable \subseteq acked /\ acked \subseteq Recs /\ dropped \subseteq skipped /\ skipped \subseteq Recs

\* No write is lost (options.h, WriteOptions::sync).  In an open database every
\* acknowledged write can be read, however many crashes, failed appends, failed flushes
\* and failed Opens came between; after a power loss every write that was synced,
\* flushed to a table or seen by an earlier Open.  Two kinds of records are excepted,
\* from the Open on that went on without them and no sooner: those of a log that it
\* failed to replay, and those behind a failed append that the reader dropped.
\* Without an I/O failure nothing is excepted.
NothingLost ==
    /\ pc \in {"up", "purge"} => acked \ skipped \subseteq Store
    /\ fails = 0 => skipped = {}

\* options.h, WriteOptions::sync, as it stands: "if it is just the process that crashes
\* [...] no writes will be lost even if sync==false".  A log Open failed to replay is
\* excepted, a failed append is not.  The code does not keep this: it goes on
\* acknowledging writes in a log with a torn record.
AcknowledgedSurvive ==
    pc \in {"up", "purge"} => acked \ (skipped \ dropped) \subseteq Store

\* DeleteObsoleteFiles never takes a table that the current Version, a Version a
\* reader holds, or the compaction under way needs.
NeededTablesExist ==
    pc \in {"up", "purge"} =>
        /\ \A n \in vs.files \cup UNION held : n \in DOMAIN tables /\ tables[n] /= {}
        /\ comp.stage /= "none" => {comp.out} \cup comp.in \subseteq DOMAIN tables

\* A sequence number is not given out again while a record that has it can come
\* back: no two records of the database share one, and LastSequence is past all.
NumbersNotReused ==
    pc \in {"up", "purge"} =>
        /\ \A a, b \in Store : a.seq = b.seq => a = b
        /\ \A r \in Store : r.seq <= vs.last

\* NewFileNumber never returns the number of a file that exists, which creating
\* it again would truncate.
FileNumbersFresh ==
    pc = "up" => \A n \in DOMAIN logs \cup DOMAIN tables \cup DOMAIN manifests : n < vs.next

\* A database that was open once opens again after any crash: the descriptor
\* CURRENT names has all its fields and every table it lists exists.
OpensAgain == opened => pc /= "corrupt"

\* After any Open, sequence numbers and file numbers go on above everything that is left
\* on disk, in a well-formed state.
NumbersFresh == TypeOK /\ NumbersNotReused /\ FileNumbersFresh
=============================================================================
