----------------------------- MODULE PosixFiles -----------------------------
(***************************************************************************)
(* What a crash leaves of the files that make up the database's state      *)
(* (env_posix.cpp, env.cpp, filename.cpp, and the order in which NewDB,    *)
(* Open, LogAndApply and DeleteObsoleteFiles use them).  A stdio buffer    *)
(* dies with the process.  What the kernel has dies with the power unless  *)
(* it was synced: the data of a file by fdatasync, the directory by the    *)
(* fsync of SyncDirIfManifest.  The file system, which is external, is     *)
(* assumed to keep directory operations in order (metadata journaling) and *)
(* to write no unsynced data back before the directory operations that     *)
(* precede it.                                                             *)
(* Write-ahead logs are the subject of Recovery and LogFormat.             *)
(*                                                                         *)
(* Definitions named Fault_... are wrong variants of the definition that   *)
(* follows them; the specification does not use them.                      *)
(***************************************************************************)
EXTENDS Integers, Sequences, FiniteSets, FiniteSetsExt, SequencesExt, Functions, TLC

CONSTANTS MaxPosixTables,  \* bound: tables written
          MaxPosixCrashes, \* bound: exits, process crashes and power losses
          MaxPosixFaults   \* bound: failed system calls

VARIABLES
    pf_dirs,    \* the directory (name -> inode) from its last sync on, after each operation
    pf_inodes,  \* inode -> [data, synced, buf]: items in the kernel, how many of them are
                \* on the disk, items in the stdio buffer
    pf_plan,    \* the calls the process has yet to make
    pf_stage,   \* where the process is
    pf_next,    \* next_file_number_ and the descriptor's number
    pf_acked,   \* history: the tables of the last LogAndApply of a flush or a compaction
                \* that returned OK (that of Open leaves CURRENT to the next directory sync)
    pf_count

pf_vars == <<pf_dirs, pf_inodes, pf_plan, pf_stage, pf_next, pf_acked, pf_count>>

Manifest(n) == <<"MANIFEST", n>>
TableFile(n) == <<"TABLE", n>>
Current == <<"CURRENT", 0>>
Tmp == <<"TMP", 0>>
Directory == Last(pf_dirs)

-----------------------------------------------------------------------------
(* System calls and stdio *)

Moved(dir) == pf_dirs' = Append(pf_dirs, dir)
At(f) == Directory[f]

\* fopen(fname, "w"): a new file, or an existing one truncated.
NewWritableFile(f) ==
    IF f \in DOMAIN Directory
    THEN pf_inodes' = [pf_inodes EXCEPT ![At(f)] = [data |-> <<>>, synced |-> 0, buf |-> <<>>]]
         /\ UNCHANGED pf_dirs
    ELSE /\ pf_inodes' = Append(pf_inodes, [data |-> <<>>, synced |-> 0, buf |-> <<>>])
         /\ Moved((f :> Len(pf_inodes) + 1) @@ Directory)

FileAppend(f, item) ==
    pf_inodes' = [pf_inodes EXCEPT ![At(f)].buf = Append(@, item)] /\ UNCHANGED pf_dirs

Flushed(n) == [n EXCEPT !.data = @ \o n.buf, !.buf = <<>>]
FileFlush(f) == pf_inodes' = [pf_inodes EXCEPT ![At(f)] = Flushed(@)] /\ UNCHANGED pf_dirs

\* Sync of a descriptor syncs the directory before the data.
Fault_SyncDirIfManifest(f) == pf_dirs
SyncDirIfManifest(f) == IF f[1] = "MANIFEST" THEN <<Directory>> ELSE pf_dirs
FileSync(f) ==
    /\ pf_inodes' = [pf_inodes EXCEPT ![At(f)] =
                        LET n == Flushed(@) IN [n EXCEPT !.synced = Len(n.data)]]
    /\ pf_dirs' = SyncDirIfManifest(f)

RenameFile(f, g) ==
    Moved(Restrict((g :> At(f)) @@ Directory, (DOMAIN Directory \ {f}) \cup {g})) /\ UNCHANGED pf_inodes

DeleteFile(f) ==
    /\ IF f \in DOMAIN Directory THEN Moved(Restrict(Directory, DOMAIN Directory \ {f})) ELSE UNCHANGED pf_dirs
    /\ UNCHANGED pf_inodes

-----------------------------------------------------------------------------
(* Reading the state back *)

Content(f) == pf_inodes[At(f)].data
CurrentNumber == Content(Current)[1]
Descriptor == Content(Manifest(CurrentNumber))
TablesIn(edits) == FoldLeft(LAMBDA ts, e : (ts \ e.del) \cup e.add, {}, edits)

\* DBImpl::Recover, VersionSet::Recover: CURRENT is complete, the descriptor
\* exists, some record has the numbers, and no table of it is missing.
Opens ==
    /\ Content(Current) /= <<>> /\ Manifest(CurrentNumber) \in DOMAIN Directory
    /\ \E i \in DOMAIN Descriptor : Descriptor[i].meta
    /\ \A t \in TablesIn(Descriptor) : TableFile(t) \in DOMAIN Directory
NextFile == Last(SelectSeq(Descriptor, LAMBDA e : e.meta)).next

-----------------------------------------------------------------------------
(* Sequences of calls.  A call is <<name, file, argument, calls to make if it fails>>. *)

Calls(cs, undo) == [i \in DOMAIN cs |-> <<cs[i][1], cs[i][2], cs[i][3], undo>>]
Unlinks(fs) == LET s == SetToSeq(fs) IN [i \in DOMAIN s |-> <<"delete", s[i], 0, <<>>>>]

\* SetCurrentFile, DoWriteStringToFile: the temporary file is synced, closed and
\* renamed.  "failed" is what the caller undoes.
Fault_WriteSync == <<>>
WriteSync == <<<<"sync", Tmp, 0>>>>
SetCurrentFile(n, failed) ==
    Calls(<<<<"create", Tmp, 0>>>>, failed)
    \o Calls(<<<<"append", Tmp, n>>>> \o WriteSync \o <<<<"close", Tmp, 0>>, <<"rename", Tmp, Current>>>>,
             Unlinks({Tmp}) \o failed)

\* Items of a descriptor: tables added and deleted; meta: it has the file and
\* log numbers, which Recover requires.
Edit(add, del, meta, next) == [add |-> add, del |-> del, meta |-> meta, next |-> next]

\* DBImpl::NewDB: the descriptor is closed, not synced.
NewDB ==
    Calls(<<<<"create", Manifest(1), 0>>>>, <<>>)
    \o Calls(<<<<"append", Manifest(1), Edit({}, {}, TRUE, 2)>>, <<"flush", Manifest(1), 0>>,
               <<"close", Manifest(1), 0>>>>, Unlinks({Manifest(1)}))
    \o SetCurrentFile(1, <<>>)

\* The first LogAndApply of a process: a new descriptor that starts with
\* WriteSnapshot; then DeleteObsoleteFiles.
Fault_LogAndApplySync(m) == <<<<"flush", Manifest(m), 0>>>>
LogAndApplySync(m) == <<<<"sync", Manifest(m), 0>>>>
FirstLogAndApply(m, tables) ==
    Calls(<<<<"create", Manifest(m), 0>>>>, <<>>)
    \o Calls(<<<<"append", Manifest(m), Edit(tables, {}, FALSE, 0)>>, <<"flush", Manifest(m), 0>>,
               <<"append", Manifest(m), Edit({}, {}, TRUE, m + 2)>>, <<"flush", Manifest(m), 0>>>>
             \o LogAndApplySync(m), Unlinks({Manifest(m)}))
    \o SetCurrentFile(m, Unlinks({Manifest(m)}))
    \o Unlinks({f \in DOMAIN Directory :
                  \/ f[1] = "MANIFEST" /\ f[2] < m
                  \/ f[1] = "TABLE" /\ f[2] \notin tables
                  \/ f = Tmp})

\* BuildTable or a compaction's output, then LogAndApply of the edit that adds
\* the table and drops the tables in "del", then DeleteObsoleteFiles.
WriteTable(n, m, del) ==
    Calls(<<<<"create", TableFile(n), 0>>>>, <<>>)
    \o Calls(<<<<"append", TableFile(n), "records">>, <<"sync", TableFile(n), 0>>, <<"close", TableFile(n), 0>>>>,
             Unlinks({TableFile(n)}))
    \o Calls(<<<<"append", Manifest(m), Edit({n}, del, TRUE, n + 1)>>, <<"flush", Manifest(m), 0>>>>
             \o LogAndApplySync(m), <<>>)
    \o <<<<"ack", Current, (TablesIn(Descriptor) \ del) \cup {n}, <<>>>>>>
    \o Unlinks({TableFile(t) : t \in del})

-----------------------------------------------------------------------------
(* The process *)

Done(call) ==
    CASE call[1] = "create" -> NewWritableFile(call[2])
      [] call[1] = "append" -> FileAppend(call[2], call[3])
      [] call[1] \in {"flush", "close"} -> FileFlush(call[2])
      [] call[1] = "sync" -> FileSync(call[2])
      [] call[1] = "rename" -> RenameFile(call[2], call[3])
      [] call[1] = "delete" -> DeleteFile(call[2])
      [] call[1] = "ack" -> UNCHANGED <<pf_dirs, pf_inodes>>

Call ==
    /\ pf_plan /= <<>>
    /\ Done(Head(pf_plan))
    /\ pf_plan' = Tail(pf_plan)
    /\ pf_acked' = IF Head(pf_plan)[1] = "ack" THEN Head(pf_plan)[3] ELSE pf_acked
    /\ UNCHANGED <<pf_stage, pf_next, pf_count>>

\* An error from a call: undo and give up (the database is not opened, or has a
\* background error).  Errors of DeleteFile are ignored.
CallFails ==
    /\ pf_plan /= <<>> /\ pf_count.faults < MaxPosixFaults /\ Head(pf_plan)[1] \notin {"delete", "ack"}
    /\ pf_plan' = Head(pf_plan)[4] /\ pf_stage' = "stopped"
    /\ pf_count' = [pf_count EXCEPT !.faults = @ + 1]
    /\ UNCHANGED <<pf_dirs, pf_inodes, pf_next, pf_acked>>

\* DB::Open
Start ==
    /\ pf_stage = "down"
    /\ IF Current \notin DOMAIN Directory
       THEN pf_plan' = NewDB /\ pf_stage' = "new" /\ UNCHANGED <<pf_next, pf_acked>>
       ELSE IF Opens
       THEN /\ pf_plan' = FirstLogAndApply(NextFile, TablesIn(Descriptor)) /\ pf_stage' = "open"
            /\ pf_next' = [manifest |-> NextFile, file |-> NextFile + 2]
            /\ pf_acked' = pf_acked \cap TablesIn(Descriptor)
       ELSE pf_stage' = "refused" /\ UNCHANGED <<pf_plan, pf_next, pf_acked>>
    /\ UNCHANGED <<pf_dirs, pf_inodes, pf_count>>

Created ==
    /\ pf_stage = "new" /\ pf_plan = <<>>
    /\ pf_plan' = FirstLogAndApply(NextFile, {}) /\ pf_stage' = "open"
    /\ pf_next' = [manifest |-> NextFile, file |-> NextFile + 2]
    /\ UNCHANGED <<pf_dirs, pf_inodes, pf_acked, pf_count>>

\* A flush, or a compaction of all tables into one.
AddTable ==
    /\ pf_stage = "open" /\ pf_plan = <<>> /\ pf_count.tables < MaxPosixTables
    /\ \E del \in {{}, TablesIn(Descriptor)} : pf_plan' = WriteTable(pf_next.file, pf_next.manifest, del)
    /\ pf_next' = [pf_next EXCEPT !.file = @ + 1]
    /\ pf_count' = [pf_count EXCEPT !.tables = @ + 1]
    /\ UNCHANGED <<pf_dirs, pf_inodes, pf_stage, pf_acked>>

\* The process dies: the buffers are gone.
Crash ==
    /\ pf_stage \notin {"down", "refused"} /\ pf_count.crashes < MaxPosixCrashes
    /\ pf_inodes' = [i \in DOMAIN pf_inodes |-> [pf_inodes[i] EXCEPT !.buf = <<>>]]
    /\ pf_plan' = <<>> /\ pf_stage' = "down"
    /\ pf_count' = [pf_count EXCEPT !.crashes = @ + 1]
    /\ UNCHANGED <<pf_dirs, pf_next, pf_acked>>

\* The database is closed: fclose flushes what a failed call has left behind.
Exit ==
    /\ pf_stage \in {"open", "stopped"} /\ pf_plan = <<>> /\ pf_count.crashes < MaxPosixCrashes
    /\ pf_inodes' = [i \in DOMAIN pf_inodes |-> Flushed(pf_inodes[i])]
    /\ pf_stage' = "down"
    /\ pf_count' = [pf_count EXCEPT !.crashes = @ + 1]
    /\ UNCHANGED <<pf_dirs, pf_plan, pf_next, pf_acked>>

\* The power fails: a prefix of the directory operations since the last sync is
\* left and, of every file, what was synced; more of the files only with all of
\* the directory (AddRecord flushes a descriptor record before Sync syncs the
\* directory: a file system that writes the record back first loses the table).
PowerLoss ==
    /\ pf_stage \notin {"down", "refused"} /\ pf_count.crashes < MaxPosixCrashes
    /\ \E i \in DOMAIN pf_dirs, all \in BOOLEAN :
       /\ all => i = Len(pf_dirs)
       /\ pf_dirs' = <<pf_dirs[i]>>
       /\ pf_inodes' = [j \in DOMAIN pf_inodes |->
            LET n == pf_inodes[j]
                left == IF all THEN n.data ELSE SubSeq(n.data, 1, n.synced)
            IN  [data |-> left, synced |-> Len(left), buf |-> <<>>]]
    /\ pf_plan' = <<>> /\ pf_stage' = "down"
    /\ pf_count' = [pf_count EXCEPT !.crashes = @ + 1, !.power = TRUE]
    /\ UNCHANGED <<pf_next, pf_acked>>

PosixInit ==
    /\ pf_dirs = <<<<>>>> /\ pf_inodes = <<>> /\ pf_plan = <<>> /\ pf_stage = "down"
    /\ pf_next = [manifest |-> 0, file |-> 0] /\ pf_acked = {}
    /\ pf_count = [tables |-> 0, crashes |-> 0, faults |-> 0, power |-> FALSE]

\* All bounded work is done, or Open reports corruption.
PosixIdle == pf_plan = <<>> /\ pf_stage \in {"open", "stopped", "refused"} /\ UNCHANGED pf_vars

PosixNext ==
    Call \/ CallFails \/ Start \/ Created \/ AddTable \/ Exit \/ Crash \/ PowerLoss \/ PosixIdle

-----------------------------------------------------------------------------
(* Properties *)

\* The database whose descriptor NewDB wrote, which no call has synced.
OnNewDescriptor == pf_count.power /\ Content(Current) = <<1>>

\* After a crash of the process or the machine at any point, the next Open
\* succeeds and finds every table whose LogAndApply had returned, complete.  Until
\* then the database may be absent or, if the power failed, left with the CURRENT
\* of NewDB and an incomplete descriptor.
CrashKeepsTables ==
    pf_stage = "down" =>
        \/ pf_acked = {} /\ (Current \notin DOMAIN Directory \/ OnNewDescriptor)
        \/ /\ Current \in DOMAIN Directory /\ Opens
           /\ \A t \in pf_acked : \/ t \in TablesIn(Descriptor)
                                 \/ \E i \in DOMAIN Descriptor : t \in Descriptor[i].del
           /\ \A t \in TablesIn(Descriptor) : Content(TableFile(t)) = <<"records">>
=============================================================================
