------------------------------- MODULE Repair -------------------------------
(***************************************************************************)
(* RepairDB (repair.cpp): every log is turned into a table, every table is *)
(* scanned, the readable part of a damaged one is copied, and a descriptor *)
(* is written that puts all of them on level 0.  Before it a database      *)
(* writes, flushes and compacts, so that the files it finds are files a    *)
(* database leaves behind.                                                 *)
(*                                                                         *)
(* An entry is [k, s]: a user key and its sequence number, 0 for a key     *)
(* that ParseInternalKey refuses.  A file is [kind, entries, bad], bad     *)
(* being the entries in damaged records or blocks.  Fault_... definitions  *)
(* are wrong variants that the specification does not use.                 *)
(***************************************************************************)
EXTENDS Integers, FiniteSets, FiniteSetsExt

CONSTANTS RepairKeys,        \* user keys
          Garbage,           \* a sequence number a damaged record may seem to have
          MaxWrites, MaxFiles, MaxRepairFaults   \* bounds: writes, files, faults

ASSUME RepairAssumption ==
    /\ {MaxWrites, MaxFiles, MaxRepairFaults} \subseteq Nat /\ Garbage \in Nat /\ Garbage > MaxWrites

VARIABLES rp_files,    \* file number -> file
          rp_level,    \* table number -> level, in the database's last version
          rp_log,      \* number of the log being written
          rp_last,     \* last sequence number
          rp_pc,       \* "db", "find", "convert", "scan" or "done"
          rp_logs, rp_numbers, rp_tables, rp_next,   \* Repairer's logs_, table_numbers_,
                       \* tables_ (number -> max_sequence) and next_file_number_
          rp_desc,     \* the new descriptor: [tables, last, next]
          rp_lost,     \* entries of files moved to lost/
          rp_faults,   \* faults so far: damage, failures, crashes
          rp_clean,    \* history: nothing failed, nor was interrupted half way
          rp_had       \* history: the entries that could be read when repair began
rp_vars == <<rp_files, rp_level, rp_log, rp_last, rp_pc, rp_logs, rp_numbers, rp_tables,
             rp_next, rp_desc, rp_lost, rp_faults, rp_clean, rp_had>>
repairer == <<rp_logs, rp_numbers, rp_tables, rp_next, rp_desc, rp_lost, rp_clean, rp_had>>

Numbers == DOMAIN rp_files
Good(f) == f.entries \ f.bad
NewNumber == IF Numbers = {} THEN 1 ELSE Max(Numbers) + 1
RepairedTable(entries) == [kind |-> "table", entries |-> entries, bad |-> {}]
LogFile(entries) == [kind |-> "log", entries |-> entries, bad |-> {}]
With(files, n, f) == [i \in DOMAIN files \cup {n} |-> IF i = n THEN f ELSE files[i]]
Without(files, S) == [i \in DOMAIN files \ S |-> files[i]]
NoDescriptor == [tables |-> {}, last |-> 0, next |-> 0]

-----------------------------------------------------------------------------
(* The database whose files are repaired *)

RepairWrite(k) ==
    /\ rp_pc = "db" /\ rp_last < MaxWrites
    /\ rp_last' = rp_last + 1
    /\ rp_files' = [rp_files EXCEPT ![rp_log].entries = @ \cup {[k |-> k, s |-> rp_last + 1]}]
    /\ UNCHANGED <<rp_level, rp_log, rp_pc, repairer, rp_faults>>

\* The log is switched and its contents written to a level-0 table.
RepairFlush ==
    LET log == NewNumber
    IN /\ rp_pc = "db" /\ rp_files[rp_log].entries # {} /\ log + 1 <= MaxFiles
       /\ rp_log' = log
       /\ rp_files' = With(With(Without(rp_files, {rp_log}), log, LogFile({})), log + 1,
                           RepairedTable(rp_files[rp_log].entries))
       /\ rp_level' = With(rp_level, log + 1, 0)
       /\ UNCHANGED <<rp_last, rp_pc, repairer, rp_faults>>

\* A compaction of level l into l + 1 keeps the newest entry of each key.
RepairCompact(l) ==
    LET old == {n \in DOMAIN rp_level : rp_level[n] \in {l, l + 1}}
        all == UNION {rp_files[n].entries : n \in old}
        kept == {e \in all : \A f \in all : f.k = e.k => f.s <= e.s}
    IN /\ rp_pc = "db" /\ l \in {rp_level[n] : n \in DOMAIN rp_level} /\ NewNumber <= MaxFiles
       /\ rp_files' = With(Without(rp_files, old), NewNumber, RepairedTable(kept))
       /\ rp_level' = With(Without(rp_level, old), NewNumber, l + 1)
       /\ UNCHANGED <<rp_log, rp_last, rp_pc, repairer, rp_faults>>

\* One record of a log or block of a table is damaged on disk; a table's checksums are
\* verified only with paranoid_checks, and without them damage may read as an entry,
\* with another number or a key that does not parse.
RepairDamage(n, e) ==
    /\ rp_pc = "db" /\ rp_faults < MaxRepairFaults
    /\ \/ rp_files' = [rp_files EXCEPT ![n].bad = @ \cup {e}]
       \/ /\ rp_files[n].kind = "table"
          /\ \E s \in {0, Garbage} :
                rp_files' = [rp_files EXCEPT ![n].entries = (@ \ {e}) \cup {[k |-> e.k, s |-> s]}]
    /\ rp_faults' = rp_faults + 1
    /\ UNCHANGED <<rp_level, rp_log, rp_last, rp_pc, repairer>>

-----------------------------------------------------------------------------
(* Repairer *)

\* FindFiles, of a Repairer made afresh.
Fault_FindNext == IF Numbers = {} THEN 1 ELSE Max(Numbers)
FindNext == IF Numbers = {} THEN 1 ELSE Max(Numbers) + 1

FindFiles ==
    /\ rp_pc \in {"db", "find"}
    /\ rp_pc' = "convert"
    /\ rp_logs' = {n \in Numbers : rp_files[n].kind = "log"}
    /\ rp_numbers' = {n \in Numbers : rp_files[n].kind = "table"}
    /\ rp_next' = FindNext /\ rp_tables' = <<>> /\ rp_desc' = NoDescriptor
    /\ rp_had' = IF rp_pc = "db" THEN UNION {Good(rp_files[n]) : n \in Numbers} ELSE rp_had
    /\ UNCHANGED <<rp_files, rp_level, rp_log, rp_last, rp_lost, rp_faults, rp_clean>>

\* What the reader, which does not verify checksums here, makes of a log: a damaged
\* record is refused, or taken for something else.
LogContents(f) ==
    {Good(f) \cup read : read \in SUBSET {[k |-> e.k, s |-> Garbage] : e \in f.bad}}

\* ConvertLogToTable, then ArchiveFile whether it worked or not.
Fault_ConvertedNumbers(n, entries) == rp_numbers
ConvertedNumbers(n, entries) == IF entries = {} THEN rp_numbers ELSE rp_numbers \cup {n}

ConvertLog(log, entries, ok) ==
    LET archived == Without(rp_files, {log})
    IN /\ rp_pc = "convert" /\ log \in rp_logs /\ rp_next < MaxFiles + 2
       /\ ok \/ rp_faults < MaxRepairFaults
       /\ entries \in LogContents(rp_files[log])
       /\ rp_logs' = rp_logs \ {log}
       /\ rp_next' = rp_next + 1
       /\ rp_numbers' = IF ok THEN ConvertedNumbers(rp_next, entries) ELSE rp_numbers
       /\ rp_files' = IF ok /\ entries # {} THEN With(archived, rp_next, RepairedTable(entries)) ELSE archived
       /\ rp_lost' = rp_lost \cup rp_files[log].entries
       /\ rp_faults' = IF ok THEN rp_faults ELSE rp_faults + 1
       /\ rp_clean' = (rp_clean /\ ok)
       /\ UNCHANGED <<rp_level, rp_log, rp_last, rp_pc, rp_tables, rp_desc, rp_had>>

LogsConverted ==
    /\ rp_pc = "convert" /\ rp_logs = {}
    /\ rp_pc' = "scan"
    /\ UNCHANGED <<rp_files, rp_level, rp_log, rp_last, repairer, rp_faults>>

MaxSequenceOf(entries) == Max({e.s : e \in entries})

\* ScanTable of a table whose size GetFileSize does not give, under either name: it is
\* archived and forgotten.
DropTable(n) ==
    /\ rp_pc = "scan" /\ n \in rp_numbers /\ rp_faults < MaxRepairFaults
    /\ rp_numbers' = rp_numbers \ {n}
    /\ rp_files' = Without(rp_files, {n})
    /\ rp_lost' = rp_lost \cup rp_files[n].entries
    /\ rp_faults' = rp_faults + 1
    /\ rp_clean' = FALSE
    /\ UNCHANGED <<rp_level, rp_log, rp_last, rp_pc, rp_logs, rp_tables, rp_next, rp_desc, rp_had>>

\* ScanTable of a table that can be read to its end; a key that does not parse is passed
\* over.
ScanTable(n) ==
    /\ rp_pc = "scan" /\ n \in rp_numbers /\ rp_files[n].bad = {}
    /\ rp_numbers' = rp_numbers \ {n}
    /\ rp_tables' = With(rp_tables, n, MaxSequenceOf(rp_files[n].entries))
    /\ UNCHANGED <<rp_files, rp_level, rp_log, rp_last, rp_pc, rp_logs, rp_next, rp_desc,
                   rp_lost, rp_faults, rp_clean, rp_had>>

\* ScanTable of a damaged one and RepairTable: the original is archived before the
\* copy is complete and renamed over it ("copy fails"), but stays where it is when
\* the copy cannot be created ("no copy").
RepairTable(n, how) ==
    LET f == rp_files[n]
        saved == how = "ok" /\ Good(f) # {}
    IN /\ rp_pc = "scan" /\ n \in rp_numbers /\ f.bad # {} /\ rp_next < MaxFiles + 2
       /\ how = "ok" \/ rp_faults < MaxRepairFaults
       /\ rp_numbers' = rp_numbers \ {n}
       /\ rp_next' = rp_next + 1
       /\ rp_lost' = IF how = "no copy" THEN rp_lost ELSE rp_lost \cup f.entries
       /\ rp_files' = IF saved THEN With(rp_files, n, RepairedTable(Good(f)))
                      ELSE IF how = "no copy" THEN rp_files ELSE Without(rp_files, {n})
       /\ rp_tables' = IF saved THEN With(rp_tables, n, MaxSequenceOf(Good(f))) ELSE rp_tables
       /\ rp_faults' = IF how = "ok" THEN rp_faults ELSE rp_faults + 1
       /\ rp_clean' = (rp_clean /\ how = "ok")
       /\ UNCHANGED <<rp_level, rp_log, rp_last, rp_pc, rp_logs, rp_desc, rp_had>>

\* The process stops: between two steps, or in RepairTable with the original archived
\* and the copy not readable.  Another RepairDB begins with what is on disk.
RepairCrash(gone) ==
    /\ rp_pc \in {"convert", "scan"} /\ rp_faults < MaxRepairFaults
    /\ gone = {} \/ (rp_pc = "scan" /\ gone \subseteq rp_numbers
                     /\ \A n \in gone : rp_files[n].bad # {})
    /\ rp_pc' = "find"
    /\ rp_files' = Without(rp_files, gone)
    /\ rp_lost' = rp_lost \cup UNION {rp_files[n].entries : n \in gone}
    /\ rp_faults' = rp_faults + 1
    /\ rp_clean' = (rp_clean /\ gone = {})
    /\ UNCHANGED <<rp_level, rp_log, rp_last, rp_logs, rp_numbers, rp_tables, rp_next, rp_desc,
                   rp_had>>

\* The process stops with the table of a log written and the log not yet archived.
RepairCrashBuilt(log, entries) ==
    /\ rp_pc = "convert" /\ rp_faults < MaxRepairFaults /\ entries # {}
    /\ rp_pc' = "find"
    /\ rp_files' = With(rp_files, rp_next, RepairedTable(entries))
    /\ rp_faults' = rp_faults + 1
    /\ UNCHANGED <<rp_level, rp_log, rp_last, repairer>>

Fault_WriteDescriptorLast == rp_last
WriteDescriptorLast == Max({0} \cup {rp_tables[n] : n \in DOMAIN rp_tables})

\* An error ends the run; RepairDB may be called again.
WriteDescriptor(ok) ==
    /\ rp_pc = "scan" /\ rp_numbers = {}
    /\ ok \/ rp_faults < MaxRepairFaults
    /\ rp_pc' = IF ok THEN "done" ELSE "find"
    /\ rp_desc' = IF ok THEN [tables |-> DOMAIN rp_tables, last |-> WriteDescriptorLast, next |-> rp_next]
                  ELSE rp_desc
    /\ rp_faults' = IF ok THEN rp_faults ELSE rp_faults + 1
    /\ UNCHANGED <<rp_files, rp_level, rp_log, rp_last, rp_logs, rp_numbers, rp_tables,
                   rp_next, rp_lost, rp_clean, rp_had>>

RepairInit ==
    /\ rp_files = With(<<>>, 1, LogFile({})) /\ rp_level = <<>> /\ rp_log = 1 /\ rp_last = 0
    /\ rp_pc = "db" /\ rp_logs = {} /\ rp_numbers = {} /\ rp_tables = <<>> /\ rp_next = 1
    /\ rp_desc = NoDescriptor /\ rp_lost = {} /\ rp_faults = 0 /\ rp_clean = TRUE
    /\ rp_had = {}

RepairNext ==
    \/ \E k \in RepairKeys : RepairWrite(k)
    \/ RepairFlush
    \/ \E l \in 0 .. 1 : RepairCompact(l)
    \/ \E n \in Numbers : \E e \in rp_files[n].entries : RepairDamage(n, e)
    \/ FindFiles
    \/ \E log \in rp_logs : \E entries \in LogContents(rp_files[log]), ok \in BOOLEAN :
          ConvertLog(log, entries, ok)
    \/ \E log \in rp_logs : \E entries \in LogContents(rp_files[log]) : RepairCrashBuilt(log, entries)
    \/ LogsConverted
    \/ \E n \in rp_numbers : DropTable(n) \/ ScanTable(n) \/ (\E how \in {"ok", "copy fails", "no copy"} : RepairTable(n, how))
    \/ \E gone \in {{}} \cup {{n} : n \in rp_numbers} : RepairCrash(gone)
    \/ \E ok \in BOOLEAN : WriteDescriptor(ok)

-----------------------------------------------------------------------------
(* Properties *)

Listed == UNION {rp_files[n].entries : n \in rp_desc.tables}

\* A repair that is done has every entry that could be read in the tables of the new
\* descriptor; when a conversion, a copy or GetFileSize failed, or the process stopped in
\* a copy, the missing ones are in files under lost/ or in a table left where it was.  Stopping
\* between two steps and calling RepairDB again loses nothing.
RepairKeepsReadable ==
    LET unlisted == rp_lost \cup UNION {rp_files[n].entries : n \in Numbers}
    IN rp_pc = "done" => rp_had \subseteq Listed \cup (IF rp_clean THEN {} ELSE unlisted)

\* The repaired database numbers what it writes next above everything it holds.
RepairNumbersFresh ==
    rp_pc = "done" =>
        /\ \A e \in Listed : e.s <= rp_desc.last
        /\ \A n \in Numbers : n < rp_desc.next

\* RepairDB, also when it is interrupted and called again, keeps what can be read and
\* leaves a database that numbers on above it.
RepairSound == RepairKeepsReadable /\ RepairNumbersFresh
=============================================================================
