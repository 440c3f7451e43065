----------------------------- MODULE MCSharing ------------------------------
(* What threads and processes share, one component per behaviour: the       *)
(* enclave's verifier, versions, the table cache, the memtable, the LOCK    *)
(* file, and the files that a crash or a repair leaves.                     *)
EXTENDS LPADVerifier, VersionSet, TableCache, MemTable, FileLock, Repair, PosixFiles, TLC

VARIABLE component \* the one that runs, fixed for a behaviour

PutsAndGets == {"put", "get"}
Symmetry == Permutations(Threads) \union Permutations(Readers)

\* Memtables that are flushed: a gap, and a deletion of a key the other has.
MCContents == {(1 :> "value") @@ (3 :> "deletion"), (2 :> "value") @@ (3 :> "value")}

\* Hash values that share a bucket until the table grows.
MCHash == [f \in TableFiles |-> f]

MCProcessOf == [h \in Handles |-> IF h = "h3" THEN "p2" ELSE "p1"]

all_vars == <<component, vars, vs_vars, tc_vars, sl_vars, fl_vars, rp_vars, pf_vars>>

\* Component c takes the step A; "others" are the variables of the other ones.
In(c, A, others) == component = c /\ A /\ UNCHANGED <<component, others>>

MCInit ==
    /\ component \in {"LPADVerifier", "VersionSet", "TableCache", "MemTable", "FileLock", "Repair", "PosixFiles"}
    /\ Init /\ VersionSetInit /\ TableCacheInit /\ MemTableInit /\ FileLockInit /\ RepairInit /\ PosixInit

MCNext ==
    \/ In("LPADVerifier", Next, <<vs_vars, tc_vars, sl_vars, fl_vars, rp_vars, pf_vars>>)
    \/ In("VersionSet", VersionSetNext, <<vars, tc_vars, sl_vars, fl_vars, rp_vars, pf_vars>>)
    \/ In("TableCache", TableCacheNext, <<vars, vs_vars, sl_vars, fl_vars, rp_vars, pf_vars>>)
    \/ In("MemTable", MemTableNext, <<vars, vs_vars, tc_vars, fl_vars, rp_vars, pf_vars>>)
    \/ In("FileLock", FileLockNext, <<vars, vs_vars, tc_vars, sl_vars, rp_vars, pf_vars>>)
    \/ In("Repair", RepairNext, <<vars, vs_vars, tc_vars, sl_vars, fl_vars, pf_vars>>)
    \/ In("PosixFiles", PosixNext, <<vars, vs_vars, tc_vars, sl_vars, fl_vars, rp_vars>>)
=============================================================================
