----------------------------- MODULE LPADBench ------------------------------
(***************************************************************************)
(* The write benchmarks of db_bench over LPAD (db_bench.cpp, DoWrite): the *)
(* enclave verifier of LPADVerifier around the real write path of          *)
(* WriteQueue.  Each client thread runs                                    *)
(*      ecall_preput1(id);                                                 *)
(*      s = db_->SUWrite(write_options_, &batch, &seq);                    *)
(*      ecall_postput1(key, id[0], seq);                                   *)
(* so the timestamps the verifier sees are the numbers SUWrite reports,    *)
(* which group commit hands out by position in the group and not by the    *)
(* sequence numbers of the entries.                                        *)
(***************************************************************************)
EXTENDS Integers, Sequences, FiniteSets

CONSTANTS Writers, Requests, MaxWrites, WriteBufferSize, MaxGroupSize,
          SmallGroupSize, L0CompactionTrigger, L0SlowdownTrigger,
          L0StopTrigger, InitialL0, MaxFaults, BG, Nobody, Kinds

VARIABLES mutex_, qpc, calls, req, loc, w, writers_, signalled, mem_, imm_,
          has_imm, tables, synced, last_sequence, l0, bg_error_, bg_scheduled,
          bgpc, bgin, faults, entered, returned

VARIABLES g_timer, g_id, g_mutex, pending_list, completed_list, history,
          error_detected, vpc, kind, ops, time, id, seq

Queue    == INSTANCE WriteQueue WITH pc <- qpc
Verifier == INSTANCE LPADVerifier WITH pc <- vpc, Threads <- Writers,
                                       NoThread <- Nobody, MaxOps <- MaxWrites

\* DoWrite: every thread puts batches of one entry, and the benchmark exits at the first write
\* that fails, so nothing fails in a run it goes on with.
ASSUME BenchAssumption ==
    /\ Queue!ConstantsAssumption /\ Kinds = {"put"} /\ MaxFaults = 0
    /\ \A r \in Queue!AllRequests : r.batch /\ r.count = 1

queueVars == <<mutex_, qpc, calls, req, loc, w, writers_, signalled, mem_,
               imm_, has_imm, tables, synced, last_sequence, l0, bg_error_,
               bg_scheduled, bgpc, bgin, faults, entered, returned>>
verifierVars == <<g_timer, g_id, g_mutex, pending_list, completed_list, history,
                  error_detected, vpc, kind, ops, time, id, seq>>
vars == <<queueVars, verifierVars>>

-----------------------------------------------------------------------------
Init == Queue!Init /\ Verifier!Init

EnclaveStep(t) ==
    /\ Verifier!PreTime(t) \/ Verifier!EnclaveCall(t)
    /\ UNCHANGED queueVars

\* The client calls SUWrite.
CallStore(t) ==
    /\ vpc[t] = "store" /\ qpc[t] = "idle" /\ calls[t] < ops[t]
    /\ \E r \in Requests[t] : Queue!Enter(t, r)
    /\ UNCHANGED verifierVars

QueueStep ==
    /\ Queue!Background \/ \E t \in Writers : Queue!Client(t)
    /\ UNCHANGED verifierVars

\* SUWrite has returned: its seq is what the client passes to ecall_postput1.
StoreReturns(t) ==
    /\ qpc[t] = "idle" /\ calls[t] = ops[t]
    /\ \E r \in returned : r.op = <<t, calls[t]>> /\ Verifier!StoreReturns(t, r.seq)
    /\ UNCHANGED queueVars

Finished ==
    /\ \A t \in Writers : vpc[t] = "idle" /\ ops[t] = MaxWrites
    /\ UNCHANGED vars

Next ==
    \/ \E t \in Writers : EnclaveStep(t) \/ CallStore(t) \/ StoreReturns(t)
    \/ QueueStep
    \/ Finished

Spec == Init /\ [][Next]_vars

-----------------------------------------------------------------------------
(* Properties *)

\* Group commit with its permuted sequence numbers is never accused by the
\* verifier and never leaves g_mutex locked: writers whose numbers are
\* exchanged were in the queue together, so they overlap in real time.
BenchAccepted == Verifier!HonestStoreAccepted

\* Whenever no operation is open, the history has absorbed every write: the
\* reported numbers are a permutation of the numbers used, no timestamp is
\* missing, doubled or left behind in completed_list.
HistoryCatchesUp ==
    (\A t \in Writers : vpc[t] = "idle") =>
        history.ts = last_sequence /\ DOMAIN completed_list = {}
=============================================================================
