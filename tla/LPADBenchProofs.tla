-------------------------- MODULE LPADBenchProofs ---------------------------
(***************************************************************************)
(* Proofs about LPADBench: the verifier never accuses the group commit of  *)
(* the real write path (BenchAccepted), and its history has every write    *)
(* once the clients are idle (HistoryCatchesUp), for any number of threads *)
(* and writes, any group sizes and any memtable and level-0 limits.        *)
(*                                                                         *)
(* The proof maps the composition to LPADVerifier, where a put takes       *)
(* effect at one instant inside its call: here the instant is the Finish   *)
(* of the leader of its group, which decides the calls of all followers at *)
(* once although they still sleep.  A call is Committed from then on until *)
(* its client takes the answer to the enclave, and the mapped client is    *)
(* already past the store.                                                 *)
(***************************************************************************)
EXTENDS LPADBench, NatLemmas, TLAPS

Q == INSTANCE WriteQueueProofs WITH pc <- qpc

\* The call of t is decided, but t has not seen the answer.
Committed(t) == vpc[t] = "store" /\ t \in Q!Decided /\ calls[t] = ops[t]

\* The mapped client, and the number the mapped store has given it.
MPC  == [t \in Writers |-> IF Committed(t) THEN "post_time" ELSE vpc[t]]
MSeq == [t \in Writers |-> IF Committed(t) THEN Q!Number(t) ELSE seq[t]]

V == INSTANCE LPADVerifierProofs WITH pc <- MPC, seq <- MSeq, Threads <- Writers,
                                      NoThread <- Nobody, MaxOps <- MaxWrites

\* A client is inside SUWrite only while the enclave waits for its postput, and has called it
\* once for each preput, or is about to.
LinkInv ==
    /\ vpc \in [Writers -> V!PCs] /\ seq \in [Writers -> Nat] /\ ops \in [Writers -> Nat]
    /\ calls \in [Writers -> Nat]
    /\ \A t \in Writers :
          /\ kind[t] = "put"
          /\ qpc[t] # "idle" => vpc[t] = "store" /\ calls[t] = ops[t]
          /\ vpc[t] = "store" => calls[t] = ops[t] \/ calls[t] + 1 = ops[t]
          /\ vpc[t] \in {"pre_id", "pre_file"} => calls[t] + 1 = ops[t]
          /\ vpc[t] \notin {"pre_id", "pre_file", "store"} => calls[t] = ops[t]

\* The inductive invariant of the composition.
BInv == V!IInv /\ Q!UInv /\ LinkInv

\* The assumptions of the two parts follow from those of the benchmark.
LEMMA PartsAssumptions ==
    /\ V!ThreadsAssumption /\ V!KindsAssumption /\ V!MaxOpsAssumption
    /\ Q!ConstantsAssumption /\ Q!SingleEntries
<1>1. V!ThreadsAssumption /\ V!KindsAssumption /\ V!MaxOpsAssumption
  BY BenchAssumption DEF V!ThreadsAssumption, V!KindsAssumption, V!MaxOpsAssumption,
     Queue!ConstantsAssumption
<1>2. Q!ConstantsAssumption
  BY BenchAssumption DEF Q!ConstantsAssumption, Queue!ConstantsAssumption, Q!AllRequests,
     Queue!AllRequests, Q!ReqType, Queue!ReqType
<1>3. Q!SingleEntries
  BY BenchAssumption DEF Q!SingleEntries, Q!AllRequests, Queue!AllRequests
<1>4. QED
  BY <1>1, <1>2, <1>3
-----------------------------------------------------------------------------
(* The two instances of the write path are the same *)

\* The actions of Queue are those of Q, which also has the lemmas.
LEMMA SameInit == Queue!Init => Q!Init
BY DEF Queue!Init, Q!Init, Queue!NoRequest, Q!NoRequest, Queue!NoLocals, Q!NoLocals,
       Queue!NoWriter, Q!NoWriter, Queue!MaybeScheduleCompaction, Q!MaybeScheduleCompaction,
       Queue!NeedsCompaction, Q!NeedsCompaction

\* Enter.
LEMMA SameEnter == \A t, r : Queue!Enter(t, r) => Q!Enter(t, r)
BY DEF Queue!Enter, Q!Enter, Queue!NoWriter, Q!NoWriter, Queue!NoLocals, Q!NoLocals,
       Queue!LeadsAtOnce, Q!LeadsAtOnce, Queue!Locked, Q!Locked, Queue!Briefly, Q!Briefly,
       Queue!dataVars, Q!dataVars, Queue!bgVars, Q!bgVars

\* The two ways to wake up in the queue.
LEMMA SameWake == \A t : /\ Queue!WakeDone(t) => Q!WakeDone(t)
                         /\ Queue!WakeLeader(t) => Q!WakeLeader(t)
BY DEF Queue!WakeDone, Q!WakeDone, Queue!WakeLeader, Q!WakeLeader, Queue!Return, Q!Return,
       Queue!MyOp, Q!MyOp, Queue!NoLocals, Q!NoLocals, Queue!Locked, Q!Locked,
       Queue!Briefly, Q!Briefly, Queue!dataVars, Q!dataVars, Queue!bgVars, Q!bgVars

\* MakeRoomForWrite.
LEMMA SameRoom == \A t : Queue!MakeRoomForWrite(t) => Q!MakeRoomForWrite(t)
<1> USE DEF Queue!Cardinality, Q!Cardinality, Queue!InRoom, Q!InRoom, Queue!MayDelay, Q!MayDelay, Queue!HasRoom, Q!HasRoom,
            Queue!Holds, Q!Holds, Queue!Releases, Q!Releases, Queue!Locked, Q!Locked,
            Queue!RoomUnchanged, Q!RoomUnchanged, Queue!EnvFails, Q!EnvFails,
            Queue!RoomMaySwitch, Q!RoomMaySwitch, Queue!MaybeScheduleCompaction,
            Q!MaybeScheduleCompaction, Queue!NeedsCompaction, Q!NeedsCompaction
<1> SUFFICES ASSUME NEW t, Queue!MakeRoomForWrite(t)
             PROVE  Q!MakeRoomForWrite(t)
  OBVIOUS
<1>1. Queue!RoomError(t) => Q!RoomError(t)
  BY DEF Queue!RoomError, Q!RoomError
<1>2. Queue!RoomDelay(t) => Q!RoomDelay(t)
  BY DEF Queue!RoomDelay, Q!RoomDelay
<1>3. Queue!RoomOk(t) => Q!RoomOk(t)
  BY DEF Queue!RoomOk, Q!RoomOk
<1>4. Queue!RoomWait(t) => Q!RoomWait(t)
  BY DEF Queue!RoomWait, Q!RoomWait
<1>5. Queue!RoomSwitch(t) => Q!RoomSwitch(t)
  BY DEF Queue!RoomSwitch, Q!RoomSwitch
<1>6. Queue!RoomSwitchFails(t) => Q!RoomSwitchFails(t)
  BY DEF Queue!RoomSwitchFails, Q!RoomSwitchFails
<1>7. Queue!RoomAgain(t) => Q!RoomAgain(t)
  BY DEF Queue!RoomAgain, Q!RoomAgain
<1>8. QED
  BY <1>1, <1>2, <1>3, <1>4, <1>5, <1>6, <1>7 DEF Queue!MakeRoomForWrite, Q!MakeRoomForWrite

\* BuildBatchGroup and the leader's unlocked section.
LEMMA SameCommit == \A t : /\ Queue!Build(t) => Q!Build(t)
                           /\ Queue!AddRecord(t) => Q!AddRecord(t)
                           /\ Queue!Sync(t) => Q!Sync(t)
                           /\ Queue!InsertInto(t) => Q!InsertInto(t)
<1> USE DEF Queue!UnlockedUnchanged, Q!UnlockedUnchanged, Queue!EnvFails, Q!EnvFails,
            Queue!dataVars, Q!dataVars, Queue!bgVars, Q!bgVars
<1> SUFFICES ASSUME NEW t
             PROVE  /\ Queue!Build(t) => Q!Build(t)
                    /\ Queue!AddRecord(t) => Q!AddRecord(t)
                    /\ Queue!Sync(t) => Q!Sync(t)
                    /\ Queue!InsertInto(t) => Q!InsertInto(t)
  OBVIOUS
<1>1. Queue!BuildBatchGroup = Q!BuildBatchGroup
  BY DEF Queue!BuildBatchGroup, Q!BuildBatchGroup, Queue!Joins, Q!Joins, Queue!MaxSize,
         Q!MaxSize, Queue!SizeTo, Q!SizeTo, Queue!Max, Q!Max
<1>2. \A n, s : Queue!Updates(n, s) = Q!Updates(n, s)
  BY DEF Queue!Updates, Q!Updates, Queue!CountTo, Q!CountTo, Queue!MyOp, Q!MyOp
<1>3. \A n : Queue!CountTo(n) = Q!CountTo(n)
  BY DEF Queue!CountTo, Q!CountTo
<1>4. \A u, g, s : Queue!FollowerSeq(u, g, s) = Q!FollowerSeq(u, g, s)
  BY DEF Queue!FollowerSeq, Q!FollowerSeq, Queue!Max, Q!Max
<1>5. Queue!Build(t) => Q!Build(t)
  BY <1>1, <1>2, <1>3, <1>4 DEF Queue!Build, Q!Build, Queue!Releases, Q!Releases
<1>6. Queue!AddRecord(t) => Q!AddRecord(t)
  BY DEF Queue!AddRecord, Q!AddRecord
<1>7. Queue!Sync(t) => Q!Sync(t)
  BY DEF Queue!Sync, Q!Sync
<1>8. Queue!InsertInto(t) => Q!InsertInto(t)
  BY DEF Queue!InsertInto, Q!InsertInto, Queue!LastUpdate, Q!LastUpdate
<1>9. QED
  BY <1>5, <1>6, <1>7, <1>8

\* The tail of Write.
LEMMA SameTail == \A t : /\ Queue!Finish(t) => Q!Finish(t)
                         /\ Queue!FinishAlone(t) => Q!FinishAlone(t)
                         /\ Queue!WaitForFlush(t) => Q!WaitForFlush(t)
<1> USE DEF Queue!Complete, Q!Complete, Queue!Return, Q!Return, Queue!MyOp, Q!MyOp,
            Queue!Briefly, Q!Briefly, Queue!NewHead, Q!NewHead, Queue!NoLocals, Q!NoLocals,
            Queue!dataVars, Q!dataVars, Queue!bgVars, Q!bgVars
<1> SUFFICES ASSUME NEW t
             PROVE  /\ Queue!Finish(t) => Q!Finish(t)
                    /\ Queue!FinishAlone(t) => Q!FinishAlone(t)
                    /\ Queue!WaitForFlush(t) => Q!WaitForFlush(t)
  OBVIOUS
<1>1. Queue!Finish(t) => Q!Finish(t)
  BY DEF Queue!Finish, Q!Finish, Queue!RecordBackgroundError, Q!RecordBackgroundError,
         Queue!SignalAll, Q!SignalAll, Queue!BgWaiters, Q!BgWaiters
<1>2. Queue!FinishAlone(t) => Q!FinishAlone(t)
  BY DEF Queue!FinishAlone, Q!FinishAlone, Queue!Releases, Q!Releases
<1>3. Queue!WaitForFlush(t) => Q!WaitForFlush(t)
  BY DEF Queue!WaitForFlush, Q!WaitForFlush
<1>4. QED
  BY <1>1, <1>2, <1>3

\* All steps of a client inside a call.
LEMMA SameClient == \A t : Queue!Client(t) => Q!Client(t)
BY SameWake, SameRoom, SameCommit, SameTail DEF Queue!Client, Q!Client

\* The background thread.
LEMMA SameBackground == Queue!Background => Q!Background
<1> USE DEF Queue!Briefly, Q!Briefly, Queue!BackgroundDone, Q!BackgroundDone, Queue!BgUnchanged,
            Q!BgUnchanged, Queue!SignalAll, Q!SignalAll, Queue!BgWaiters, Q!BgWaiters,
            Queue!MaybeScheduleCompaction, Q!MaybeScheduleCompaction, Queue!NeedsCompaction,
            Q!NeedsCompaction, Queue!EnvFails, Q!EnvFails, Queue!FlushOk, Q!FlushOk,
            Queue!FlushFails, Q!FlushFails
<1>1. Queue!BackgroundCall => Q!BackgroundCall
  BY DEF Queue!BackgroundCall, Q!BackgroundCall, Queue!CompactionInputs, Q!CompactionInputs
<1>2. Queue!CompactMemTable => Q!CompactMemTable
  BY DEF Queue!CompactMemTable, Q!CompactMemTable
<1>3. Queue!CompactionStartsFlush => Q!CompactionStartsFlush
  BY DEF Queue!CompactionStartsFlush, Q!CompactionStartsFlush
<1>4. Queue!CompactionFlush => Q!CompactionFlush
  BY DEF Queue!CompactionFlush, Q!CompactionFlush
<1>5. Queue!CompactionDone => Q!CompactionDone
  BY DEF Queue!CompactionDone, Q!CompactionDone
<1>6. QED
  BY <1>1, <1>2, <1>3, <1>4, <1>5 DEF Queue!Background, Q!Background
-----------------------------------------------------------------------------
(* Steps of the enclave *)

\* A step outside the queue leaves the decided calls as they are.
LEMMA QueueStutters ==
    ASSUME Q!UInv, UNCHANGED queueVars
    PROVE  /\ Q!UInv' /\ Q!Decided' = Q!Decided /\ \A u : Q!Number(u)' = Q!Number(u)
           /\ calls' = calls /\ qpc' = qpc /\ last_sequence' = last_sequence
<1>1. UNCHANGED Q!vars
  BY DEF queueVars, Q!vars, Q!clientVars, Q!dataVars, Q!bgVars
<1>2. calls' = calls /\ qpc' = qpc /\ last_sequence' = last_sequence
  BY DEF queueVars
<1>3. QED
  BY <1>1, <1>2, Q!StutterNumbers, PartsAssumptions

\* A client that is not committed before or after a step outside the queue: the mapped client
\* moves as the client does.
LEMMA EnclaveFrame ==
    ASSUME BInv, NEW t \in Writers, NEW p, UNCHANGED queueVars,
           ~Committed(t), ~Committed(t)', vpc' = [vpc EXCEPT ![t] = p], seq' = seq,
           \A u \in Writers \ {t} : ops'[u] = ops[u]
    PROVE  /\ MPC' = [MPC EXCEPT ![t] = p] /\ MSeq' = MSeq /\ MPC[t] = vpc[t] /\ MSeq[t] = seq[t]
           /\ last_sequence' = last_sequence
<1>1. /\ Q!Decided' = Q!Decided /\ \A u : Q!Number(u)' = Q!Number(u)
      /\ calls' = calls /\ last_sequence' = last_sequence
  BY QueueStutters DEF BInv
<1>2. \A u \in Writers \ {t} : vpc'[u] = vpc[u]
  BY DEF BInv, LinkInv
<1>3. \A u \in Writers \ {t} : Committed(u)' <=> Committed(u)
  BY <1>1, <1>2 DEF Committed
<1>4. \A u \in Writers \ {t} : /\ (IF Committed(u)' THEN "post_time" ELSE vpc'[u]) = MPC[u]
                               /\ (IF Committed(u)' THEN Q!Number(u)' ELSE seq'[u]) = MSeq[u]
  BY <1>1, <1>2, <1>3 DEF MPC, MSeq
<1>5. MPC[t] = vpc[t] /\ MSeq[t] = seq[t] /\ vpc'[t] = p
  BY DEF MPC, MSeq, BInv, LinkInv
<1>6. MPC' = [MPC EXCEPT ![t] = p]
  <2>1. MPC' = [u \in Writers |-> IF Committed(u)' THEN "post_time" ELSE vpc'[u]]
    BY DEF MPC
  <2>2. \A u \in Writers : MPC'[u] = IF u = t THEN p ELSE MPC[u]
    BY <1>4, <1>5, <2>1
  <2>3. QED
    BY <2>1, <2>2 DEF MPC
<1>7. MSeq' = MSeq
  <2>1. MSeq' = [u \in Writers |-> IF Committed(u)' THEN Q!Number(u)' ELSE seq'[u]]
    BY DEF MSeq
  <2>2. \A u \in Writers : MSeq'[u] = MSeq[u]
    BY <1>4, <1>5, <2>1
  <2>3. QED
    BY <2>1, <2>2 DEF MSeq
<1>8. QED
  BY <1>1, <1>5, <1>6, <1>7

\* preput draws its start time.
LEMMA BenchPreTime ==
    ASSUME BInv, NEW t \in Writers, Verifier!PreTime(t), UNCHANGED queueVars
    PROVE  V!IInv' /\ LinkInv'
<1>1. /\ vpc[t] = "idle" /\ vpc' = [vpc EXCEPT ![t] = "pre_id"] /\ seq' = seq
      /\ ops' = [ops EXCEPT ![t] = @ + 1] /\ kind' = [kind EXCEPT ![t] = "put"]
  BY BenchAssumption DEF Verifier!PreTime
<1>2. calls' = calls /\ qpc' = qpc
  BY QueueStutters DEF BInv
<1>3. vpc'[t] = "pre_id" /\ \A u \in Writers \ {t} : ops'[u] = ops[u] /\ vpc'[u] = vpc[u]
  BY <1>1 DEF BInv, LinkInv
<1>4. V!PreTime(t)
  <2>1. ~Committed(t) /\ ~Committed(t)'
    BY <1>1, <1>3 DEF Committed
  <2>2. /\ MPC' = [MPC EXCEPT ![t] = "pre_id"] /\ MSeq' = MSeq /\ MPC[t] = "idle"
        /\ last_sequence' = last_sequence
    BY <1>1, <1>3, <2>1, EnclaveFrame
  <2>3. QED
    BY <2>2 DEF V!PreTime, Verifier!PreTime
<1>5. V!IInv'
  BY <1>4, V!PreTimeStep, PartsAssumptions DEF BInv
<1>6. LinkInv'
  BY <1>1, <1>2, <1>3 DEF BInv, LinkInv, V!PCs
<1>7. QED
  BY <1>5, <1>6

\* preput draws its id.
LEMMA BenchPreId ==
    ASSUME BInv, NEW t \in Writers, Verifier!PreId(t), UNCHANGED queueVars
    PROVE  V!IInv' /\ LinkInv'
<1>1. /\ vpc[t] = "pre_id" /\ vpc' = [vpc EXCEPT ![t] = "pre_file"] /\ seq' = seq
      /\ ops' = ops /\ kind' = kind
  BY DEF Verifier!PreId
<1>2. calls' = calls /\ qpc' = qpc
  BY QueueStutters DEF BInv
<1>3. vpc'[t] = "pre_file" /\ \A u \in Writers \ {t} : vpc'[u] = vpc[u]
  BY <1>1 DEF BInv, LinkInv
<1>4. V!PreId(t)
  <2>1. ~Committed(t) /\ ~Committed(t)'
    BY <1>1, <1>3 DEF Committed
  <2>2. /\ MPC' = [MPC EXCEPT ![t] = "pre_file"] /\ MSeq' = MSeq /\ MPC[t] = "pre_id"
        /\ last_sequence' = last_sequence
    BY <1>1, <2>1, EnclaveFrame
  <2>3. QED
    BY <2>2 DEF V!PreId, Verifier!PreId, V!AllocId, Verifier!AllocId
<1>5. V!IInv'
  BY <1>4, V!PreIdStep, PartsAssumptions DEF BInv
<1>6. LinkInv'
  BY <1>1, <1>2, <1>3 DEF BInv, LinkInv, V!PCs
<1>7. QED
  BY <1>5, <1>6

\* preput files the operation; its call of SUWrite is still to come.
LEMMA BenchPreFile ==
    ASSUME BInv, NEW t \in Writers, Verifier!PreFile(t), UNCHANGED queueVars
    PROVE  V!IInv' /\ LinkInv'
<1>1. /\ vpc[t] = "pre_file" /\ vpc' = [vpc EXCEPT ![t] = "store"] /\ seq' = seq
      /\ ops' = ops /\ kind' = kind
  BY DEF Verifier!PreFile
<1>2. calls' = calls /\ qpc' = qpc
  BY QueueStutters DEF BInv
<1>3. vpc'[t] = "store" /\ \A u \in Writers \ {t} : vpc'[u] = vpc[u]
  BY <1>1 DEF BInv, LinkInv
<1>4. calls[t] + 1 = ops[t] /\ calls[t] # ops[t]
  BY <1>1 DEF BInv, LinkInv
<1>5. V!PreFile(t)
  <2>1. ~Committed(t) /\ ~Committed(t)'
    BY <1>1, <1>2, <1>4 DEF Committed
  <2>2. /\ MPC' = [MPC EXCEPT ![t] = "store"] /\ MSeq' = MSeq /\ MPC[t] = "pre_file"
        /\ last_sequence' = last_sequence
    BY <1>1, <2>1, EnclaveFrame
  <2>3. QED
    BY <2>2 DEF V!PreFile, Verifier!PreFile, V!Insert, Verifier!Insert, V!OpRecord,
       Verifier!OpRecord
<1>6. V!IInv'
  BY <1>5, V!PreFileStep, PartsAssumptions DEF BInv
<1>7. LinkInv'
  BY <1>1, <1>2, <1>3, <1>4 DEF BInv, LinkInv, V!PCs
<1>8. QED
  BY <1>6, <1>7

\* postput draws its end time.
LEMMA BenchPostTime ==
    ASSUME BInv, NEW t \in Writers, Verifier!PostTime(t), UNCHANGED queueVars
    PROVE  V!IInv' /\ LinkInv'
<1>0. kind[t] = "put"
  BY DEF BInv, LinkInv
<1>1. /\ vpc[t] = "post_time" /\ vpc' = [vpc EXCEPT ![t] = "post_put"] /\ seq' = seq
      /\ ops' = ops /\ kind' = kind
  BY <1>0 DEF Verifier!PostTime
<1>2. calls' = calls /\ qpc' = qpc
  BY QueueStutters DEF BInv
<1>3. vpc'[t] = "post_put" /\ \A u \in Writers \ {t} : vpc'[u] = vpc[u]
  BY <1>1 DEF BInv, LinkInv
<1>4. V!PostTime(t)
  <2>1. ~Committed(t) /\ ~Committed(t)'
    BY <1>1, <1>3 DEF Committed
  <2>2. /\ MPC' = [MPC EXCEPT ![t] = "post_put"] /\ MSeq' = MSeq /\ MPC[t] = "post_time"
        /\ last_sequence' = last_sequence
    BY <1>1, <2>1, EnclaveFrame
  <2>3. QED
    BY <1>0, <2>2 DEF V!PostTime, Verifier!PostTime
<1>5. V!IInv'
  BY <1>4, V!PostTimeStep, PartsAssumptions DEF BInv
<1>6. LinkInv'
  BY <1>1, <1>2, <1>3 DEF BInv, LinkInv, V!PCs
<1>7. QED
  BY <1>5, <1>6

\* postput moves the operation to completed_list, truncates, checks and merges.
LEMMA BenchPostPut ==
    ASSUME BInv, NEW t \in Writers, Verifier!PostPut(t), UNCHANGED queueVars
    PROVE  V!IInv' /\ LinkInv'
<1>1. /\ vpc[t] = "post_put" /\ vpc' = [vpc EXCEPT ![t] = "idle"] /\ seq' = seq
      /\ ops' = ops /\ kind' = kind
  BY DEF Verifier!PostPut
<1>2. calls' = calls /\ qpc' = qpc
  BY QueueStutters DEF BInv
<1>3. vpc'[t] = "idle" /\ \A u \in Writers \ {t} : vpc'[u] = vpc[u]
  BY <1>1 DEF BInv, LinkInv
<1>4. V!PostPut(t)
  <2>1. ~Committed(t) /\ ~Committed(t)'
    BY <1>1, <1>3 DEF Committed
  <2>2. /\ MPC' = [MPC EXCEPT ![t] = "idle"] /\ MSeq' = MSeq /\ MPC[t] = "post_put"
        /\ MSeq[t] = seq[t] /\ last_sequence' = last_sequence
    BY <1>1, <2>1, EnclaveFrame
  <2>3. V!Completed(t) = Verifier!Completed(t)
    BY <2>2 DEF V!Completed, Verifier!Completed, V!Insert, Verifier!Insert, V!OpRecord,
       Verifier!OpRecord, V!EndTime, Verifier!EndTime
  <2>4. QED
    BY <2>2, <2>3 DEF V!PostPut, Verifier!PostPut, V!Truncated, Verifier!Truncated,
       V!OutOfOrder, Verifier!OutOfOrder, V!MayMerge, Verifier!MayMerge, V!LastOf,
       Verifier!LastOf, V!Erase, Verifier!Erase, V!Restrict, Verifier!Restrict
<1>5. V!IInv'
  BY <1>4, V!PostPutStep, PartsAssumptions DEF BInv
<1>6. LinkInv'
  BY <1>1, <1>2, <1>3 DEF BInv, LinkInv, V!PCs
<1>7. QED
  BY <1>5, <1>6

\* The benchmark's threads only put: none is ever in postget or in its loop.
LEMMA NoGets ==
    ASSUME BInv, NEW t \in Writers
    PROVE  vpc[t] # "post_get"
<1>1. MPC[t] = vpc[t] \/ MPC[t] = "post_time"
  BY DEF MPC
<1>2. QED
  BY <1>1 DEF BInv, LinkInv, V!IInv, V!KindInv, MPC, Committed

\* A step that the mapped verifier does not see.
LEMMA Unseen ==
    ASSUME BInv, MPC' = MPC, MSeq' = MSeq, last_sequence' = last_sequence,
           UNCHANGED <<g_timer, g_id, g_mutex, pending_list, completed_list, history,
                       error_detected, kind, ops, time, id>>
    PROVE  V!IInv'
<1>1. UNCHANGED V!vars
  BY DEF V!vars, V!enclaveVars, V!clientVars
<1>2. QED
  BY <1>1, V!Stutter, PartsAssumptions DEF BInv

\* A step that changes nothing.
LEMMA BenchStutter ==
    ASSUME BInv, UNCHANGED vars
    PROVE  BInv'
<1>1. UNCHANGED queueVars /\ UNCHANGED verifierVars
  BY DEF vars
<1>2. /\ vpc' = vpc /\ seq' = seq /\ ops' = ops /\ kind' = kind
      /\ UNCHANGED <<g_timer, g_id, g_mutex, pending_list, completed_list, history,
                     error_detected, kind, ops, time, id>>
  BY <1>1 DEF verifierVars
<1>3. /\ Q!UInv' /\ Q!Decided' = Q!Decided /\ \A u : Q!Number(u)' = Q!Number(u)
      /\ calls' = calls /\ qpc' = qpc /\ last_sequence' = last_sequence
  BY <1>1, QueueStutters DEF BInv
<1>4. MPC' = MPC /\ MSeq' = MSeq
  BY <1>2, <1>3 DEF MPC, MSeq, Committed
<1>5. V!IInv'
  BY <1>2, <1>3, <1>4, Unseen
<1>6. LinkInv'
  BY <1>2, <1>3 DEF BInv, LinkInv
<1>7. QED
  BY <1>3, <1>5, <1>6 DEF BInv

\* Any step of a client in the enclave.
LEMMA BenchEnclave ==
    ASSUME BInv, NEW t \in Writers, EnclaveStep(t)
    PROVE  BInv'
<1>1. UNCHANGED queueVars
  BY DEF EnclaveStep
<1>2. Q!UInv'
  BY <1>1, QueueStutters DEF BInv
<1>3. ~Verifier!PostGet(t)
  BY NoGets DEF Verifier!PostGet
<1>4. CASE Verifier!LpadVerifyLoops(t)
  <2>1. UNCHANGED vars
    BY <1>1, <1>4 DEF vars, verifierVars, Verifier!LpadVerifyLoops, Verifier!vars,
       Verifier!enclaveVars, Verifier!clientVars
  <2>2. QED
    BY <2>1, BenchStutter
<1>5. CASE Verifier!PreTime(t) \/ Verifier!PreId(t) \/ Verifier!PreFile(t) \/ Verifier!PostTime(t)
           \/ Verifier!PostPut(t)
  BY <1>1, <1>2, <1>5, BenchPreTime, BenchPreId, BenchPreFile, BenchPostTime, BenchPostPut
     DEF BInv
<1>6. QED
  BY <1>3, <1>4, <1>5 DEF EnclaveStep, Verifier!EnclaveCall

-----------------------------------------------------------------------------
(* Steps of the store *)

\* A client that calls SUWrite was not committed, and is not: its call is pending.
LEMMA BenchCall ==
    ASSUME BInv, NEW t \in Writers, CallStore(t)
    PROVE  BInv'
<1>1. PICK r \in Requests[t] : Queue!Enter(t, r)
  BY DEF CallStore
<1>2. /\ vpc[t] = "store" /\ qpc[t] = "idle" /\ calls[t] < ops[t]
      /\ vpc' = vpc /\ seq' = seq /\ ops' = ops /\ kind' = kind
      /\ UNCHANGED <<g_timer, g_id, g_mutex, pending_list, completed_list, history,
                     error_detected, kind, ops, time, id>>
  BY DEF CallStore, verifierVars
<1>3. /\ Q!UInv' /\ last_sequence' = last_sequence /\ Q!Decided' = Q!Decided \ {t}
      /\ calls' = [calls EXCEPT ![t] = @ + 1]
      /\ \A u \in Q!Decided \ {t} : Q!Number(u)' = Q!Number(u)
  BY <1>1, SameEnter, Q!EnterNumbers, PartsAssumptions DEF BInv
<1>4. /\ \A u \in Writers \ {t} : qpc'[u] = qpc[u] /\ calls'[u] = calls[u]
      /\ calls[t] + 1 = ops[t] /\ calls'[t] = ops[t]
  <2>1. \E p \in {"room", "wait"} : qpc' = [qpc EXCEPT ![t] = p]
    BY <1>1 DEF Queue!Enter
  <2>2. qpc \in [Writers -> Q!Leading \cup {"idle", "wait", "flush", "flushwait"}]
    BY DEF BInv, Q!UInv, Q!RInv, Q!WInv, Q!TypeOK
  <2>3. \A u \in Writers \ {t} : qpc'[u] = qpc[u]
    BY <2>1, <2>2
  <2>4. calls \in [Writers -> Nat] /\ calls[t] + 1 = ops[t]
    BY <1>2 DEF BInv, LinkInv
  <2>5. QED
    BY <1>3, <2>3, <2>4
<1>5. \A u \in Writers : Committed(u)' <=> Committed(u)
  <2>1. ~Committed(t) /\ ~Committed(t)'
    BY <1>2, <1>3 DEF Committed, BInv, LinkInv
  <2>2. \A u \in Writers \ {t} : Committed(u)' <=> Committed(u)
    BY <1>2, <1>3, <1>4 DEF Committed
  <2>3. QED
    BY <2>1, <2>2
<1>6. \A u \in Writers : Committed(u) => Q!Number(u)' = Q!Number(u)
  BY <1>2, <1>3 DEF Committed, BInv, LinkInv
<1>7. MPC' = MPC /\ MSeq' = MSeq
  BY <1>2, <1>5, <1>6 DEF MPC, MSeq
<1>8. V!IInv'
  BY <1>2, <1>3, <1>7, Unseen
<1>9. LinkInv'
  <2>1. calls' \in [Writers -> Nat]
    BY <1>3 DEF BInv, LinkInv
  <2>2. QED
    BY <1>2, <1>4, <2>1 DEF BInv, LinkInv
<1>10. QED
  BY <1>3, <1>8, <1>9 DEF BInv

\* The client takes the answer to the enclave: the mapped client had it already.
LEMMA BenchReturn ==
    ASSUME BInv, NEW t \in Writers, StoreReturns(t)
    PROVE  BInv'
<1>1. PICK r \in returned : r.op = <<t, calls[t]>> /\ Verifier!StoreReturns(t, r.seq)
  BY DEF StoreReturns
<1>2. UNCHANGED queueVars /\ qpc[t] = "idle" /\ calls[t] = ops[t]
  BY DEF StoreReturns
<1>3. /\ Q!UInv' /\ Q!Decided' = Q!Decided /\ \A u : Q!Number(u)' = Q!Number(u)
      /\ calls' = calls /\ qpc' = qpc /\ last_sequence' = last_sequence
  BY <1>2, QueueStutters DEF BInv
<1>4. /\ vpc[t] = "store" /\ seq' = [seq EXCEPT ![t] = r.seq]
      /\ vpc' = [vpc EXCEPT ![t] = "post_time"] /\ ops' = ops /\ kind' = kind
      /\ UNCHANGED <<g_timer, g_id, g_mutex, pending_list, completed_list, history,
                     error_detected, kind, ops, time, id>>
  BY <1>1 DEF Verifier!StoreReturns, Verifier!enclaveVars
<1>5. Committed(t) /\ Q!Number(t) = r.seq
  <2>1. calls[t] \in Nat /\ r.op[2] >= 1 /\ r.op = Q!MyOp(t)
    <3>1. r.op \in Writers \X (1 .. MaxWrites)
      BY DEF BInv, Q!UInv, Q!RInv, Q!ReturnInv, Q!Op
    <3>2. MaxWrites \in Nat
      BY PartsAssumptions DEF V!MaxOpsAssumption
    <3>3. QED
      BY <1>1, <3>1, <3>2 DEF BInv, LinkInv, Q!MyOp
  <2>2. t \in Q!Decided
    BY <1>1, <1>2, <2>1 DEF Q!Decided
  <2>3. Q!Number(t) = r.seq
    BY <1>2, <2>1, Q!NumberReturned, PartsAssumptions DEF BInv
  <2>4. QED
    BY <1>2, <1>4, <2>2, <2>3 DEF Committed
<1>6. /\ vpc'[t] = "post_time" /\ seq'[t] = r.seq
      /\ \A u \in Writers \ {t} : vpc'[u] = vpc[u] /\ seq'[u] = seq[u]
  BY <1>4 DEF BInv, LinkInv
<1>7. ~Committed(t)' /\ \A u \in Writers \ {t} : Committed(u)' <=> Committed(u)
  BY <1>3, <1>4, <1>6 DEF Committed
<1>8. MPC' = MPC
  <2>1. MPC' = [u \in Writers |-> IF Committed(u)' THEN "post_time" ELSE vpc'[u]]
    BY DEF MPC
  <2>2. \A u \in Writers : MPC'[u] = MPC[u]
    BY <1>5, <1>6, <1>7, <2>1 DEF MPC
  <2>3. QED
    BY <2>1, <2>2 DEF MPC
<1>9. MSeq' = MSeq
  <2>1. MSeq' = [u \in Writers |-> IF Committed(u)' THEN Q!Number(u)' ELSE seq'[u]]
    BY DEF MSeq
  <2>2. \A u \in Writers : MSeq'[u] = MSeq[u]
    BY <1>3, <1>5, <1>6, <1>7, <2>1 DEF MSeq
  <2>3. QED
    BY <2>1, <2>2 DEF MSeq
<1>10. V!IInv'
  BY <1>3, <1>4, <1>8, <1>9, Unseen
<1>11. LinkInv'
  <2>1. r.seq \in Nat
    <3>1. MSeq \in [Writers -> Nat]
      BY DEF BInv, V!IInv, V!TypeOK
    <3>2. QED
      BY <1>5, <3>1 DEF MSeq
  <2>2. QED
    BY <1>2, <1>3, <1>4, <1>6, <2>1 DEF BInv, LinkInv, V!PCs
<1>12. QED
  BY <1>3, <1>10, <1>11 DEF BInv

\* A step of the write path: the clients whose calls it decides are past the mapped store, with
\* the numbers that LastSequence gains.
LEMMA BenchQueue ==
    ASSUME BInv, QueueStep
    PROVE  BInv'
<1>1. /\ vpc' = vpc /\ seq' = seq /\ ops' = ops /\ kind' = kind
      /\ UNCHANGED <<g_timer, g_id, g_mutex, pending_list, completed_list, history,
                     error_detected, kind, ops, time, id>>
  BY DEF QueueStep, verifierVars
<1>2. Q!UInv' /\ \E G : Q!Publishes(G)
  <2>1. CASE Queue!Background
    BY <2>1, SameBackground, Q!BackgroundDecides, PartsAssumptions DEF BInv
  <2>2. CASE \E t \in Writers : Queue!Client(t)
    BY <2>2, SameClient, Q!ClientNumbers, PartsAssumptions DEF BInv
  <2>3. QED
    BY <2>1, <2>2 DEF QueueStep
<1>3. PICK G : Q!Publishes(G)
  BY <1>2
<1>4. /\ calls' = calls /\ G \subseteq Writers /\ Q!Decided' = Q!Decided \cup G
      /\ \A u \in G : qpc[u] # "idle" /\ u \notin Q!Decided
      /\ \A u \in Q!Decided : Q!Number(u)' = Q!Number(u)
      /\ last_sequence' \in Nat /\ last_sequence <= last_sequence'
      /\ \A u \in G : Q!Number(u)' \in last_sequence + 1 .. last_sequence'
      /\ \A u, v \in G : Q!Number(u)' = Q!Number(v)' => u = v
      /\ \A n \in last_sequence + 1 .. last_sequence' : \E u \in G : Q!Number(u)' = n
  BY <1>3 DEF Q!Publishes
<1>5. \A u \in G : u \in Writers /\ vpc[u] = "store" /\ calls[u] = ops[u] /\ kind[u] = "put"
  BY <1>4 DEF BInv, LinkInv
<1>6. /\ \A u \in G : Committed(u)' /\ ~Committed(u)
      /\ \A u \in Writers \ G : Committed(u)' <=> Committed(u)
  BY <1>1, <1>4, <1>5 DEF Committed
<1>7. /\ \A u \in G : /\ MPC[u] = "store" /\ MPC'[u] = "post_time" /\ MSeq'[u] = Q!Number(u)'
                      /\ u \in Writers /\ kind[u] = "put"
      /\ \A u \in Writers \ G : MPC'[u] = MPC[u] /\ MSeq'[u] = MSeq[u]
  <2>1. /\ MPC' = [u \in Writers |-> IF Committed(u)' THEN "post_time" ELSE vpc'[u]]
        /\ MSeq' = [u \in Writers |-> IF Committed(u)' THEN Q!Number(u)' ELSE seq'[u]]
    BY DEF MPC, MSeq
  <2>2. \A u \in G : /\ MPC[u] = "store" /\ MPC'[u] = "post_time" /\ MSeq'[u] = Q!Number(u)'
                     /\ u \in Writers /\ kind[u] = "put"
    BY <1>5, <1>6, <2>1 DEF MPC
  <2>3. \A u \in Writers : Committed(u) => Q!Number(u)' = Q!Number(u)
    BY <1>4 DEF Committed
  <2>4. \A u \in Writers \ G : MPC'[u] = MPC[u] /\ MSeq'[u] = MSeq[u]
    BY <1>1, <1>6, <2>1, <2>3 DEF MPC, MSeq
  <2>5. QED
    BY <2>2, <2>4
<1>8. V!SUWriteGroup(G)
  <2>1. MPC \in [Writers -> V!PCs] /\ MSeq \in [Writers -> Nat] /\ last_sequence \in Nat
    BY DEF BInv, V!IInv, V!TypeOK
  <2>2. MPC' \in [Writers -> V!PCs]
    <3>1. \A u \in Writers : MPC'[u] \in V!PCs
      BY <1>7, <2>1 DEF V!PCs
    <3>2. QED
      BY <3>1 DEF MPC
  <2>3. MSeq' \in [Writers -> Nat]
    <3>1. \A u \in Writers : MSeq'[u] \in Nat
      BY <1>4, <1>7, <2>1
    <3>2. QED
      BY <3>1 DEF MSeq
  <2>4. \A u \in G : MSeq'[u] \in last_sequence + 1 .. last_sequence'
    BY <1>4, <1>7
  <2>5. \A u, v \in G : MSeq'[u] = MSeq'[v] => u = v
    BY <1>4, <1>7
  <2>6. \A n \in last_sequence + 1 .. last_sequence' : \E u \in G : MSeq'[u] = n
    BY <1>4, <1>7
  <2>7. QED
    BY <1>1, <1>4, <1>7, <2>2, <2>3, <2>4, <2>5, <2>6 DEF V!SUWriteGroup, V!enclaveVars
<1>9. V!IInv'
  BY <1>8, V!SUWriteGroupStep, PartsAssumptions DEF BInv
<1>10. LinkInv'
  <2>1. \A u \in Writers : qpc'[u] # "idle" => qpc[u] # "idle"
    <3>1. ASSUME NEW u \in Writers, qpc[u] = "idle"
          PROVE  qpc'[u] = "idle"
      <4>1. CASE Queue!Background
        BY <3>1, <4>1, SameBackground DEF Q!Background, Q!BackgroundCall, Q!CompactMemTable,
           Q!CompactionStartsFlush, Q!CompactionFlush, Q!CompactionDone, Q!BgUnchanged
      <4>2. ASSUME NEW t \in Writers, Queue!Client(t)
            PROVE  qpc'[u] = "idle"
        BY <3>1, <4>2, SameClient, Q!IdleStays, PartsAssumptions DEF BInv
      <4>3. QED
        BY <4>1, <4>2 DEF QueueStep
    <3>2. QED
      BY <3>1
  <2>2. QED
    BY <1>1, <1>4, <2>1 DEF BInv, LinkInv
<1>11. QED
  BY <1>2, <1>9, <1>10 DEF BInv

-----------------------------------------------------------------------------
(* The theorems *)

\* The initial state: nobody is in a call, and the enclave has seen nothing.
LEMMA BenchInit == Init => BInv
<1> SUFFICES ASSUME Init
             PROVE  BInv
  OBVIOUS
<1>1. Q!UInv /\ Q!Decided = {}
  BY SameInit, Q!InitNumbers, PartsAssumptions DEF Init
<1>2. /\ vpc = [t \in Writers |-> "idle"] /\ kind = [t \in Writers |-> "put"]
      /\ ops = [t \in Writers |-> 0] /\ seq = [t \in Writers |-> 0]
  BY DEF Init, Verifier!Init
<1>3. calls = [t \in Writers |-> 0] /\ qpc = [t \in Writers |-> "idle"]
  BY DEF Init, Queue!Init
<1>4. LinkInv
  BY <1>2, <1>3 DEF LinkInv, V!PCs
<1>5. MPC = vpc /\ MSeq = seq
  BY <1>1, <1>2 DEF MPC, MSeq, Committed
<1>6. V!Init
  BY <1>2, <1>5 DEF Init, Verifier!Init, V!Init, V!EmptyMap, Verifier!EmptyMap, V!OpRecord,
     Verifier!OpRecord
<1>7. V!IInv
  BY <1>6, V!InitIInv, PartsAssumptions
<1>8. QED
  BY <1>1, <1>4, <1>7 DEF BInv

\* BInv is inductive.
LEMMA BenchInductive == BInv /\ [Next]_vars => BInv'
<1> SUFFICES ASSUME BInv, [Next]_vars
             PROVE  BInv'
  OBVIOUS
<1>1. CASE UNCHANGED vars
  BY <1>1, BenchStutter
<1>2. CASE Finished
  BY <1>2, BenchStutter DEF Finished
<1>3. CASE QueueStep
  BY <1>3, BenchQueue
<1>4. ASSUME NEW t \in Writers, EnclaveStep(t) \/ CallStore(t) \/ StoreReturns(t)
      PROVE  BInv'
  BY <1>4, BenchEnclave, BenchCall, BenchReturn
<1>5. QED
  BY <1>1, <1>2, <1>3, <1>4 DEF Next

\* The enclave of Enclave/cc.cpp, around the group commit of db_impl.cpp as db_bench.cpp runs
\* them, reports no error and never leaves g_mutex locked, although SUWrite reports numbers that
\* are not those of the entries.
THEOREM BenchmarkAccepted == Spec => []BenchAccepted
<1>1. BInv => BenchAccepted
  <2> SUFFICES ASSUME BInv
               PROVE  BenchAccepted
    OBVIOUS
  <2>1. V!HonestStoreAccepted
    BY DEF BInv, V!IInv
  <2>2. \A t \in Writers : MPC[t] = "verify" => vpc[t] = "verify"
    BY DEF MPC
  <2>3. QED
    BY <2>1, <2>2 DEF BenchAccepted, Verifier!HonestStoreAccepted, V!HonestStoreAccepted
<1>2. QED
  BY <1>1, BenchInit, BenchInductive, PTL DEF Spec

\* Once every client has returned from its postput the history holds every write that the store
\* published: the numbers SUWrite reported are a permutation of those it used.
THEOREM BenchmarkCatchesUp == Spec => []HistoryCatchesUp
<1>1. BInv => HistoryCatchesUp
  <2> SUFFICES ASSUME BInv, \A t \in Writers : vpc[t] = "idle"
               PROVE  history.ts = last_sequence /\ DOMAIN completed_list = {}
    BY DEF HistoryCatchesUp
  <2>1. V!InFlight = {}
    BY DEF V!InFlight, MPC, Committed
  <2>2. /\ history.ts \in Nat /\ last_sequence \in Nat /\ history.ts <= last_sequence
        /\ DOMAIN completed_list \subseteq Nat
        /\ \A n \in DOMAIN completed_list : n > history.ts + 1 /\ n <= last_sequence
        /\ \A n \in Nat : history.ts < n /\ n <= last_sequence => n \in DOMAIN completed_list
    BY <2>1 DEF BInv, V!IInv, V!TypeOK, V!OpType, V!PlaceInv
  <2>3. history.ts = last_sequence
    <3>1. ASSUME history.ts < last_sequence
          PROVE  FALSE
      <4>1. history.ts + 1 \in Nat /\ history.ts < history.ts + 1 /\ history.ts + 1 <= last_sequence
        BY <2>2, <3>1
      <4>2. history.ts + 1 \in DOMAIN completed_list
        BY <2>2, <4>1
      <4>3. QED
        BY <2>2, <4>2
    <3>2. QED
      BY <2>2, <3>1
  <2>4. \A n \in DOMAIN completed_list : FALSE
    BY <2>2, <2>3
  <2>5. QED
    BY <2>3, <2>4
<1>2. QED
  BY <1>1, BenchInit, BenchInductive, PTL DEF Spec
=============================================================================
