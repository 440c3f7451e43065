----------------------------- MODULE WriteQueue -----------------------------
(***************************************************************************)
(* The write path of DBImpl (App/integration/db_impl.cpp): group commit.   *)
(*                                                                         *)
(* A client thread that calls Write or SUWrite puts a Writer on writers_   *)
(* and sleeps on the Writer's own condition variable until it is done or   *)
(* at the front.  The front writer is the leader: it makes room in the     *)
(* memtable (MakeRoomForWrite, which may delay, wait for the background    *)
(* thread, or switch to a new memtable and log file), merges the batches   *)
(* behind it into one (BuildBatchGroup), logs and inserts the group with   *)
(* mutex_ released, publishes the new LastSequence and completes every     *)
(* writer of the group.                                                    *)
(*                                                                         *)
(* mutex_ is a variable; an action is a stretch of code that runs while    *)
(* the mutex is held (or, between Unlock and Lock, one effect on the log   *)
(* or the memtable).  A thread asleep on a condition variable is woken     *)
(* only by a signal, so a lost signal is a thread that sleeps forever.     *)
(*                                                                         *)
(* Definitions named Fault_... are wrong variants of the definition that   *)
(* follows them; the specification does not use them.                      *)
(***************************************************************************)
EXTENDS Integers, Sequences, FiniteSets, FiniteSetsExt

CONSTANTS
    Writers,            \* client threads
    Requests,           \* the calls each client may make, see ReqType
    MaxWrites,          \* bound: calls made by one client
    WriteBufferSize,    \* options_.write_buffer_size, in entries
    MaxGroupSize,       \* max_size of BuildBatchGroup (1 << 20)
    SmallGroupSize,     \* its limit for a small first batch (128 << 10)
    L0CompactionTrigger, L0SlowdownTrigger, L0StopTrigger,   \* dbformat.h
    InitialL0,          \* level-0 files of the database that is opened: the numbers tried
    MaxFaults,          \* bound: failures of the environment
    BG, Nobody          \* the background thread; no holder of mutex_

(***************************************************************************)
(* A call: batch is FALSE for a NULL batch, which only TEST_CompactMemTable*)
(* passes; count and size are the batch's Count and ByteSize; sync is      *)
(* options.sync.                                                           *)
(***************************************************************************)
ReqType == [batch : BOOLEAN, count : Nat, size : Nat, sync : BOOLEAN]

AllRequests == UNION {Requests[t] : t \in Writers}

ASSUME ConstantsAssumption ==
    /\ DOMAIN Requests = Writers /\ AllRequests \subseteq ReqType
    /\ \A r \in AllRequests : r.batch <=> r.count > 0
    /\ \A r \in AllRequests : ~r.batch => ~r.sync /\ r.size = 0
    /\ MaxWrites \in Nat /\ WriteBufferSize \in Nat /\ MaxFaults \in Nat
    /\ MaxGroupSize \in Nat /\ SmallGroupSize \in Nat
    /\ L0CompactionTrigger \in Nat \ {0}
    /\ L0SlowdownTrigger \in Nat /\ L0StopTrigger \in Nat
    /\ L0CompactionTrigger <= L0StopTrigger /\ InitialL0 \subseteq Nat
    /\ BG \notin Writers /\ Nobody \notin Writers /\ BG /= Nobody

VARIABLES
    mutex_,         \* the thread that holds DBImpl::mutex_
    pc,             \* where each client is in its call
    calls,          \* how many calls each client has made
    req,            \* the arguments of its call
    loc,            \* the leader's locals, see NoLocals
    w,              \* its struct Writer: done, status, seq
    writers_,       \* the deque of Writers, named by the clients that own them
    signalled,      \* the sleeping client has been signalled
    mem_, imm_,     \* entries of the memtables
    has_imm,        \* imm_ != NULL
    tables,         \* entries that were moved from imm_ to table files
    synced,         \* calls whose log record was followed by a Sync
    last_sequence,  \* versions_->LastSequence()
    l0,             \* versions_->NumLevelFiles(0)
    bg_error_,      \* bg_error_ is not OK
    bg_scheduled,   \* bg_compaction_scheduled_
    bgpc,           \* where the background thread is
    bgin,           \* number of level-0 inputs of the running compaction
    faults,         \* failures so far
    entered,        \* history: last_sequence and bg_error_ when the call began
    returned        \* history: what every finished call reported

clientVars == <<pc, calls, req, loc, w, writers_, signalled>>
dataVars   == <<mem_, imm_, has_imm, tables, synced, last_sequence>>
bgVars     == <<l0, bg_error_, bg_scheduled, bgpc, bgin>>
vars == <<mutex_, clientVars, dataVars, bgVars, faults, entered, returned>>

-----------------------------------------------------------------------------
(* Values *)

Statuses == {"ok", "error"}
Op == Writers \X (1 .. MaxWrites)

\* An entry of a memtable or table: the call that wrote it, its position in
\* that call's batch, and its sequence number.
EntryType == [op : Op, i : Nat, seq : Nat]

NoWriter  == [done |-> FALSE, status |-> "ok", seq |-> 0]
NoLocals  == [force |-> FALSE, allow_delay |-> FALSE, status |-> "ok",
              sync_error |-> FALSE, group |-> <<>>, updates |-> {}, seq |-> 0]
NoRequest == [batch |-> FALSE, count |-> 0, size |-> 0, sync |-> FALSE]

MyOp(t) == <<t, calls[t]>>
Stored  == mem_ \cup imm_ \cup tables

Locked(t) == mutex_ = Nobody /\ mutex_' = t    \* mutex_.Lock() ... still held
Briefly   == mutex_ = Nobody /\ mutex_' = Nobody    \* Lock() ... Unlock()
Releases(t) == mutex_ = t /\ mutex_' = Nobody
Holds(t)  == mutex_ = t /\ mutex_' = t

\* The environment (the file system) fails an operation.
EnvFails == faults < MaxFaults /\ faults' = faults + 1

-----------------------------------------------------------------------------
(* Background scheduling *)

\* VersionSet::NeedsCompaction, reduced to the level-0 score of Finalize.
NeedsCompaction(n) == n >= L0CompactionTrigger

\* DBImpl::MaybeScheduleCompaction: whether background work is scheduled after
\* the call, given the values the call sees.
MaybeScheduleCompaction(sched, imm, n, err) ==
    sched \/ (~err /\ (imm \/ NeedsCompaction(n)))

\* bg_cv_.SignalAll() applied to s = signalled.
BgWaiters == {t \in Writers : pc[t] \in {"bgwait", "flushwait"}}
SignalAll(s) == [t \in Writers |-> s[t] \/ t \in BgWaiters]

\* DBImpl::RecordBackgroundError: only the first error is kept and announced.
RecordBackgroundError(failed, s) ==
    IF failed /\ ~bg_error_ THEN SignalAll(s) ELSE s

-----------------------------------------------------------------------------
(* Joining the queue: the head of Write and SUWrite *)

\* The loop condition of Write, for a Writer that was just pushed.
Fault_AlwaysLeads == TRUE
LeadsAtOnce == writers_ = <<>>

\* A Writer is built and pushed; its owner leads if it is alone, else sleeps.
Enter(t, r) ==
    /\ pc[t] = "idle" /\ calls[t] < MaxWrites
    /\ calls' = [calls EXCEPT ![t] = @ + 1]
    /\ req' = [req EXCEPT ![t] = r]
    /\ w' = [w EXCEPT ![t] = NoWriter]
    /\ writers_' = Append(writers_, t)
    /\ entered' = [entered EXCEPT ![t] = [seq |-> last_sequence, err |-> bg_error_]]
    /\ IF LeadsAtOnce
       THEN /\ Locked(t)
            /\ pc' = [pc EXCEPT ![t] = "room"]
            /\ loc' = [loc EXCEPT ![t] =
                 [NoLocals EXCEPT !.force = ~r.batch, !.allow_delay = r.batch]]
       ELSE /\ Briefly
            /\ pc' = [pc EXCEPT ![t] = "wait"]
            /\ UNCHANGED loc
    /\ UNCHANGED <<signalled, dataVars, bgVars, faults, returned>>

\* The call returns status st and sequence number s to the client.  The
\* caller of a NULL batch, TEST_CompactMemTable, goes on to wait for imm_.
Return(t, st, s) ==
    LET more == ~req[t].batch /\ st = "ok" IN
    /\ pc' = [pc EXCEPT ![t] = IF more THEN "flush" ELSE "idle"]
    /\ returned' = IF more THEN returned
                   ELSE returned \cup {[op |-> MyOp(t), req |-> req[t],
                                        status |-> st, seq |-> s,
                                        entered |-> entered[t]]}

\* Woken as a member of a group that another thread committed.
WakeDone(t) ==
    /\ pc[t] = "wait" /\ signalled[t] /\ w[t].done
    /\ Briefly
    /\ signalled' = [signalled EXCEPT ![t] = FALSE]
    /\ Return(t, w[t].status, w[t].seq)
    /\ UNCHANGED <<calls, req, loc, w, writers_, dataVars, bgVars, faults,
                   entered>>

\* Woken as the new head of the queue.
WakeLeader(t) ==
    /\ pc[t] = "wait" /\ signalled[t] /\ ~w[t].done /\ Head(writers_) = t
    /\ Locked(t)
    /\ signalled' = [signalled EXCEPT ![t] = FALSE]
    /\ pc' = [pc EXCEPT ![t] = "room"]
    /\ loc' = [loc EXCEPT ![t] = [NoLocals EXCEPT !.force = ~req[t].batch,
                                                  !.allow_delay = req[t].batch]]
    /\ UNCHANGED <<calls, req, w, writers_, dataVars, bgVars, faults, entered,
                   returned>>

-----------------------------------------------------------------------------
(* DBImpl::MakeRoomForWrite: one action per branch of its loop *)

RoomUnchanged == UNCHANGED <<calls, req, w, writers_, synced, last_sequence,
                             bg_error_, bgpc, bgin, l0, entered, returned>>

HasRoom(t)  == ~loc[t].force /\ Cardinality(mem_) <= WriteBufferSize
MayDelay(t) == loc[t].allow_delay /\ l0 >= L0SlowdownTrigger

InRoom(t) == pc[t] = "room" /\ mutex_ = t

\* A background error ends the loop; so does the failure of NewWritableFile.
RoomError(t) ==
    /\ InRoom(t) /\ bg_error_
    /\ Holds(t)
    /\ pc' = [pc EXCEPT ![t] = "build"]
    /\ loc' = [loc EXCEPT ![t].status = "error"]
    /\ RoomUnchanged
    /\ UNCHANGED <<signalled, mem_, imm_, has_imm, tables, bg_scheduled, faults>>

\* Close to the level-0 limit: sleep one millisecond, once per write.
RoomDelay(t) ==
    /\ InRoom(t) /\ ~bg_error_ /\ MayDelay(t)
    /\ Releases(t)
    /\ pc' = [pc EXCEPT ![t] = "sleep"]
    /\ loc' = [loc EXCEPT ![t].allow_delay = FALSE]
    /\ RoomUnchanged
    /\ UNCHANGED <<signalled, mem_, imm_, has_imm, tables, bg_scheduled, faults>>

\* There is room in the current memtable.
Fault_RoomBeforeError(t) ==
    /\ InRoom(t) /\ ~MayDelay(t) /\ HasRoom(t)
    /\ Holds(t)
    /\ pc' = [pc EXCEPT ![t] = "build"]
    /\ RoomUnchanged
    /\ UNCHANGED <<loc, signalled, mem_, imm_, has_imm, tables, bg_scheduled,
                   faults>>
RoomOk(t) ==
    /\ InRoom(t) /\ ~bg_error_ /\ ~MayDelay(t) /\ HasRoom(t)
    /\ Holds(t)
    /\ pc' = [pc EXCEPT ![t] = "build"]
    /\ RoomUnchanged
    /\ UNCHANGED <<loc, signalled, mem_, imm_, has_imm, tables, bg_scheduled,
                   faults>>

\* imm_ is still being written, or there are too many level-0 files.
RoomWait(t) ==
    /\ InRoom(t) /\ ~bg_error_ /\ ~MayDelay(t) /\ ~HasRoom(t)
    /\ has_imm \/ l0 >= L0StopTrigger
    /\ Releases(t)
    /\ pc' = [pc EXCEPT ![t] = "bgwait"]
    /\ RoomUnchanged
    /\ UNCHANGED <<loc, signalled, mem_, imm_, has_imm, tables, bg_scheduled,
                   faults>>

RoomMaySwitch(t) ==
    /\ InRoom(t) /\ ~bg_error_ /\ ~MayDelay(t) /\ ~HasRoom(t)
    /\ ~has_imm /\ l0 < L0StopTrigger

\* A new log file and memtable; the full one becomes imm_.
RoomSwitch(t) ==
    /\ RoomMaySwitch(t)
    /\ Holds(t)
    /\ imm_' = mem_ /\ has_imm' = TRUE /\ mem_' = {}
    /\ loc' = [loc EXCEPT ![t].force = FALSE]
    /\ bg_scheduled' = MaybeScheduleCompaction(bg_scheduled, TRUE, l0, bg_error_)
    /\ RoomUnchanged
    /\ UNCHANGED <<pc, signalled, tables, faults>>

RoomSwitchFails(t) ==
    /\ RoomMaySwitch(t)
    /\ Holds(t)
    /\ EnvFails
    /\ pc' = [pc EXCEPT ![t] = "build"]
    /\ loc' = [loc EXCEPT ![t].status = "error"]
    /\ RoomUnchanged
    /\ UNCHANGED <<signalled, mem_, imm_, has_imm, tables, bg_scheduled>>

\* Back from SleepForMicroseconds or from bg_cv_.Wait().
RoomAgain(t) ==
    /\ pc[t] = "sleep" \/ (pc[t] = "bgwait" /\ signalled[t])
    /\ Locked(t)
    /\ pc' = [pc EXCEPT ![t] = "room"]
    /\ signalled' = [signalled EXCEPT ![t] = FALSE]
    /\ RoomUnchanged
    /\ UNCHANGED <<loc, mem_, imm_, has_imm, tables, bg_scheduled, faults>>

MakeRoomForWrite(t) ==
    \/ RoomError(t) \/ RoomDelay(t) \/ RoomOk(t) \/ RoomWait(t)
    \/ RoomSwitch(t) \/ RoomSwitchFails(t) \/ RoomAgain(t)

-----------------------------------------------------------------------------
(* DBImpl::BuildBatchGroup *)

\* Bytes of the first n batches of the queue, and entries of the first n.
Fault_CountsWriters(n) == n
SizeTo(n) ==
    LET sum[k \in 0 .. n] == IF k = 0 THEN 0 ELSE sum[k - 1] + req[writers_[k]].size
    IN  sum[n]
CountTo(n) ==
    LET sum[k \in 0 .. n] == IF k = 0 THEN 0 ELSE sum[k - 1] + req[writers_[k]].count
    IN  sum[n]

MaxSize == LET size == SizeTo(1)
           IN  IF size <= SmallGroupSize THEN size + SmallGroupSize
                                         ELSE MaxGroupSize

\* The loop over the queue does not break at position j.
Fault_SyncJoinsAnyGroup(j) == req[writers_[j]].batch => SizeTo(j) <= MaxSize
Joins(j) ==
    /\ ~(req[writers_[j]].sync /\ ~req[writers_[1]].sync)
    /\ req[writers_[j]].batch => SizeTo(j) <= MaxSize

\* The writers up to last_writer: the longest prefix the loop walks over.
BuildBatchGroup ==
    SubSeq(writers_, 1,
           Max({n \in 1 .. Len(writers_) : \A j \in 2 .. n : Joins(j)}))

\* The entries of a group of n writers, numbered from sequence + 1 on.
Updates(n, sequence) ==
    UNION {{[op |-> MyOp(writers_[j]), i |-> i,
             seq |-> sequence + CountTo(j - 1) + i] :
                i \in 1 .. req[writers_[j]].count} : j \in 1 .. n}

\* BuildBatchGroup stores sequence + i in the i-th follower.
Fault_SameSeq(t, group, sequence) ==
    IF \E j \in 2 .. Len(group) : group[j] = t THEN sequence + 1 ELSE w[t].seq
FollowerSeq(t, group, sequence) ==
    LET js == {j \in 2 .. Len(group) : group[j] = t}
    IN  IF js = {} THEN w[t].seq ELSE sequence + Max(js) - 1

\* With room in mem_ and a batch to write, the leader fixes the group and its
\* sequence numbers, then releases mutex_ to log and insert.
Build(t) ==
    /\ pc[t] = "build" /\ loc[t].status = "ok" /\ req[t].batch
    /\ Releases(t)
    /\ LET group == BuildBatchGroup
       IN  /\ loc' = [loc EXCEPT ![t] =
                [@ EXCEPT !.group = group,
                          !.updates = Updates(Len(group), last_sequence),
                          !.seq = last_sequence + CountTo(Len(group))]]
           /\ w' = [u \in Writers |->
                [w[u] EXCEPT !.seq = FollowerSeq(u, group, last_sequence)]]
    /\ pc' = [pc EXCEPT ![t] = "append"]
    /\ UNCHANGED <<calls, req, writers_, signalled, dataVars, bgVars, faults,
                   entered, returned>>

-----------------------------------------------------------------------------
(* The unlocked part of Write: log_->AddRecord, logfile_->Sync, InsertInto *)

UnlockedUnchanged == UNCHANGED <<mutex_, calls, req, w, writers_, signalled,
                                 last_sequence, imm_, has_imm, tables, bgVars,
                                 entered, returned>>

AddRecord(t) ==
    /\ pc[t] = "append"
    /\ \/ /\ pc' = [pc EXCEPT ![t] = IF req[t].sync THEN "sync" ELSE "insert"]
          /\ UNCHANGED <<loc, faults>>
       \/ /\ EnvFails
          /\ pc' = [pc EXCEPT ![t] = "relock"]
          /\ loc' = [loc EXCEPT ![t].status = "error"]
    /\ UNCHANGED <<mem_, synced>>
    /\ UnlockedUnchanged

Sync(t) ==
    /\ pc[t] = "sync"
    /\ \/ /\ pc' = [pc EXCEPT ![t] = "insert"]
          /\ synced' = synced \cup {e.op : e \in loc[t].updates}
          /\ UNCHANGED <<loc, faults>>
       \/ /\ EnvFails
          /\ pc' = [pc EXCEPT ![t] = "relock"]
          /\ loc' = [loc EXCEPT ![t].status = "error", ![t].sync_error = TRUE]
          /\ UNCHANGED synced
    /\ UNCHANGED mem_
    /\ UnlockedUnchanged

\* Iterate has no more records after e.
Fault_StopsAfterFirst(t, e) == TRUE
LastUpdate(t, e) == loc[t].updates = {e}

\* WriteBatchInternal::InsertInto adds the entries one by one.
InsertInto(t) ==
    /\ pc[t] = "insert"
    /\ LET e == CHOOSE e \in loc[t].updates :
                    \A f \in loc[t].updates : e.seq <= f.seq
       IN  /\ mem_' = mem_ \cup {e}
           /\ loc' = [loc EXCEPT ![t].updates = @ \ {e}]
           /\ pc' = [pc EXCEPT ![t] = IF LastUpdate(t, e) THEN "relock" ELSE "insert"]
    /\ UNCHANGED <<synced, faults>>
    /\ UnlockedUnchanged

-----------------------------------------------------------------------------
(* The tail of Write and SUWrite *)

\* The writers woken when rest is left: "Notify new head of write queue".
Fault_NobodyNotified(rest) == {}
NewHead(rest) == IF rest = <<>> THEN {} ELSE {Head(rest)}

\* Pop the group off the queue, complete its followers and wake the new head;
\* sig is signalled after any SignalAll of the same step.
Complete(t, n, st, sig) ==
    LET group == {writers_[j] : j \in 1 .. n}
        rest  == SubSeq(writers_, n + 1, Len(writers_))
    IN  /\ writers_' = rest
        /\ w' = [u \in Writers |->
                   IF u \in group \ {t}
                   THEN [w[u] EXCEPT !.done = TRUE, !.status = st] ELSE w[u]]
        /\ signalled' = [u \in Writers |->
                   \/ sig[u]
                   \/ u \in group \ {t}
                   \/ u \in NewHead(rest)]

\* Take mutex_ again, record a failed Sync, publish the sequence number.
Finish(t) ==
    /\ pc[t] = "relock"
    /\ Briefly
    /\ bg_error_' = (bg_error_ \/ loc[t].sync_error)
    /\ last_sequence' = loc[t].seq
    /\ Complete(t, Len(loc[t].group), loc[t].status,
                RecordBackgroundError(loc[t].sync_error, signalled))
    /\ Return(t, loc[t].status, loc[t].seq)
    /\ loc' = [loc EXCEPT ![t] = NoLocals]
    /\ UNCHANGED <<calls, req, mem_, imm_, has_imm, tables, synced, l0,
                   bg_scheduled, bgpc, bgin, faults, entered>>

\* MakeRoomForWrite failed, or there is no batch: the leader leaves alone.
FinishAlone(t) ==
    /\ pc[t] = "build" /\ (loc[t].status = "error" \/ ~req[t].batch)
    /\ Releases(t)
    /\ Complete(t, 1, loc[t].status, signalled)
    /\ Return(t, loc[t].status, 0)
    /\ loc' = [loc EXCEPT ![t] = NoLocals]
    /\ UNCHANGED <<calls, req, dataVars, bgVars, faults, entered>>

\* DBImpl::TEST_CompactMemTable after its Write: wait until imm_ is gone.
WaitForFlush(t) ==
    /\ pc[t] = "flush" \/ (pc[t] = "flushwait" /\ signalled[t])
    /\ Briefly
    /\ signalled' = [signalled EXCEPT ![t] = FALSE]
    /\ \/ /\ has_imm /\ ~bg_error_
          /\ pc' = [pc EXCEPT ![t] = "flushwait"]
          /\ UNCHANGED returned
       \/ /\ ~has_imm \/ bg_error_
          /\ pc' = [pc EXCEPT ![t] = "idle"]
          /\ returned' = returned \cup
                {[op |-> MyOp(t), req |-> req[t], seq |-> 0,
                  status |-> IF has_imm THEN "error" ELSE "ok",
                  entered |-> entered[t]]}
    /\ UNCHANGED <<calls, req, loc, w, writers_, dataVars, bgVars, faults,
                   entered>>

-----------------------------------------------------------------------------
(* The background thread *)

BgUnchanged == UNCHANGED <<pc, calls, req, loc, w, writers_, mem_, synced,
                           last_sequence, entered, returned>>

\* The end of DBImpl::BackgroundCall, which runs under mutex_.
BackgroundDone(imm, n, err) ==
    /\ bg_scheduled' = MaybeScheduleCompaction(FALSE, imm, n, err)
    /\ signalled' = SignalAll(signalled)
    /\ bgpc' = "idle"

\* How many level-0 files PickCompaction may take: one and what it overlaps.
Fault_OneTooMany == 1 .. l0 + 1
CompactionInputs == 1 .. l0

\* DBImpl::BackgroundCall up to the point where mutex_ is released: inside
\* BuildTable of WriteLevel0Table, or inside DoCompactionWork.
BackgroundCall ==
    /\ bgpc = "idle" /\ bg_scheduled
    /\ Briefly
    /\ \/ /\ bg_error_
          /\ BackgroundDone(has_imm, l0, TRUE)
          /\ UNCHANGED bgin
       \/ /\ ~bg_error_ /\ has_imm
          /\ bgpc' = "flush"
          /\ UNCHANGED <<bg_scheduled, signalled, bgin>>
       \/ /\ ~bg_error_ /\ ~has_imm
          /\ \E n \in CompactionInputs : bgin' = n
          /\ bgpc' = "compact"
          /\ UNCHANGED <<bg_scheduled, signalled>>
    /\ BgUnchanged
    /\ UNCHANGED <<imm_, has_imm, tables, l0, bg_error_, faults>>

\* DBImpl::CompactMemTable finishes: its table goes to level 0 or, when
\* PickLevelForMemTableOutput finds no overlap, further down.
Fault_ImmKept ==
    /\ tables' = tables \cup imm_
    /\ UNCHANGED <<imm_, has_imm, l0, bg_error_, faults>>
FlushOk ==
    /\ tables' = tables \cup imm_ /\ imm_' = {} /\ has_imm' = FALSE
    /\ l0' \in {l0, l0 + 1}
    /\ UNCHANGED <<bg_error_, faults>>

FlushFails ==
    /\ EnvFails
    /\ bg_error_' = TRUE
    /\ UNCHANGED <<imm_, has_imm, tables, l0>>

CompactMemTable ==
    /\ bgpc = "flush"
    /\ Briefly
    /\ FlushOk \/ FlushFails
    /\ BackgroundDone(has_imm', l0', bg_error_')
    /\ BgUnchanged
    /\ UNCHANGED bgin

\* DoCompactionWork (or SU_flush_data) sees has_imm_ and flushes it first.
CompactionStartsFlush ==
    /\ bgpc = "compact" /\ has_imm
    /\ Briefly
    /\ bgpc' = "cflush"
    /\ BgUnchanged
    /\ UNCHANGED <<signalled, imm_, has_imm, tables, l0, bg_error_,
                   bg_scheduled, bgin, faults>>

CompactionFlush ==
    /\ bgpc = "cflush"
    /\ Briefly
    /\ FlushOk \/ FlushFails
    /\ signalled' = SignalAll(signalled)
    /\ bgpc' = "compact"
    /\ BgUnchanged
    /\ UNCHANGED <<bg_scheduled, bgin>>

\* DoCompactionWork takes mutex_ again and installs its result, or fails.
CompactionDone ==
    /\ bgpc = "compact"
    /\ Briefly
    /\ \/ l0' = l0 - bgin /\ UNCHANGED <<bg_error_, faults>>
       \/ EnvFails /\ bg_error_' = TRUE /\ UNCHANGED l0
    /\ bgin' = 0
    /\ BackgroundDone(has_imm, l0', bg_error_')
    /\ BgUnchanged
    /\ UNCHANGED <<imm_, has_imm, tables>>

-----------------------------------------------------------------------------
\* The state DB::Open hands over: empty memtables over recovered level-0 files.
Init ==
    /\ mutex_ = Nobody
    /\ pc = [t \in Writers |-> "idle"]
    /\ calls = [t \in Writers |-> 0]
    /\ req = [t \in Writers |-> NoRequest]
    /\ loc = [t \in Writers |-> NoLocals]
    /\ w = [t \in Writers |-> NoWriter]
    /\ writers_ = <<>>
    /\ signalled = [t \in Writers |-> FALSE]
    /\ mem_ = {} /\ imm_ = {} /\ has_imm = FALSE /\ tables = {} /\ synced = {}
    /\ last_sequence = 0
    /\ l0 \in InitialL0
    /\ bg_error_ = FALSE
    /\ bg_scheduled = MaybeScheduleCompaction(FALSE, FALSE, l0, FALSE)
    /\ bgpc = "idle" /\ bgin = 0
    /\ faults = 0
    /\ entered = [t \in Writers |-> [seq |-> 0, err |-> FALSE]]
    /\ returned = {}

Client(t) ==
    \/ WakeDone(t) \/ WakeLeader(t) \/ MakeRoomForWrite(t) \/ Build(t)
    \/ AddRecord(t) \/ Sync(t) \/ InsertInto(t) \/ Finish(t) \/ FinishAlone(t)
    \/ WaitForFlush(t)

Background ==
    \/ BackgroundCall \/ CompactMemTable \/ CompactionStartsFlush
    \/ CompactionFlush \/ CompactionDone

\* All calls have been made and have returned: the clients stop.
Finished ==
    /\ \A t \in Writers : pc[t] = "idle" /\ calls[t] = MaxWrites
    /\ UNCHANGED vars

Next ==
    \/ \E t \in Writers : Client(t) \/ \E r \in Requests[t] : Enter(t, r)
    \/ Background
    \/ Finished

\* A thread that can run is scheduled eventually; clients need not call.
Fairness == WF_vars(Background) /\ \A t \in Writers : WF_vars(Client(t))

Spec == Init /\ [][Next]_vars /\ Fairness

-----------------------------------------------------------------------------
(* Properties *)

Leading == {"room", "sleep", "bgwait", "build", "append", "sync", "insert",
            "relock"}

LocalsType == [force : BOOLEAN, allow_delay : BOOLEAN, status : Statuses,
               sync_error : BOOLEAN, group : Seq(Writers),
               updates : SUBSET EntryType, seq : Nat]

\* Type invariant of the write path.
TypeOK ==
    /\ mutex_ \in Writers \cup {Nobody}
    /\ pc \in [Writers -> Leading \cup {"idle", "wait", "flush", "flushwait"}]
    /\ calls \in [Writers -> 0 .. MaxWrites]
    /\ req \in [Writers -> AllRequests \cup {NoRequest}]
    /\ loc \in [Writers -> LocalsType]
    /\ w \in [Writers -> [done : BOOLEAN, status : Statuses, seq : Nat]]
    /\ writers_ \in Seq(Writers)
    /\ signalled \in [Writers -> BOOLEAN]
    /\ mem_ \subseteq EntryType /\ imm_ \subseteq EntryType
    /\ tables \subseteq EntryType /\ has_imm \in BOOLEAN
    /\ synced \subseteq Op
    /\ last_sequence \in Nat /\ l0 \in Nat /\ bgin \in 0 .. l0
    /\ bg_error_ \in BOOLEAN /\ bg_scheduled \in BOOLEAN
    /\ bgpc \in {"idle", "flush", "compact", "cflush"}
    /\ faults \in 0 .. MaxFaults
    /\ entered \in [Writers -> [seq : Nat, err : BOOLEAN]]

\* "&w is currently responsible for logging and protects against concurrent
\* loggers and concurrent writes into mem_": at most one thread is between
\* MakeRoomForWrite and the end of its Write, it owns the front Writer, and
\* its group is still the head of the queue although mutex_ was released.
SingleLogger ==
    \A t \in Writers : pc[t] \in Leading =>
        /\ writers_ /= <<>> /\ Head(writers_) = t
        /\ \A u \in Writers : pc[u] \in Leading => u = t
        /\ \A j \in 1 .. Len(loc[t].group) :
              j <= Len(writers_) /\ loc[t].group[j] = writers_[j]

\* A sleeping writer has been signalled exactly when its loop condition in
\* Write lets it go on: no wake-up is lost and none is spurious.
NoLostWakeup ==
    \A t \in Writers : pc[t] = "wait" =>
        (signalled[t] <=> w[t].done \/ Head(writers_) = t)

\* Two entries never share a sequence number, and what lies above the
\* published LastSequence is exactly the uncommitted part of one group.
SequencesDistinct ==
    /\ \A e, f \in Stored : e.seq = f.seq => e = f
    /\ \A e \in Stored : e.seq > last_sequence =>
          \E t \in Writers : /\ pc[t] \in {"insert", "relock"}
                             /\ e \in mem_ /\ e.seq <= loc[t].seq
                             /\ \A f \in loc[t].updates : e.seq < f.seq

\* What a reader at LastSequence sees of a batch is all of it, in batch order.
BatchesAtomic ==
    \A e \in Stored : e.seq <= last_sequence =>
        \A i \in 1 .. req[e.op[1]].count :
            calls[e.op[1]] = e.op[2] =>
                \E f \in Stored : f.op = e.op /\ f.i = i /\ f.seq = e.seq - e.i + i

\* A sync write that was acknowledged had its record synced, whichever thread
\* wrote it ("Do not include a sync write into a batch handled by a non-sync
\* write").
SyncedWhenAcknowledged ==
    \A r \in returned : r.req.sync /\ r.status = "ok" => r.op \in synced

\* After a background error "all future writes fail": a call that began after
\* the error is never acknowledged.
ErrorIsSticky ==
    \A r \in returned : r.entered.err => r.status = "error"

\* Every call returns: no writer is left on its condition variable or on
\* bg_cv_, whatever fails.  (Calls are bounded, so a time comes when all have.)
EveryCallReturns == (\E t \in Writers : pc[t] /= "idle") ~> \A t \in Writers : pc[t] = "idle"

\* A full memtable does not stay in memory unless an error stopped the
\* background thread.
ImmIsFlushed == has_imm ~> ~has_imm \/ bg_error_

-----------------------------------------------------------------------------
(* Refinement of AtomicWrites *)

BatchSizes == {r.count : r \in {q \in AllRequests : q.batch}}

\* What has been decided about a client's current or last call.
Outcome(t) ==
    IF ~req[t].batch THEN "none"
    ELSE CASE pc[t] = "wait" /\ w[t].done -> w[t].status
           [] pc[t] = "idle" -> (CHOOSE r \in returned : r.op = MyOp(t)).status
           [] OTHER -> "pending"

Atomic == INSTANCE AtomicWrites WITH
    count   <- [t \in Writers |-> req[t].count],
    outcome <- [t \in Writers |-> Outcome(t)],
    data    <- {e \in Stored : e.seq <= last_sequence},
    last    <- last_sequence

\* Group commit implements atomic writes: whatever the interleaving of the
\* clients with the leader's unlocked section, with memtable switches and
\* flushes and with failures, each batch appears at one instant inside its
\* call, or not at all if the call reports an error.
ImplementsAtomicWrites == Atomic!Spec

\* What is stored is well formed: numbered once, in order and, up to LastSequence, in whole
\* batches, although the leader numbers and inserts a group with mutex_ released.
EntriesExact == TypeOK /\ SequencesDistinct /\ BatchesAtomic

\* What Write tells its caller is true: synced if it asked for it and got OK, and an
\* error whenever the background had failed before the call.
AnswersHonest == SyncedWhenAcknowledged /\ ErrorIsSticky
=============================================================================
