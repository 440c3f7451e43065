----------------------------- MODULE Background -----------------------------
(***************************************************************************)
(* Background work: the one background thread of PosixEnv and its queue    *)
(* (env_posix.cpp), the databases of the process that schedule compactions *)
(* on it, TEST_CompactRange and TEST_CompactMemTable, which wait on bg_cv_ *)
(* for it, and the destructor, which waits for it too (db_impl.cpp).       *)
(*                                                                         *)
(* An action is a stretch of code that holds the database's mutex_.  A     *)
(* compaction is two of them, for its middle runs with mutex_ released.    *)
(* What a compaction does to the tables is LSMTree's: here a range has a   *)
(* number of pieces left, and the levels a number of compactions they      *)
(* need.  Fault_... definitions are wrong variants that the specification  *)
(* does not use.                                                           *)
(***************************************************************************)
EXTENDS Integers, Sequences, FiniteSets

CONSTANTS DBs,             \* databases that share the Env
          Callers,         \* threads that compact by hand
          DBOf,            \* the database each of them compacts
          Pieces,          \* bound: compactions one range needs
          MaxNeeds,        \* bound: compactions the levels need at the start
          MaxErrors,       \* bound: I/O failures
          None             \* NULL

ASSUME BackgroundAssumption ==
    /\ DBOf \in [Callers -> DBs] /\ None \notin Callers \cup DBs
    /\ Pieces \in Nat /\ MaxNeeds \in Nat /\ MaxErrors \in Nat

VARIABLES
    bg_db,       \* DBImpl: [imm, needs, manual, scheduled, error, shutting, open]
    bg_call,     \* per caller: [pc, left, done]
    bg_queue,    \* PosixEnv::queue_: the databases whose BGWork is queued
    bg_thread,   \* [pc, db, manual]: the background thread
    bg_errors,   \* failures so far
    bg_crashed   \* a NULL manual_compaction_ was dereferenced
bg_vars == <<bg_db, bg_call, bg_queue, bg_thread, bg_errors, bg_crashed>>

Alive(d) == bg_db[d].open /\ ~bg_crashed

-----------------------------------------------------------------------------
(* The queue of PosixEnv *)

Fault_WakeThread(queue, pc) == pc

\* Schedule: the thread is created once, and signalled if the queue was empty.
WakeThread(queue, pc) ==
    IF pc = "none" \/ (queue = <<>> /\ pc = "wait") THEN "free" ELSE pc

Schedule(d, queue, thread) ==
    /\ bg_queue' = Append(queue, d)
    /\ bg_thread' = [thread EXCEPT !.pc = WakeThread(queue, @)]

\* BGThread: take the front item, or wait.
BGThread ==
    /\ bg_thread.pc = "free" /\ ~bg_crashed
    /\ IF bg_queue = <<>>
       THEN bg_thread' = [bg_thread EXCEPT !.pc = "wait"] /\ UNCHANGED bg_queue
       ELSE /\ bg_thread' = [pc |-> "work", db |-> Head(bg_queue), manual |-> FALSE]
            /\ bg_queue' = Tail(bg_queue)
    /\ UNCHANGED <<bg_db, bg_call, bg_errors, bg_crashed>>

\* pthread_cond_wait may return without a signal.
SpuriousWakeup ==
    /\ bg_thread.pc = "wait" /\ ~bg_crashed
    /\ bg_thread' = [bg_thread EXCEPT !.pc = "free"]
    /\ UNCHANGED <<bg_db, bg_call, bg_queue, bg_errors, bg_crashed>>

-----------------------------------------------------------------------------
(* DBImpl: scheduling *)

WorkToDo(x) == x.imm \/ x.manual # None \/ x.needs > 0

\* The new value x of a database, with MaybeScheduleCompaction called on it.
MaybeSchedule(d, x, thread) ==
    IF ~x.scheduled /\ ~x.shutting /\ ~x.error /\ WorkToDo(x)
    THEN /\ bg_db' = [bg_db EXCEPT ![d] = [x EXCEPT !.scheduled = TRUE]]
         /\ Schedule(d, bg_queue, thread)
    ELSE /\ bg_db' = [bg_db EXCEPT ![d] = x]
         /\ bg_thread' = thread /\ UNCHANGED bg_queue

\* bg_cv_.SignalAll of database d.
SignalWaiters(d, call) ==
    [c \in Callers |-> IF DBOf[c] = d /\ call[c].pc = "waiting"
                       THEN [call[c] EXCEPT !.pc = "loop"]
                       ELSE IF DBOf[c] = d /\ call[c].pc = "flushing"
                       THEN [call[c] EXCEPT !.pc = "flushloop"]
                       ELSE call[c]]

-----------------------------------------------------------------------------
(* Clients *)

\* The end of DB::Open: a database whose levels need compactions schedules one.
OpenEnds(d) ==
    /\ ~bg_db[d].open /\ ~bg_db[d].shutting /\ ~bg_crashed
    /\ MaybeSchedule(d, [bg_db[d] EXCEPT !.open = TRUE], bg_thread)
    /\ UNCHANGED <<bg_call, bg_errors, bg_crashed>>

\* CompactRange: TEST_CompactMemTable writes a NULL batch, which switches the
\* memtable; then it waits until that is flushed.
Compact(c) ==
    LET d == DBOf[c]
        x == [bg_db[d] EXCEPT !.imm = TRUE]
    IN /\ Alive(d) /\ ~bg_db[d].shutting /\ bg_call[c].pc = "idle"
       /\ bg_db[d].error \/ ~bg_db[d].imm
       /\ bg_call' = [bg_call EXCEPT ![c].pc = IF bg_db[d].error THEN "loop" ELSE "flushloop"]
       /\ IF bg_db[d].error THEN UNCHANGED <<bg_db, bg_queue, bg_thread>>
          ELSE MaybeSchedule(d, x, bg_thread)
       /\ UNCHANGED <<bg_errors, bg_crashed>>

\* The loop of TEST_CompactMemTable.
WaitForFlush(c) ==
    LET x == bg_db[DBOf[c]]
    IN /\ Alive(DBOf[c]) /\ bg_call[c].pc = "flushloop"
       /\ bg_call' = [bg_call EXCEPT ![c].pc = IF x.imm /\ ~x.error THEN "flushing" ELSE "loop"]
       /\ UNCHANGED <<bg_db, bg_queue, bg_thread, bg_errors, bg_crashed>>

Fault_MustStop(c, x) == bg_call[c].done
MustStop(c, x) == bg_call[c].done \/ x.shutting \/ x.error

\* "Cancel my manual compaction": only one's own.
Fault_Withdrawn(m, c) == None
Withdrawn(m, c) == IF m = c THEN None ELSE m

\* The loop of TEST_CompactRange: claim manual_compaction_ when it is free, wait,
\* and withdraw from it when leaving early.
CompactRangeLoop(c) ==
    LET d == DBOf[c]
        x == bg_db[d]
    IN /\ Alive(d) /\ bg_call[c].pc = "loop"
       /\ \/ /\ MustStop(c, x)
             /\ bg_call' = [bg_call EXCEPT ![c].pc = "returned"]
             /\ bg_db' = [bg_db EXCEPT ![d].manual = Withdrawn(@, c)]
             /\ UNCHANGED <<bg_queue, bg_thread>>
          \/ /\ ~MustStop(c, x)
             /\ bg_call' = [bg_call EXCEPT ![c].pc = "waiting"]
             /\ IF x.manual = None
                THEN MaybeSchedule(d, [x EXCEPT !.manual = c], bg_thread)
                ELSE UNCHANGED <<bg_db, bg_queue, bg_thread>>
       /\ UNCHANGED <<bg_errors, bg_crashed>>

\* RecordBackgroundError from Write, after a failed Sync of the log.
WriteFails(d) ==
    /\ Alive(d) /\ ~bg_db[d].shutting /\ ~bg_db[d].error /\ bg_errors < MaxErrors
    /\ bg_db' = [bg_db EXCEPT ![d].error = TRUE]
    /\ bg_call' = SignalWaiters(d, bg_call)
    /\ bg_errors' = bg_errors + 1
    /\ UNCHANGED <<bg_queue, bg_thread, bg_crashed>>

Fault_Shutdown(d) == bg_db[d].open /\ ~bg_db[d].shutting

\* The caller deletes a database none of its threads is using any more.
Shutdown(d) == Alive(d) /\ ~bg_db[d].shutting
               /\ \A c \in Callers : DBOf[c] = d => bg_call[c].pc \in {"idle", "returned"}

DestructorBegins(d) ==
    /\ Shutdown(d)
    /\ bg_db' = [bg_db EXCEPT ![d].shutting = TRUE]
    /\ UNCHANGED <<bg_call, bg_queue, bg_thread, bg_errors, bg_crashed>>

Fault_DestructorMayEnd(d) == bg_thread.pc # "compacting" \/ bg_thread.db # d
DestructorMayEnd(d) == ~bg_db[d].scheduled

\* The destructor's wait ends (SignalAll of BackgroundCall); everything is freed.
DestructorEnds(d) ==
    /\ Alive(d) /\ bg_db[d].shutting /\ DestructorMayEnd(d)
    /\ bg_db' = [bg_db EXCEPT ![d].open = FALSE]
    /\ UNCHANGED <<bg_call, bg_queue, bg_thread, bg_errors, bg_crashed>>

-----------------------------------------------------------------------------
(* BackgroundCall *)

\* Its end: bg_compaction_scheduled_ is cleared, more work is scheduled, and all
\* waiters are woken.
FinishCall(d, x, call) ==
    /\ MaybeSchedule(d, [x EXCEPT !.scheduled = FALSE],
                     [pc |-> "free", db |-> None, manual |-> FALSE])
    /\ bg_call' = SignalWaiters(d, call)

\* BackgroundCall up to where mutex_ is released: nothing to do, an exhausted
\* manual range, or a flush, a move or a compaction begins.
BackgroundCall ==
    LET d == bg_thread.db
        x == bg_db[d]
        m == x.manual
        stop == x.shutting \/ x.error
        exhausted == ~x.imm /\ m # None /\ bg_call[m].left = 0
    IN /\ bg_thread.pc = "work" /\ ~bg_crashed
       /\ \/ /\ stop \/ ~WorkToDo(x)
             /\ FinishCall(d, x, bg_call)
          \/ /\ ~stop /\ exhausted
             /\ FinishCall(d, [x EXCEPT !.manual = None], [bg_call EXCEPT ![m].done = TRUE])
          \/ /\ ~stop /\ WorkToDo(x) /\ ~exhausted
             /\ bg_thread' = [pc |-> IF x.imm THEN "flushing" ELSE "compacting",
                              db |-> d, manual |-> ~x.imm /\ m # None]
             /\ UNCHANGED <<bg_db, bg_call, bg_queue>>
       /\ UNCHANGED <<bg_errors, bg_crashed>>

\* A failure: of the shutdown, or of the environment.
Outcome(x, ok) ==
    /\ x.shutting => ~ok
    /\ \/ ok /\ UNCHANGED bg_errors
       \/ ~ok /\ x.shutting /\ UNCHANGED bg_errors
       \/ ~ok /\ ~x.shutting /\ bg_errors < MaxErrors /\ bg_errors' = bg_errors + 1

\* CompactMemTable has written its table: imm_ is dropped, or the error recorded.
Flushed(x, ok) == [x EXCEPT !.imm = ~ok, !.error = @ \/ ~ok]

FlushEnds(ok) ==
    LET d == bg_thread.db
    IN /\ bg_thread.pc = "flushing" /\ ~bg_crashed
       /\ Outcome(bg_db[d], ok)
       /\ FinishCall(d, Flushed(bg_db[d], ok), bg_call)
       /\ UNCHANGED bg_crashed

\* SU_flush_data flushes a memtable that filled up during the compaction.
FlushDuringCompaction(ok) ==
    LET d == bg_thread.db
    IN /\ bg_thread.pc = "compacting" /\ bg_db[d].imm /\ ~bg_crashed
       /\ Outcome(bg_db[d], ok)
       /\ bg_db' = [bg_db EXCEPT ![d] = Flushed(@, ok)]
       /\ bg_call' = SignalWaiters(d, bg_call)
       /\ UNCHANGED <<bg_queue, bg_thread, bg_crashed>>

\* The end of BackgroundCompaction.  manual_compaction_ is read again; a caller
\* that left early has set it to NULL, and the code dereferences it all the same.
CompactionEnds(ok) ==
    LET d == bg_thread.db
        x == [bg_db[d] EXCEPT !.error = @ \/ ~ok]
        m == x.manual
    IN /\ bg_thread.pc = "compacting" /\ ~bg_crashed
       /\ Outcome(bg_db[d], ok)
       /\ \/ /\ bg_thread.manual /\ m = None
             /\ bg_crashed' = TRUE
             /\ UNCHANGED <<bg_db, bg_call, bg_queue, bg_thread>>
          \/ /\ bg_thread.manual /\ m # None
             /\ FinishCall(d, [x EXCEPT !.manual = None],
                       [bg_call EXCEPT ![m].done = ~ok, ![m].left = IF ok THEN @ - 1 ELSE @])
             /\ UNCHANGED bg_crashed
          \/ /\ ~bg_thread.manual
             /\ FinishCall(d, [x EXCEPT !.needs = IF ok THEN @ - 1 ELSE @], bg_call)
             /\ UNCHANGED bg_crashed

-----------------------------------------------------------------------------

BackgroundInit ==
    /\ bg_db = [d \in DBs |-> [imm |-> FALSE, needs |-> MaxNeeds, manual |-> None,
                               scheduled |-> FALSE, error |-> FALSE, shutting |-> FALSE,
                               open |-> FALSE]]
    /\ bg_call = [c \in Callers |-> [pc |-> "idle", left |-> Pieces, done |-> FALSE]]
    /\ bg_queue = <<>>
    /\ bg_thread = [pc |-> "none", db |-> None, manual |-> FALSE]
    /\ bg_errors = 0 /\ bg_crashed = FALSE

BackgroundThread ==
    \/ BGThread
    \/ BackgroundCall
    \/ \E ok \in BOOLEAN : FlushEnds(ok) \/ FlushDuringCompaction(ok) \/ CompactionEnds(ok)

BackgroundNext ==
    \/ \E c \in Callers : Compact(c) \/ WaitForFlush(c) \/ CompactRangeLoop(c)
    \/ \E d \in DBs : OpenEnds(d) \/ WriteFails(d) \/ DestructorBegins(d) \/ DestructorEnds(d)
    \/ SpuriousWakeup
    \/ BackgroundThread

BackgroundSpec == BackgroundInit /\ [][BackgroundNext]_bg_vars

-----------------------------------------------------------------------------
(* Properties *)

InProgress(d) == bg_thread.db = d \/ \E i \in DOMAIN bg_queue : bg_queue[i] = d

\* bg_compaction_scheduled_ is the truth about the queue and the background
\* thread: at most one item per database, and none once the destructor has freed
\* the database, so that the thread never works on a deleted one.
ScheduledIsExact ==
    \A d \in DBs : /\ bg_db[d].scheduled <=> InProgress(d)
                   /\ InProgress(d) => bg_db[d].open
                   /\ Cardinality({i \in DOMAIN bg_queue : bg_queue[i] = d}) <= 1

\* Nobody sleeps for nothing: while a caller waits on bg_cv_, its database has work
\* scheduled, and while the queue holds an item the thread is not asleep.
WaitersHaveAHope ==
    /\ \A c \in Callers : bg_call[c].pc \in {"waiting", "flushing"} => bg_db[DBOf[c]].scheduled
    /\ bg_queue # <<>> => bg_thread.pc \notin {"none", "wait"}

\* A manual compaction that returns without an error has compacted all of its
\* range, also when several callers took turns with manual_compaction_.
ManualCompacted ==
    \A c \in Callers : bg_call[c].pc = "returned" /\ ~bg_db[DBOf[c]].error
                           => bg_call[c].left = 0

\* Every manual compaction returns and every destructor ends, under weak fairness
\* of the background thread, of callers that are awake and of destructors that have
\* begun.  (Calls are bounded, so a time comes when nobody waits.)
SomebodyWaits ==
    \/ \E c \in Callers : bg_call[c].pc \notin {"idle", "returned"}
    \/ \E d \in DBs : bg_db[d].shutting /\ bg_db[d].open
BackgroundProgress == SomebodyWaits ~> ~SomebodyWaits \/ bg_crashed

\* A caller that leaves cancels its manual compaction, and the thread that works
\* on it then dereferences NULL: that takes an error or a shutdown, nothing else
\* makes a caller leave before its range is done.
CancelledOnlyOnStop ==
    bg_crashed => bg_db[bg_thread.db].error \/ bg_db[bg_thread.db].shutting

\* The scheduling flag is the truth about the queue, no waiter is forgotten, and a manual
\* compaction is done when its caller returns.
BackgroundSound ==
    /\ ScheduledIsExact
    /\ WaitersHaveAHope
    /\ ManualCompacted
    /\ CancelledOnlyOnStop
=============================================================================
