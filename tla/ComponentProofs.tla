-------------------------- MODULE ComponentProofs ---------------------------
(***************************************************************************)
(* Proofs about the smaller components, each for every value of its        *)
(* constants.                                                              *)
(*                                                                         *)
(* Background, for any number of databases, callers, pieces and failures:  *)
(* bg_compaction_scheduled_ tells the truth about the queue and the        *)
(* thread, nobody waits without work being scheduled, a manual compaction  *)
(* that returns without an error has compacted its range, and the thread   *)
(* meets a NULL manual_compaction_ only after an error or a shutdown       *)
(* (BackgroundSound).                                                      *)
(*                                                                         *)
(* BenchDriver, for any number of benchmarks, threads and operations: a    *)
(* benchmark reports the work of all its threads, a fill leaves its own    *)
(* keys, SharedState outlives the threads that use it and db_ is live      *)
(* where it is used (BenchmarksSound).                                     *)
(*                                                                         *)
(* FileLock, for any number of processes, of handles in them and of LOCK   *)
(* files: a database has one user unless one of the events that fl_dropped *)
(* records took a lock away, and the process's table of locked names has   *)
(* no entry left behind (LockSound).                                       *)
(*                                                                         *)
(* Repair, for any database, damage, failures and interruptions: what      *)
(* could be read is in the tables of the new descriptor, or in lost/ when  *)
(* something failed, and new writes are numbered above it (RepairSound).   *)
(*                                                                         *)
(* Arena, for every block size, alignment and sequence of requests: the    *)
(* pieces handed out are disjoint, inside their blocks and aligned where   *)
(* that was asked for (PiecesDisjoint).                                    *)
(*                                                                         *)
(* MemTable, for every set of keys, height and number of readers: reads    *)
(* that run while a node is inserted are exact (ListReadsExact).           *)
(***************************************************************************)
EXTENDS Background, BenchDriver, FileLock, Repair, Arena, MemTable, FiniteSetTheorems, NatLemmas, TLAPS

-----------------------------------------------------------------------------
(* Background *)

DBType == [imm : BOOLEAN, needs : Nat, manual : Callers \cup {None}, scheduled : BOOLEAN,
           error : BOOLEAN, shutting : BOOLEAN, open : BOOLEAN]
CallPcs == {"idle", "flushloop", "flushing", "loop", "waiting", "returned"}
ThreadType == [pc : {"none", "free", "wait", "work", "flushing", "compacting"},
               db : DBs \cup {None}, manual : BOOLEAN]

BgTypeOK ==
    /\ bg_db \in [DBs -> DBType]
    /\ bg_call \in [Callers -> [pc : CallPcs, left : Nat, done : BOOLEAN]]
    /\ bg_queue \in Seq(DBs)
    /\ bg_thread \in ThreadType
    /\ bg_errors \in Nat /\ bg_crashed \in BOOLEAN

Busy == {"work", "flushing", "compacting"}

\* An item is in one place, and the flag says whether there is one.
ItemInv ==
    /\ bg_thread.db \in DBs <=> bg_thread.pc \in Busy
    /\ \A i \in DOMAIN bg_queue : bg_queue[i] # bg_thread.db
    /\ \A i, j \in DOMAIN bg_queue : bg_queue[i] = bg_queue[j] => i = j
    /\ \A d \in DBs : bg_db[d].scheduled <=> InProgress(d)

\* The thread sleeps over an empty queue only.
AwakeInv == bg_queue # <<>> => bg_thread.pc \notin {"none", "wait"}

\* Work is scheduled as soon as there is any, in a database that is open.
WorkInv ==
    \A d \in DBs :
        /\ bg_db[d].scheduled => bg_db[d].open
        /\ bg_db[d].open /\ ~bg_db[d].error /\ ~bg_db[d].shutting /\ WorkToDo(bg_db[d])
              => bg_db[d].scheduled

\* Callers inside a call keep their database from being deleted; those on bg_cv_ wait for
\* scheduled work; and done means that the range is compacted, or an error.
CallerInv ==
    \A c \in Callers :
        LET x == bg_db[DBOf[c]]
            call == bg_call[c]
        IN  /\ call.pc \notin {"idle", "returned"} => x.open /\ ~x.shutting
            /\ call.pc \in {"waiting", "flushing"} => x.scheduled
            /\ call.done => call.left = 0 \/ x.error
            /\ call.pc = "returned" => call.left = 0 \/ x.error

\* manual_compaction_ belongs to a caller of this database that is still in its loop.
ManualInv ==
    \A d \in DBs : LET m == bg_db[d].manual IN
        m # None => DBOf[m] = d /\ bg_call[m].pc \in {"waiting", "loop"} /\ ~bg_call[m].done

\* While the thread compacts, what it compacts stays as it was, or was cancelled for a
\* reason that keeps everybody else from taking its place.
CompactingInv ==
    bg_thread.pc = "compacting" =>
        LET x == bg_db[bg_thread.db] IN
        IF bg_thread.manual
        THEN IF x.manual = None THEN x.error \/ x.shutting ELSE bg_call[x.manual].left > 0
        ELSE x.needs > 0

\* After the crash nothing moves.
CrashInv == bg_crashed => bg_thread.db \in DBs /\ CancelledOnlyOnStop

BgInv == /\ BgTypeOK /\ ItemInv /\ AwakeInv /\ WorkInv /\ CallerInv /\ ManualInv
         /\ CompactingInv /\ CrashInv

-----------------------------------------------------------------------------
(* MaybeScheduleCompaction *)

\* The database with value x after MaybeScheduleCompaction: only the flag may be new.
Rescheduled(x, y) ==
    \E s \in BOOLEAN : /\ y = [x EXCEPT !.scheduled = s]
                       /\ x.scheduled => s
                       /\ ~x.error /\ ~x.shutting /\ WorkToDo(x) => s

\* Called for database d with value x and thread th, between two states that agree with
\* ItemInv, AwakeInv and WorkInv otherwise: they hold again, the item is added if there
\* is work, and nothing else changes.
LEMMA ScheduleStep ==
    ASSUME BgInv, NEW d \in DBs, NEW x \in DBType, NEW th \in ThreadType,
           MaybeSchedule(d, x, th), x.open,
           th.db \in DBs <=> th.pc \in Busy,
           \A i \in DOMAIN bg_queue : bg_queue[i] # th.db,
           \A e \in DBs \ {d} : th.db = e <=> bg_thread.db = e,
           x.scheduled <=> (th.db = d \/ \E i \in DOMAIN bg_queue : bg_queue[i] = d),
           bg_queue # <<>> => th.pc \notin {"none", "wait"}
    PROVE  /\ bg_db' \in [DBs -> DBType] /\ bg_queue' \in Seq(DBs) /\ bg_thread' \in ThreadType
           /\ ItemInv' /\ AwakeInv' /\ WorkInv'
           /\ \A e \in DBs \ {d} : bg_db'[e] = bg_db[e]
           /\ Rescheduled(x, bg_db'[d])
           /\ bg_thread'.db = th.db /\ bg_thread'.manual = th.manual
           /\ IF th.pc \in Busy THEN bg_thread'.pc = th.pc ELSE bg_thread'.pc \notin Busy
<1>1. bg_queue \in Seq(DBs) /\ bg_db \in [DBs -> DBType] /\ None \notin DBs
  BY BackgroundAssumption DEF BgInv, BgTypeOK
<1>2. CASE ~(~x.scheduled /\ ~x.shutting /\ ~x.error /\ WorkToDo(x))
  <2>1. bg_db' = [bg_db EXCEPT ![d] = x] /\ bg_thread' = th /\ bg_queue' = bg_queue
    BY <1>2 DEF MaybeSchedule
  <2>2. /\ bg_db' \in [DBs -> DBType] /\ bg_db'[d] = x
        /\ \A e \in DBs \ {d} : bg_db'[e] = bg_db[e]
    BY <1>1, <2>1
  <2>3. x.scheduled \in BOOLEAN /\ x = [x EXCEPT !.scheduled = x.scheduled]
    BY DEF DBType
  <2>4. ItemInv'
    BY <1>1, <2>1, <2>2 DEF ItemInv, InProgress, BgInv
  <2>5. AwakeInv' /\ WorkInv'
    BY <1>2, <2>1, <2>2 DEF AwakeInv, WorkInv, BgInv
  <2>6. QED
    BY <1>1, <1>2, <2>1, <2>2, <2>3, <2>4, <2>5 DEF Rescheduled
<1>3. CASE ~x.scheduled /\ ~x.shutting /\ ~x.error /\ WorkToDo(x)
  <2> DEFINE y == [x EXCEPT !.scheduled = TRUE]
  <2>1. /\ bg_db' = [bg_db EXCEPT ![d] = y] /\ bg_queue' = Append(bg_queue, d)
        /\ bg_thread' = [th EXCEPT !.pc = WakeThread(bg_queue, th.pc)]
    BY <1>3 DEF MaybeSchedule, Schedule
  <2>2. y \in DBType /\ y.scheduled /\ y.open
    BY DEF DBType
  <2>3. /\ bg_db' \in [DBs -> DBType] /\ bg_db'[d] = y
        /\ \A e \in DBs \ {d} : bg_db'[e] = bg_db[e]
    BY <1>1, <2>1, <2>2
  <2>4. /\ bg_queue' \in Seq(DBs) /\ bg_queue' # <<>>
        /\ DOMAIN bg_queue' = DOMAIN bg_queue \cup {Len(bg_queue) + 1}
        /\ bg_queue'[Len(bg_queue) + 1] = d
        /\ \A i \in DOMAIN bg_queue : bg_queue'[i] = bg_queue[i]
    BY <1>1, <2>1
  <2>5. /\ bg_thread' \in ThreadType /\ bg_thread'.db = th.db /\ bg_thread'.manual = th.manual
        /\ bg_thread'.pc = WakeThread(bg_queue, th.pc)
    BY <2>1 DEF ThreadType, WakeThread
  <2>6. /\ IF th.pc \in Busy THEN bg_thread'.pc = th.pc ELSE bg_thread'.pc \notin Busy
        /\ bg_thread'.pc \notin {"none", "wait"}
    BY <2>5 DEF WakeThread, Busy
  <2>7. ItemInv'
    <3>1. (bg_thread.db \in DBs <=> bg_thread.pc \in Busy)'
      BY <2>5, <2>6
    <3>2. d # th.db /\ \A i \in DOMAIN bg_queue : bg_queue[i] # d
      BY <1>3
    <3>3. \A i, j \in DOMAIN bg_queue' : bg_queue'[i] = bg_queue'[j] => i = j
      BY <2>4, <3>2 DEF BgInv, ItemInv
    <3>4. \A i \in DOMAIN bg_queue' : bg_queue'[i] # bg_thread'.db
      BY <2>4, <2>5, <3>2
    <3>5. \A e \in DBs : bg_db'[e].scheduled <=> InProgress(e)'
      <4>1. bg_db'[d].scheduled /\ InProgress(d)'
        BY <1>1, <2>2, <2>3, <2>4 DEF InProgress
      <4>2. ASSUME NEW e \in DBs \ {d}
            PROVE  bg_db'[e].scheduled <=> InProgress(e)'
        <5>1. bg_db'[e].scheduled <=> InProgress(e)
          BY <2>3 DEF BgInv, ItemInv
        <5>2. InProgress(e)' <=> InProgress(e)
          BY <2>4, <2>5 DEF InProgress
        <5>3. QED
          BY <5>1, <5>2
      <4>3. QED
        BY <4>1, <4>2
    <3>6. QED
      BY <3>1, <3>3, <3>4, <3>5 DEF ItemInv
  <2>8. AwakeInv' /\ WorkInv'
    <3>1. WorkInv
      BY DEF BgInv
    <3>2. AwakeInv'
      BY <2>6 DEF AwakeInv
    <3>3. WorkInv'
      BY <2>2, <2>3, <3>1 DEF WorkInv
    <3>4. QED
      BY <3>2, <3>3
  <2>9. QED
    BY <2>2, <2>3, <2>4, <2>5, <2>6, <2>7, <2>8 DEF Rescheduled
<1>4. QED
  BY <1>2, <1>3

\* SignalAll: the waiters of the database go back to their loops, nothing else changes.
LEMMA SignalEffect ==
    ASSUME NEW d \in DBs, NEW call \in [Callers -> [pc : CallPcs, left : Nat, done : BOOLEAN]],
           NEW c \in Callers
    PROVE  LET s == SignalWaiters(d, call)
           IN  /\ s \in [Callers -> [pc : CallPcs, left : Nat, done : BOOLEAN]]
               /\ s[c].left = call[c].left /\ s[c].done = call[c].done
               /\ DBOf[c] # d => s[c] = call[c]
               /\ DBOf[c] = d => s[c].pc \notin {"waiting", "flushing"}
               /\ call[c].pc = "waiting" => s[c].pc \in {"waiting", "loop"}
               /\ call[c].pc = "flushing" => s[c].pc \in {"flushing", "flushloop"}
               /\ call[c].pc \notin {"waiting", "flushing"} => s[c] = call[c]
BY DEF SignalWaiters, CallPcs

-----------------------------------------------------------------------------
(* One lemma per action *)

\* The end of BackgroundCall, for a database whose value x and whose callers call are
\* those of BgInv with an error, a finished or a cancelled manual compaction recorded.
LEMMA FinishStep ==
    ASSUME BgInv, ~bg_crashed, bg_thread.pc \in Busy,
           NEW d \in DBs, d = bg_thread.db, NEW x \in DBType,
           NEW call \in [Callers -> [pc : CallPcs, left : Nat, done : BOOLEAN]],
           FinishCall(d, x, call),
           bg_errors' \in Nat, bg_crashed' = bg_crashed,
           x.open = bg_db[d].open, x.shutting = bg_db[d].shutting, bg_db[d].error => x.error,
           x.manual \in {None, bg_db[d].manual},
           x.manual # None => call[x.manual] = bg_call[x.manual],
           \A c \in Callers : call[c].pc = bg_call[c].pc,
           \A c \in Callers : DBOf[c] # d => call[c] = bg_call[c],
           \A c \in Callers : DBOf[c] = d =>
               (call[c].done \/ call[c].pc = "returned" => call[c].left = 0 \/ x.error)
    PROVE  BgInv'
<1> DEFINE y == [x EXCEPT !.scheduled = FALSE]
           th == [pc |-> "free", db |-> None, manual |-> FALSE]
<1>1. /\ y \in DBType /\ ~y.scheduled /\ y.open = x.open /\ y.shutting = x.shutting
      /\ y.error = x.error /\ y.manual = x.manual
  BY DEF DBType
<1>2. th \in ThreadType /\ th.db = None /\ th.pc = "free" /\ None \notin DBs /\ None \notin Callers
  BY BackgroundAssumption DEF ThreadType
<1>3. MaybeSchedule(d, y, th) /\ bg_call' = SignalWaiters(d, call)
  BY DEF FinishCall
<1> HIDE DEF y, th
<1>4. bg_db[d].open
  BY DEF BgInv, ItemInv, InProgress, WorkInv
<1>5. /\ bg_db' \in [DBs -> DBType] /\ bg_queue' \in Seq(DBs) /\ bg_thread' \in ThreadType
      /\ ItemInv' /\ AwakeInv' /\ WorkInv'
      /\ \A e \in DBs \ {d} : bg_db'[e] = bg_db[e]
      /\ Rescheduled(y, bg_db'[d])
      /\ bg_thread'.pc \notin Busy
  <2>1. \A i \in DOMAIN bg_queue : bg_queue[i] # d /\ bg_queue[i] \in DBs
    BY DEF BgInv, BgTypeOK, ItemInv
  <2>2. /\ y.open
        /\ th.db \in DBs <=> th.pc \in Busy
        /\ \A i \in DOMAIN bg_queue : bg_queue[i] # th.db
        /\ \A e \in DBs \ {d} : th.db = e <=> bg_thread.db = e
        /\ y.scheduled <=> (th.db = d \/ \E i \in DOMAIN bg_queue : bg_queue[i] = d)
        /\ bg_queue # <<>> => th.pc \notin {"none", "wait"}
        /\ th.pc \notin Busy
    <3>1. y.open /\ th.pc \notin Busy /\ th.db \notin DBs /\ th.pc \notin {"none", "wait"}
      BY <1>1, <1>2, <1>4 DEF Busy
    <3>2. \A i \in DOMAIN bg_queue : bg_queue[i] # th.db
      BY <2>1, <3>1
    <3>3. \A e \in DBs \ {d} : ~(th.db = e) /\ ~(bg_thread.db = e)
      BY <3>1
    <3>4. ~y.scheduled /\ th.db # d /\ ~\E i \in DOMAIN bg_queue : bg_queue[i] = d
      BY <1>1, <2>1, <3>1
    <3>5. QED
      BY <3>1, <3>2, <3>3, <3>4
  <2>3. y \in DBType /\ th \in ThreadType /\ MaybeSchedule(d, y, th)
    BY <1>1, <1>2, <1>3
  <2>4. /\ bg_db' \in [DBs -> DBType] /\ bg_queue' \in Seq(DBs) /\ bg_thread' \in ThreadType
        /\ ItemInv' /\ AwakeInv' /\ WorkInv'
        /\ \A e \in DBs \ {d} : bg_db'[e] = bg_db[e]
        /\ IF th.pc \in Busy THEN bg_thread'.pc = th.pc ELSE bg_thread'.pc \notin Busy
    BY <2>2, <2>3, ScheduleStep
  <2>5. Rescheduled(y, bg_db'[d])
    BY <2>2, <2>3, ScheduleStep
  <2>6. QED
    BY <2>2, <2>4, <2>5
<1>6. /\ bg_db'[d].open = bg_db[d].open /\ bg_db'[d].shutting = bg_db[d].shutting
      /\ bg_db'[d].error = x.error /\ bg_db'[d].manual = x.manual
  BY <1>1, <1>5 DEF Rescheduled, DBType
<1>7. /\ bg_call' \in [Callers -> [pc : CallPcs, left : Nat, done : BOOLEAN]]
      /\ \A c \in Callers :
           /\ bg_call'[c].left = call[c].left /\ bg_call'[c].done = call[c].done
           /\ DBOf[c] # d => bg_call'[c] = call[c]
           /\ DBOf[c] = d => bg_call'[c].pc \notin {"waiting", "flushing"}
           /\ call[c].pc = "waiting" => bg_call'[c].pc \in {"waiting", "loop"}
           /\ call[c].pc = "flushing" => bg_call'[c].pc \in {"flushing", "flushloop"}
           /\ call[c].pc \notin {"waiting", "flushing"} => bg_call'[c] = call[c]
  <2>1. bg_call' \in [Callers -> [pc : CallPcs, left : Nat, done : BOOLEAN]]
    BY <1>3 DEF SignalWaiters, CallPcs
  <2>2. QED
    BY <1>3, <2>1, SignalEffect
<1>8. BgTypeOK'
  BY <1>5, <1>7 DEF BgTypeOK, BgInv
<1>9. CallerInv'
  <2> SUFFICES ASSUME NEW c \in Callers
               PROVE  LET z == bg_db'[DBOf[c]]
                      IN  /\ bg_call'[c].pc \notin {"idle", "returned"} => z.open /\ ~z.shutting
                          /\ bg_call'[c].pc \in {"waiting", "flushing"} => z.scheduled
                          /\ bg_call'[c].done => bg_call'[c].left = 0 \/ z.error
                          /\ bg_call'[c].pc = "returned" => bg_call'[c].left = 0 \/ z.error
    BY DEF CallerInv
  <2>1. DBOf[c] \in DBs
    BY BackgroundAssumption
  <2>2. CASE DBOf[c] # d
    <3>1. bg_call'[c] = bg_call[c] /\ bg_db'[DBOf[c]] = bg_db[DBOf[c]]
      BY <1>5, <1>7, <2>1, <2>2
    <3>2. CallerInv
      BY DEF BgInv
    <3>3. QED
      BY <3>1, <3>2 DEF CallerInv
  <2>3. CASE DBOf[c] = d
    BY <1>6, <1>7, <2>3 DEF BgInv, CallerInv
  <2>4. QED
    BY <2>2, <2>3
<1>10. ManualInv'
  <2> SUFFICES ASSUME NEW e \in DBs, bg_db'[e].manual # None
               PROVE  /\ DBOf[bg_db'[e].manual] = e
                      /\ bg_call'[bg_db'[e].manual].pc \in {"waiting", "loop"}
                      /\ ~bg_call'[bg_db'[e].manual].done
    BY DEF ManualInv
  <2>1. bg_db'[e].manual \in Callers /\ bg_db'[e].manual = bg_db[e].manual
    BY <1>5, <1>6, <1>8 DEF BgTypeOK, DBType
  <2>2. /\ DBOf[bg_db[e].manual] = e /\ bg_call[bg_db[e].manual].pc \in {"waiting", "loop"}
        /\ ~bg_call[bg_db[e].manual].done
    BY <2>1 DEF BgInv, ManualInv
  <2>3. call[bg_db[e].manual] = bg_call[bg_db[e].manual]
    BY <1>6, <2>1, <2>2
  <2>4. QED
    BY <1>7, <2>1, <2>2, <2>3
<1>11. CompactingInv' /\ CrashInv'
  BY <1>5 DEF CompactingInv, CrashInv, Busy
<1>12. QED
  BY <1>5, <1>8, <1>9, <1>10, <1>11 DEF BgInv

\* MaybeScheduleCompaction called by a client, which does not touch the thread.
LEMMA ClientSchedules ==
    ASSUME BgInv, NEW d \in DBs, NEW x \in DBType, MaybeSchedule(d, x, bg_thread), x.open,
           x.scheduled = bg_db[d].scheduled
    PROVE  /\ bg_db' \in [DBs -> DBType] /\ bg_queue' \in Seq(DBs) /\ bg_thread' \in ThreadType
           /\ ItemInv' /\ AwakeInv' /\ WorkInv'
           /\ \A e \in DBs \ {d} : bg_db'[e] = bg_db[e]
           /\ Rescheduled(x, bg_db'[d])
           /\ bg_thread'.db = bg_thread.db /\ bg_thread'.manual = bg_thread.manual
           /\ IF bg_thread.pc \in Busy THEN bg_thread'.pc = bg_thread.pc
              ELSE bg_thread'.pc \notin Busy
<1>1. /\ bg_thread \in ThreadType
      /\ bg_thread.db \in DBs <=> bg_thread.pc \in Busy
      /\ \A i \in DOMAIN bg_queue : bg_queue[i] # bg_thread.db
      /\ \A e \in DBs \ {d} : bg_thread.db = e <=> bg_thread.db = e
      /\ x.scheduled <=> (bg_thread.db = d \/ \E i \in DOMAIN bg_queue : bg_queue[i] = d)
      /\ bg_queue # <<>> => bg_thread.pc \notin {"none", "wait"}
  BY DEF BgInv, BgTypeOK, ItemInv, AwakeInv, InProgress
<1>2. QED
  BY <1>1, ScheduleStep

\* A client changes its own call and its database: what is left to show of BgInv when
\* the database keeps its flags and manual_compaction_ changes for the better.
LEMMA ClientStep ==
    ASSUME BgInv, ~bg_crashed, bg_crashed' = bg_crashed, bg_errors' = bg_errors,
           NEW c \in Callers, NEW new \in [pc : CallPcs, left : Nat, done : BOOLEAN],
           bg_call' = [bg_call EXCEPT ![c] = new],
           new.left = bg_call[c].left, new.done = bg_call[c].done,
           NEW d \in DBs, d = DBOf[c], bg_db[d].open, ~bg_db[d].shutting,
           bg_db' \in [DBs -> DBType], bg_queue' \in Seq(DBs), bg_thread' \in ThreadType,
           ItemInv', AwakeInv', WorkInv',
           \A e \in DBs \ {d} : bg_db'[e] = bg_db[e],
           bg_db'[d].open, ~bg_db'[d].shutting, bg_db'[d].error = bg_db[d].error,
           bg_db'[d].needs = bg_db[d].needs, bg_db[d].scheduled => bg_db'[d].scheduled,
           new.pc \in {"waiting", "flushing"} => bg_db'[d].scheduled,
           new.pc = "returned" => new.left = 0 \/ bg_db[d].error,
           \/ bg_db'[d].manual = bg_db[d].manual
              /\ (bg_db[d].manual = c => new.pc \in {"waiting", "loop"})
           \/ bg_db'[d].manual = None /\ bg_db[d].manual = c /\ bg_db[d].error
           \/ bg_db'[d].manual = c /\ bg_db[d].manual = None /\ ~bg_db[d].error
              /\ ~new.done /\ new.pc \in {"waiting", "loop"},
           bg_thread'.db = bg_thread.db, bg_thread'.manual = bg_thread.manual,
           IF bg_thread.pc \in Busy THEN bg_thread'.pc = bg_thread.pc
           ELSE bg_thread'.pc \notin Busy
    PROVE  BgInv'
<1>1. BgTypeOK'
  BY DEF BgInv, BgTypeOK
<1>2. bg_call'[c] = new /\ \A b \in Callers \ {c} : bg_call'[b] = bg_call[b]
  BY DEF BgInv, BgTypeOK
<1>3. None \notin Callers /\ DBOf \in [Callers -> DBs]
  BY BackgroundAssumption
<1>4. CallerInv'
  <2> SUFFICES ASSUME NEW b \in Callers
               PROVE  LET z == bg_db'[DBOf[b]]
                      IN  /\ bg_call'[b].pc \notin {"idle", "returned"} => z.open /\ ~z.shutting
                          /\ bg_call'[b].pc \in {"waiting", "flushing"} => z.scheduled
                          /\ bg_call'[b].done => bg_call'[b].left = 0 \/ z.error
                          /\ bg_call'[b].pc = "returned" => bg_call'[b].left = 0 \/ z.error
    BY DEF CallerInv
  <2>1. CASE b = c
    BY <1>2, <2>1 DEF BgInv, CallerInv
  <2>2. CASE b # c /\ DBOf[b] = d
    BY <1>2, <2>2 DEF BgInv, CallerInv
  <2>3. CASE b # c /\ DBOf[b] # d
    BY <1>2, <1>3, <2>3 DEF BgInv, CallerInv
  <2>4. QED
    BY <2>1, <2>2, <2>3
<1>5. ManualInv'
  <2> SUFFICES ASSUME NEW e \in DBs, bg_db'[e].manual # None
               PROVE  /\ DBOf[bg_db'[e].manual] = e
                      /\ bg_call'[bg_db'[e].manual].pc \in {"waiting", "loop"}
                      /\ ~bg_call'[bg_db'[e].manual].done
    BY DEF ManualInv
  <2>1. bg_db'[e].manual \in Callers
    BY <1>1 DEF BgTypeOK, DBType
  <2>2. CASE e # d
    BY <1>2, <2>1, <2>2 DEF BgInv, ManualInv
  <2>3. CASE e = d
    BY <1>2, <2>1, <2>3 DEF BgInv, ManualInv
  <2>4. QED
    BY <2>2, <2>3
<1>6. CompactingInv'
  <2> SUFFICES ASSUME bg_thread'.pc = "compacting"
               PROVE  LET z == bg_db'[bg_thread'.db] IN
                      IF bg_thread'.manual
                      THEN IF z.manual = None THEN z.error \/ z.shutting
                           ELSE bg_call'[z.manual].left > 0
                      ELSE z.needs > 0
    BY DEF CompactingInv
  <2>1. bg_thread.pc = "compacting" /\ bg_thread.db \in DBs
    BY DEF BgInv, ItemInv, Busy
  <2>2. /\ \A b \in Callers : bg_call'[b].left = bg_call[b].left
        /\ bg_db'[bg_thread.db].manual # None => bg_db'[bg_thread.db].manual \in Callers
    BY <1>1, <1>2, <2>1 DEF BgTypeOK, DBType
  <2>3. CASE bg_thread.db # d
    BY <2>1, <2>2, <2>3 DEF BgInv, CompactingInv
  <2>4. CASE bg_thread.db = d
    BY <2>1, <2>2, <2>4 DEF BgInv, CompactingInv
  <2>5. QED
    BY <2>3, <2>4
<1>7. QED
  BY <1>1, <1>4, <1>5, <1>6 DEF BgInv, CrashInv

\* CompactRange begins.
LEMMA CompactStep ==
    ASSUME BgInv, NEW c \in Callers, Compact(c)
    PROVE  BgInv'
<1> DEFINE d == DBOf[c]
           new == [bg_call[c] EXCEPT !.pc = IF bg_db[d].error THEN "loop" ELSE "flushloop"]
           x == [bg_db[d] EXCEPT !.imm = TRUE]
<1>1. /\ d \in DBs /\ bg_db[d] \in DBType /\ bg_db[d].open /\ ~bg_db[d].shutting /\ ~bg_crashed
      /\ bg_call[c].pc = "idle" /\ bg_crashed' = bg_crashed /\ bg_errors' = bg_errors
      /\ bg_call[c] \in [pc : CallPcs, left : Nat, done : BOOLEAN]
  BY BackgroundAssumption DEF Compact, Alive, BgInv, BgTypeOK
<1>2. /\ new \in [pc : CallPcs, left : Nat, done : BOOLEAN]
      /\ bg_call' = [bg_call EXCEPT ![c] = new]
      /\ new.left = bg_call[c].left /\ new.done = bg_call[c].done
      /\ new.pc \in {"loop", "flushloop"}
  BY <1>1 DEF Compact, BgInv, BgTypeOK, CallPcs
<1>3. bg_db[d].manual # c
  BY <1>1, BackgroundAssumption DEF BgInv, ManualInv
<1>4. CASE bg_db[d].error
  <2>1. bg_db' = bg_db /\ bg_queue' = bg_queue /\ bg_thread' = bg_thread
    BY <1>4 DEF Compact
  <2>2. /\ bg_db' \in [DBs -> DBType] /\ bg_queue' \in Seq(DBs) /\ bg_thread' \in ThreadType
        /\ ItemInv' /\ AwakeInv' /\ WorkInv'
    BY <2>1 DEF BgInv, BgTypeOK, ItemInv, InProgress, AwakeInv, WorkInv
  <2> HIDE DEF new, d
  <2>3. QED
    BY <1>1, <1>2, <1>3, <2>1, <2>2, ClientStep DEF d
<1>5. CASE ~bg_db[d].error
  <2>1. MaybeSchedule(d, x, bg_thread)
    BY <1>5 DEF Compact
  <2>2. /\ x \in DBType /\ x.open /\ x.scheduled = bg_db[d].scheduled /\ ~x.shutting
        /\ x.error = bg_db[d].error /\ x.needs = bg_db[d].needs /\ x.manual = bg_db[d].manual
    BY <1>1 DEF DBType
  <2> HIDE DEF new, x
  <2>3. /\ bg_db' \in [DBs -> DBType] /\ bg_queue' \in Seq(DBs) /\ bg_thread' \in ThreadType
        /\ ItemInv' /\ AwakeInv' /\ WorkInv'
        /\ \A e \in DBs \ {d} : bg_db'[e] = bg_db[e]
        /\ Rescheduled(x, bg_db'[d])
        /\ bg_thread'.db = bg_thread.db /\ bg_thread'.manual = bg_thread.manual
        /\ IF bg_thread.pc \in Busy THEN bg_thread'.pc = bg_thread.pc
           ELSE bg_thread'.pc \notin Busy
    BY <1>1, <2>1, <2>2, ClientSchedules
  <2>4. /\ bg_db'[d].open /\ ~bg_db'[d].shutting /\ bg_db'[d].error = bg_db[d].error
        /\ bg_db'[d].needs = bg_db[d].needs /\ bg_db'[d].manual = bg_db[d].manual
        /\ bg_db[d].scheduled => bg_db'[d].scheduled
    BY <2>2, <2>3 DEF Rescheduled, DBType
  <2> HIDE DEF d
  <2>5. QED
    BY <1>1, <1>2, <1>3, <2>3, <2>4, ClientStep DEF d
<1>6. QED
  BY <1>4, <1>5

\* TEST_CompactMemTable looks whether its memtable is flushed.
LEMMA WaitForFlushStep ==
    ASSUME BgInv, NEW c \in Callers, WaitForFlush(c)
    PROVE  BgInv'
<1> DEFINE d == DBOf[c]
           new == [bg_call[c] EXCEPT !.pc = IF bg_db[d].imm /\ ~bg_db[d].error
                                            THEN "flushing" ELSE "loop"]
<1>1. /\ d \in DBs /\ bg_db[d] \in DBType /\ ~bg_crashed
      /\ bg_call[c].pc = "flushloop" /\ bg_crashed' = bg_crashed /\ bg_errors' = bg_errors
      /\ bg_call[c] \in [pc : CallPcs, left : Nat, done : BOOLEAN]
      /\ bg_db' = bg_db /\ bg_queue' = bg_queue /\ bg_thread' = bg_thread
  BY BackgroundAssumption DEF WaitForFlush, Alive, BgInv, BgTypeOK
<1>2. bg_db[d].open /\ ~bg_db[d].shutting
  BY <1>1 DEF BgInv, CallerInv
<1>3. /\ new \in [pc : CallPcs, left : Nat, done : BOOLEAN]
      /\ bg_call' = [bg_call EXCEPT ![c] = new]
      /\ new.left = bg_call[c].left /\ new.done = bg_call[c].done
      /\ new.pc \in {"flushing", "loop"}
  BY <1>1 DEF WaitForFlush, BgInv, BgTypeOK, CallPcs
<1>4. new.pc = "flushing" => bg_db[d].scheduled
  BY <1>1, <1>2 DEF BgInv, WorkInv, WorkToDo
<1>5. bg_db[d].manual # c
  BY <1>1, BackgroundAssumption DEF BgInv, ManualInv
<1>6. /\ bg_db' \in [DBs -> DBType] /\ bg_queue' \in Seq(DBs) /\ bg_thread' \in ThreadType
      /\ ItemInv' /\ AwakeInv' /\ WorkInv'
  BY <1>1 DEF BgInv, BgTypeOK, ItemInv, InProgress, AwakeInv, WorkInv
<1> HIDE DEF new, d
<1>7. QED
  BY <1>1, <1>2, <1>3, <1>4, <1>5, <1>6, ClientStep DEF d

\* TEST_CompactRange leaves, waits, or claims manual_compaction_ and waits.
LEMMA CompactRangeLoopStep ==
    ASSUME BgInv, NEW c \in Callers, CompactRangeLoop(c)
    PROVE  BgInv'
<1> DEFINE d == DBOf[c]
           ret == [bg_call[c] EXCEPT !.pc = "returned"]
           new == [bg_call[c] EXCEPT !.pc = "waiting"]
<1>1. /\ d \in DBs /\ bg_db[d] \in DBType /\ ~bg_crashed
      /\ bg_call[c].pc = "loop" /\ bg_crashed' = bg_crashed /\ bg_errors' = bg_errors
      /\ bg_call[c] \in [pc : CallPcs, left : Nat, done : BOOLEAN]
  BY BackgroundAssumption DEF CompactRangeLoop, Alive, BgInv, BgTypeOK
<1>2. bg_db[d].open /\ ~bg_db[d].shutting
  BY <1>1 DEF BgInv, CallerInv
<1>3. /\ new \in [pc : CallPcs, left : Nat, done : BOOLEAN] /\ new.pc = "waiting"
      /\ new.left = bg_call[c].left /\ new.done = bg_call[c].done
      /\ ret \in [pc : CallPcs, left : Nat, done : BOOLEAN] /\ ret.pc = "returned"
      /\ ret.left = bg_call[c].left /\ ret.done = bg_call[c].done
  BY <1>1 DEF CallPcs
<1>4. CASE MustStop(c, bg_db[d])
  <2> DEFINE y == [bg_db[d] EXCEPT !.manual = Withdrawn(@, c)]
  <2>1. /\ bg_call' = [bg_call EXCEPT ![c] = ret] /\ bg_db' = [bg_db EXCEPT ![d] = y]
        /\ bg_queue' = bg_queue /\ bg_thread' = bg_thread
    BY <1>4 DEF CompactRangeLoop, BgInv, BgTypeOK
  <2>2. /\ y \in DBType /\ y.open = bg_db[d].open /\ y.shutting = bg_db[d].shutting
        /\ y.error = bg_db[d].error /\ y.needs = bg_db[d].needs /\ y.imm = bg_db[d].imm
        /\ y.scheduled = bg_db[d].scheduled /\ y.manual = Withdrawn(bg_db[d].manual, c)
        /\ y.manual \in {None, bg_db[d].manual}
    BY <1>1 DEF DBType, Withdrawn
  <2> HIDE DEF y
  <2>3. /\ bg_db' \in [DBs -> DBType] /\ bg_db'[d] = y
        /\ \A e \in DBs \ {d} : bg_db'[e] = bg_db[e]
        /\ bg_queue' \in Seq(DBs) /\ bg_thread' \in ThreadType
    BY <1>1, <2>1, <2>2 DEF BgInv, BgTypeOK
  <2>4. ItemInv' /\ AwakeInv'
    BY <2>1, <2>2, <2>3 DEF BgInv, ItemInv, AwakeInv, InProgress
  <2>5. WorkInv'
    BY <1>1, <2>2, <2>3 DEF BgInv, WorkInv, WorkToDo
  <2>6. ret.left = 0 \/ bg_db[d].error
    BY <1>2, <1>3, <1>4 DEF MustStop, BgInv, CallerInv
  <2>7. \/ y.manual = bg_db[d].manual /\ bg_db[d].manual # c
        \/ y.manual = None /\ bg_db[d].manual = c /\ bg_db[d].error
    <3>1. CASE bg_db[d].manual # c
      BY <2>2, <3>1 DEF Withdrawn
    <3>2. CASE bg_db[d].manual = c
      <4>1. ~bg_call[c].done
        BY <1>1, <3>2, BackgroundAssumption DEF BgInv, ManualInv
      <4>2. QED
        BY <1>2, <1>4, <2>2, <3>2, <4>1 DEF MustStop, Withdrawn
    <3>3. QED
      BY <3>1, <3>2
  <2>8. /\ bg_db'[d].open /\ ~bg_db'[d].shutting /\ bg_db'[d].error = bg_db[d].error
        /\ bg_db'[d].needs = bg_db[d].needs /\ bg_db'[d].scheduled = bg_db[d].scheduled
        /\ \/ bg_db'[d].manual = bg_db[d].manual /\ bg_db[d].manual # c
           \/ bg_db'[d].manual = None /\ bg_db[d].manual = c /\ bg_db[d].error
    BY <1>2, <2>2, <2>3, <2>7
  <2> HIDE DEF d, ret
  <2>9. QED
    BY <1>1, <1>2, <1>3, <2>1, <2>3, <2>4, <2>5, <2>6, <2>8, ClientStep DEF d
<1>5. CASE ~MustStop(c, bg_db[d]) /\ bg_db[d].manual = None
  <2> DEFINE x == [bg_db[d] EXCEPT !.manual = c]
  <2>1. MaybeSchedule(d, x, bg_thread) /\ bg_call' = [bg_call EXCEPT ![c] = new]
    BY <1>5 DEF CompactRangeLoop, BgInv, BgTypeOK
  <2>2. /\ x \in DBType /\ x.open /\ x.scheduled = bg_db[d].scheduled /\ ~x.shutting
        /\ x.error = bg_db[d].error /\ x.needs = bg_db[d].needs /\ x.manual = c
        /\ ~bg_db[d].error /\ ~bg_call[c].done /\ WorkToDo(x)
    BY <1>1, <1>2, <1>5, BackgroundAssumption DEF DBType, MustStop, WorkToDo
  <2> HIDE DEF new, x
  <2>3. /\ bg_db' \in [DBs -> DBType] /\ bg_queue' \in Seq(DBs) /\ bg_thread' \in ThreadType
        /\ ItemInv' /\ AwakeInv' /\ WorkInv'
        /\ \A e \in DBs \ {d} : bg_db'[e] = bg_db[e]
        /\ Rescheduled(x, bg_db'[d])
        /\ bg_thread'.db = bg_thread.db /\ bg_thread'.manual = bg_thread.manual
        /\ IF bg_thread.pc \in Busy THEN bg_thread'.pc = bg_thread.pc
           ELSE bg_thread'.pc \notin Busy
    BY <1>1, <2>1, <2>2, ClientSchedules
  <2>4. /\ bg_db'[d].open /\ ~bg_db'[d].shutting /\ bg_db'[d].error = bg_db[d].error
        /\ bg_db'[d].needs = bg_db[d].needs /\ bg_db'[d].manual = c
        /\ bg_db'[d].scheduled
    BY <2>2, <2>3 DEF Rescheduled, DBType
  <2> HIDE DEF d
  <2>5. QED
    BY <1>1, <1>2, <1>3, <1>5, <2>1, <2>2, <2>3, <2>4, ClientStep DEF d
<1>6. CASE ~MustStop(c, bg_db[d]) /\ bg_db[d].manual # None
  <2>1. /\ bg_db' = bg_db /\ bg_queue' = bg_queue /\ bg_thread' = bg_thread
        /\ bg_call' = [bg_call EXCEPT ![c] = new]
    BY <1>6 DEF CompactRangeLoop, BgInv, BgTypeOK
  <2>2. /\ bg_db' \in [DBs -> DBType] /\ bg_queue' \in Seq(DBs) /\ bg_thread' \in ThreadType
        /\ ItemInv' /\ AwakeInv' /\ WorkInv'
    BY <2>1 DEF BgInv, BgTypeOK, ItemInv, InProgress, AwakeInv, WorkInv
  <2>3. bg_db[d].scheduled
    BY <1>1, <1>2, <1>6 DEF BgInv, WorkInv, WorkToDo, MustStop
  <2> HIDE DEF d, new
  <2>4. QED
    BY <1>1, <1>2, <1>3, <2>1, <2>2, <2>3, ClientStep DEF d
<1>7. QED
  BY <1>4, <1>5, <1>6

\* DB::Open ends.
LEMMA OpenStep ==
    ASSUME BgInv, NEW d \in DBs, OpenEnds(d)
    PROVE  BgInv'
<1> DEFINE x == [bg_db[d] EXCEPT !.open = TRUE]
<1>1. /\ bg_db[d] \in DBType /\ ~bg_db[d].open /\ ~bg_db[d].shutting /\ ~bg_crashed
      /\ MaybeSchedule(d, x, bg_thread)
      /\ bg_call' = bg_call /\ bg_errors' = bg_errors /\ bg_crashed' = bg_crashed
  BY DEF OpenEnds, BgInv, BgTypeOK
<1>2. /\ x \in DBType /\ x.open /\ x.scheduled = bg_db[d].scheduled
      /\ x.shutting = bg_db[d].shutting
      /\ x.error = bg_db[d].error /\ x.needs = bg_db[d].needs /\ x.manual = bg_db[d].manual
  BY <1>1 DEF DBType
<1> HIDE DEF x
<1>3. /\ bg_db' \in [DBs -> DBType] /\ bg_queue' \in Seq(DBs) /\ bg_thread' \in ThreadType
      /\ ItemInv' /\ AwakeInv' /\ WorkInv'
      /\ \A e \in DBs \ {d} : bg_db'[e] = bg_db[e]
      /\ Rescheduled(x, bg_db'[d])
      /\ bg_thread'.db = bg_thread.db /\ bg_thread'.manual = bg_thread.manual
      /\ IF bg_thread.pc \in Busy THEN bg_thread'.pc = bg_thread.pc
         ELSE bg_thread'.pc \notin Busy
  BY <1>1, <1>2, ClientSchedules
<1>4. /\ bg_db'[d].open /\ bg_db'[d].shutting = bg_db[d].shutting
      /\ bg_db'[d].error = bg_db[d].error /\ bg_db'[d].needs = bg_db[d].needs
      /\ bg_db'[d].manual = bg_db[d].manual /\ (bg_db[d].scheduled => bg_db'[d].scheduled)
  BY <1>2, <1>3 DEF Rescheduled, DBType
<1>5. BgTypeOK'
  BY <1>1, <1>3 DEF BgInv, BgTypeOK
<1>6. CallerInv'
  BY <1>1, <1>3, <1>4, BackgroundAssumption DEF BgInv, CallerInv
<1>7. ManualInv'
  <2>1. ManualInv /\ \A e \in DBs : bg_db'[e].manual = bg_db[e].manual
    BY <1>3, <1>4 DEF BgInv
  <2>2. QED
    BY <1>1, <2>1 DEF ManualInv
<1>8. CompactingInv'
  <2> SUFFICES ASSUME bg_thread'.pc = "compacting"
               PROVE  CompactingInv'
    BY DEF CompactingInv
  <2>1. bg_thread.pc = "compacting" /\ bg_thread.db \in DBs
    BY <1>3 DEF BgInv, ItemInv, Busy
  <2>2. LET e == bg_thread.db IN
        /\ bg_db'[e].manual = bg_db[e].manual /\ bg_db'[e].error = bg_db[e].error
        /\ bg_db'[e].shutting = bg_db[e].shutting /\ bg_db'[e].needs = bg_db[e].needs
    BY <1>3, <1>4, <2>1
  <2>3. CompactingInv
    BY DEF BgInv
  <2>4. QED
    BY <1>1, <1>3, <2>1, <2>2, <2>3 DEF CompactingInv
<1>9. CrashInv'
  BY <1>1 DEF CrashInv
<1>10. QED
  BY <1>3, <1>5, <1>6, <1>7, <1>8, <1>9 DEF BgInv

\* An error is recorded outside a compaction of the same database, or inside it with the
\* memtable flushed or not: flags of the database and a SignalAll, no scheduling.
LEMMA FlagsStep ==
    ASSUME BgInv, ~bg_crashed, bg_crashed' = bg_crashed, bg_errors' \in Nat,
           NEW d \in DBs, NEW x \in DBType, bg_db' = [bg_db EXCEPT ![d] = x],
           bg_call' = SignalWaiters(d, bg_call),
           bg_queue' = bg_queue, bg_thread' = bg_thread,
           x.open = bg_db[d].open, x.shutting = bg_db[d].shutting, x.needs = bg_db[d].needs,
           x.manual = bg_db[d].manual, x.scheduled = bg_db[d].scheduled,
           bg_db[d].error => x.error, x.error \/ (x.imm => bg_db[d].imm)
    PROVE  BgInv'
<1>1. /\ bg_db' \in [DBs -> DBType] /\ bg_db'[d] = x
      /\ \A e \in DBs \ {d} : bg_db'[e] = bg_db[e]
  BY DEF BgInv, BgTypeOK
<1>2. /\ bg_call' \in [Callers -> [pc : CallPcs, left : Nat, done : BOOLEAN]]
      /\ \A c \in Callers :
           /\ bg_call'[c].left = bg_call[c].left /\ bg_call'[c].done = bg_call[c].done
           /\ DBOf[c] # d => bg_call'[c] = bg_call[c]
           /\ DBOf[c] = d => bg_call'[c].pc \notin {"waiting", "flushing"}
           /\ bg_call[c].pc = "waiting" => bg_call'[c].pc \in {"waiting", "loop"}
           /\ bg_call[c].pc = "flushing" => bg_call'[c].pc \in {"flushing", "flushloop"}
           /\ bg_call[c].pc \notin {"waiting", "flushing"} => bg_call'[c] = bg_call[c]
  <2>1. bg_call \in [Callers -> [pc : CallPcs, left : Nat, done : BOOLEAN]]
    BY DEF BgInv, BgTypeOK
  <2>2. bg_call' \in [Callers -> [pc : CallPcs, left : Nat, done : BOOLEAN]]
    BY <2>1 DEF SignalWaiters, CallPcs
  <2>3. QED
    BY <2>1, <2>2, SignalEffect
<1>3. BgTypeOK'
  BY <1>1, <1>2 DEF BgInv, BgTypeOK
<1>4. ItemInv' /\ AwakeInv'
  BY <1>1 DEF BgInv, ItemInv, InProgress, AwakeInv
<1>5. WorkInv'
  BY <1>1 DEF BgInv, WorkInv, WorkToDo
<1>6. CallerInv'
  <2> SUFFICES ASSUME NEW c \in Callers
               PROVE  LET z == bg_db'[DBOf[c]]
                      IN  /\ bg_call'[c].pc \notin {"idle", "returned"} => z.open /\ ~z.shutting
                          /\ bg_call'[c].pc \in {"waiting", "flushing"} => z.scheduled
                          /\ bg_call'[c].done => bg_call'[c].left = 0 \/ z.error
                          /\ bg_call'[c].pc = "returned" => bg_call'[c].left = 0 \/ z.error
    BY DEF CallerInv
  <2>1. CASE DBOf[c] # d
    BY <1>1, <1>2, <2>1, BackgroundAssumption DEF BgInv, CallerInv
  <2>2. CASE DBOf[c] = d
    BY <1>1, <1>2, <2>2 DEF BgInv, CallerInv
  <2>3. QED
    BY <2>1, <2>2
<1>7. ManualInv'
  <2> SUFFICES ASSUME NEW e \in DBs, bg_db'[e].manual # None
               PROVE  /\ DBOf[bg_db'[e].manual] = e
                      /\ bg_call'[bg_db'[e].manual].pc \in {"waiting", "loop"}
                      /\ ~bg_call'[bg_db'[e].manual].done
    BY DEF ManualInv
  <2>1. bg_db'[e].manual \in Callers /\ bg_db'[e].manual = bg_db[e].manual
    BY <1>1, <1>3 DEF BgTypeOK, DBType
  <2>2. QED
    BY <1>2, <2>1 DEF BgInv, ManualInv
<1>8. CompactingInv'
  <2> SUFFICES ASSUME bg_thread.pc = "compacting"
               PROVE  LET z == bg_db'[bg_thread.db] IN
                      IF bg_thread.manual
                      THEN IF z.manual = None THEN z.error \/ z.shutting
                           ELSE bg_call'[z.manual].left > 0
                      ELSE z.needs > 0
    BY DEF CompactingInv
  <2>1. bg_thread.db \in DBs
    BY DEF BgInv, ItemInv, Busy
  <2>2. bg_db[bg_thread.db].manual # None => bg_db[bg_thread.db].manual \in Callers
    BY <2>1 DEF BgInv, BgTypeOK, DBType
  <2>3. QED
    BY <1>1, <1>2, <2>1, <2>2 DEF BgInv, CompactingInv
<1>9. QED
  BY <1>3, <1>4, <1>5, <1>6, <1>7, <1>8 DEF BgInv, CrashInv

\* Write records the failure of a Sync.
LEMMA WriteFailsStep ==
    ASSUME BgInv, NEW d \in DBs, WriteFails(d)
    PROVE  BgInv'
<1> DEFINE x == [bg_db[d] EXCEPT !.error = TRUE]
<1>1. /\ ~bg_crashed /\ bg_crashed' = bg_crashed /\ bg_errors' \in Nat
      /\ bg_db[d] \in DBType /\ bg_db' = [bg_db EXCEPT ![d] = x]
      /\ bg_call' = SignalWaiters(d, bg_call) /\ bg_queue' = bg_queue /\ bg_thread' = bg_thread
  BY DEF WriteFails, Alive, BgInv, BgTypeOK
<1>2. /\ x \in DBType /\ x.open = bg_db[d].open /\ x.shutting = bg_db[d].shutting
      /\ x.needs = bg_db[d].needs /\ x.manual = bg_db[d].manual
      /\ x.scheduled = bg_db[d].scheduled /\ x.error
  BY <1>1 DEF DBType
<1> HIDE DEF x
<1>3. QED
  BY <1>1, <1>2, FlagsStep

\* SU_flush_data flushes during a compaction.
LEMMA FlushDuringCompactionStep ==
    ASSUME BgInv, NEW ok \in BOOLEAN, FlushDuringCompaction(ok)
    PROVE  BgInv'
<1> DEFINE d == bg_thread.db
           x == Flushed(bg_db[d], ok)
<1>1. d \in DBs
  BY DEF FlushDuringCompaction, BgInv, ItemInv, Busy
<1>2. /\ ~bg_crashed /\ bg_crashed' = bg_crashed /\ bg_errors' \in Nat
      /\ bg_db[d] \in DBType /\ bg_db' = [bg_db EXCEPT ![d] = x]
      /\ bg_call' = SignalWaiters(d, bg_call) /\ bg_queue' = bg_queue /\ bg_thread' = bg_thread
      /\ bg_db[d].imm
  BY <1>1 DEF FlushDuringCompaction, Outcome, BgInv, BgTypeOK
<1>3. /\ x \in DBType /\ x.open = bg_db[d].open /\ x.shutting = bg_db[d].shutting
      /\ x.needs = bg_db[d].needs /\ x.manual = bg_db[d].manual
      /\ x.scheduled = bg_db[d].scheduled /\ (bg_db[d].error => x.error)
  BY <1>2 DEF DBType, Flushed
<1> HIDE DEF x, d
<1>4. QED
  BY <1>1, <1>2, <1>3, FlagsStep

\* The destructor begins: no caller is in a call, so nobody owns a manual compaction.
LEMMA DestructorBeginsStep ==
    ASSUME BgInv, NEW d \in DBs, DestructorBegins(d)
    PROVE  BgInv'
<1> DEFINE x == [bg_db[d] EXCEPT !.shutting = TRUE]
<1>1. /\ ~bg_crashed /\ bg_crashed' = bg_crashed /\ bg_errors' = bg_errors
      /\ bg_db[d] \in DBType /\ bg_db' = [bg_db EXCEPT ![d] = x]
      /\ bg_call' = bg_call /\ bg_queue' = bg_queue /\ bg_thread' = bg_thread
      /\ \A c \in Callers : DBOf[c] = d => bg_call[c].pc \in {"idle", "returned"}
  BY DEF DestructorBegins, Shutdown, Alive, BgInv, BgTypeOK
<1>2. /\ x \in DBType /\ x.open = bg_db[d].open /\ x.shutting /\ x.imm = bg_db[d].imm
      /\ x.needs = bg_db[d].needs /\ x.manual = bg_db[d].manual
      /\ x.scheduled = bg_db[d].scheduled /\ x.error = bg_db[d].error
  BY <1>1 DEF DBType
<1> HIDE DEF x
<1>3. /\ bg_db' \in [DBs -> DBType] /\ bg_db'[d] = x
      /\ \A e \in DBs \ {d} : bg_db'[e] = bg_db[e]
  BY <1>1, <1>2 DEF BgInv, BgTypeOK
<1>4. BgTypeOK'
  BY <1>1, <1>3 DEF BgInv, BgTypeOK
<1>5. ItemInv' /\ AwakeInv'
  BY <1>1, <1>2, <1>3 DEF BgInv, ItemInv, InProgress, AwakeInv
<1>6. WorkInv'
  BY <1>2, <1>3 DEF BgInv, WorkInv
<1>7. CallerInv'
  BY <1>1, <1>2, <1>3, BackgroundAssumption DEF BgInv, CallerInv
<1>8. ManualInv'
  BY <1>1, <1>2, <1>3 DEF BgInv, ManualInv
<1>9. CompactingInv'
  BY <1>1, <1>2, <1>3 DEF BgInv, CompactingInv, ItemInv, Busy
<1>10. QED
  BY <1>1, <1>4, <1>5, <1>6, <1>7, <1>8, <1>9 DEF BgInv, CrashInv

\* The destructor ends: nothing of the database is queued or running.
LEMMA DestructorEndsStep ==
    ASSUME BgInv, NEW d \in DBs, DestructorEnds(d)
    PROVE  BgInv'
<1> DEFINE x == [bg_db[d] EXCEPT !.open = FALSE]
<1>1. /\ ~bg_crashed /\ bg_crashed' = bg_crashed /\ bg_errors' = bg_errors
      /\ bg_db[d] \in DBType /\ bg_db' = [bg_db EXCEPT ![d] = x]
      /\ bg_call' = bg_call /\ bg_queue' = bg_queue /\ bg_thread' = bg_thread
      /\ bg_db[d].shutting /\ ~bg_db[d].scheduled
  BY DEF DestructorEnds, DestructorMayEnd, Alive, BgInv, BgTypeOK
<1>2. /\ x \in DBType /\ ~x.open /\ x.shutting
      /\ x.needs = bg_db[d].needs /\ x.manual = bg_db[d].manual
      /\ ~x.scheduled /\ x.error = bg_db[d].error
  BY <1>1 DEF DBType
<1> HIDE DEF x
<1>3. /\ bg_db' \in [DBs -> DBType] /\ bg_db'[d] = x
      /\ \A e \in DBs \ {d} : bg_db'[e] = bg_db[e]
  BY <1>1, <1>2 DEF BgInv, BgTypeOK
<1>4. BgTypeOK'
  BY <1>1, <1>3 DEF BgInv, BgTypeOK
<1>5. ItemInv' /\ AwakeInv'
  BY <1>1, <1>2, <1>3 DEF BgInv, ItemInv, InProgress, AwakeInv
<1>6. WorkInv'
  BY <1>2, <1>3 DEF BgInv, WorkInv
<1>7. CallerInv'
  BY <1>1, <1>2, <1>3, BackgroundAssumption DEF BgInv, CallerInv
<1>8. ManualInv'
  BY <1>1, <1>2, <1>3 DEF BgInv, ManualInv
<1>9. CompactingInv'
  BY <1>1, <1>2, <1>3 DEF BgInv, CompactingInv, ItemInv, Busy
<1>10. QED
  BY <1>1, <1>4, <1>5, <1>6, <1>7, <1>8, <1>9 DEF BgInv, CrashInv

\* The thread takes the front item, or goes to sleep over an empty queue.
LEMMA BGThreadStep ==
    ASSUME BgInv, BGThread
    PROVE  BgInv'
<1>1. /\ bg_thread.pc = "free" /\ ~bg_crashed /\ bg_crashed' = bg_crashed
      /\ bg_errors' = bg_errors /\ bg_db' = bg_db /\ bg_call' = bg_call
      /\ bg_queue \in Seq(DBs) /\ bg_thread \in ThreadType /\ bg_thread.db \notin DBs
  BY DEF BGThread, BgInv, BgTypeOK, ItemInv, Busy
<1>2. CASE bg_queue = <<>>
  <2>1. bg_queue' = bg_queue /\ bg_thread' = [bg_thread EXCEPT !.pc = "wait"]
    BY <1>2 DEF BGThread
  <2>2. bg_thread' \in ThreadType /\ bg_thread'.pc = "wait" /\ bg_thread'.db = bg_thread.db
    BY <1>1, <2>1 DEF ThreadType
  <2>3. ItemInv'
    BY <1>1, <2>1, <2>2 DEF BgInv, ItemInv, InProgress, Busy
  <2>4. QED
    BY <1>1, <1>2, <2>1, <2>2, <2>3
       DEF BgInv, BgTypeOK, AwakeInv, WorkInv, CallerInv, ManualInv, CompactingInv, CrashInv
<1>3. CASE bg_queue # <<>>
  <2>1. /\ bg_queue' = Tail(bg_queue)
        /\ bg_thread' = [pc |-> "work", db |-> Head(bg_queue), manual |-> FALSE]
    BY <1>3 DEF BGThread
  <2>2. /\ Head(bg_queue) = bg_queue[1] /\ 1 \in DOMAIN bg_queue /\ bg_queue[1] \in DBs
        /\ bg_queue' \in Seq(DBs)
        /\ \A i \in DOMAIN bg_queue' : i + 1 \in DOMAIN bg_queue /\ bg_queue'[i] = bg_queue[i + 1]
                                       /\ i + 1 # 1 /\ i \in Nat
        /\ \A i \in DOMAIN bg_queue : i # 1 => i - 1 \in DOMAIN bg_queue'
                                               /\ bg_queue'[i - 1] = bg_queue[i]
    BY <1>1, <1>3, <2>1
  <2>3. bg_thread' \in ThreadType /\ bg_thread'.pc = "work" /\ bg_thread'.db = bg_queue[1]
    BY <2>1, <2>2 DEF ThreadType
  <2>4. ItemInv'
    <3>1. (bg_thread.db \in DBs <=> bg_thread.pc \in Busy)'
      BY <2>2, <2>3 DEF Busy
    <3>2. \A i \in DOMAIN bg_queue' : bg_queue'[i] # bg_thread'.db
      BY <2>2, <2>3 DEF BgInv, ItemInv
    <3>3. \A i, j \in DOMAIN bg_queue' : bg_queue'[i] = bg_queue'[j] => i = j
      <4> TAKE i, j \in DOMAIN bg_queue'
      <4>1. bg_queue'[i] = bg_queue'[j] => i + 1 = j + 1
        BY <2>2 DEF BgInv, ItemInv
      <4>2. QED
        BY <2>2, <4>1
    <3>4. ASSUME NEW d \in DBs
          PROVE  InProgress(d)' <=> InProgress(d)
      <4>1. ASSUME InProgress(d)
            PROVE  InProgress(d)'
        BY <1>1, <2>2, <2>3, <4>1 DEF InProgress
      <4>2. ASSUME InProgress(d)'
            PROVE  InProgress(d)
        BY <2>2, <2>3, <4>2 DEF InProgress
      <4>3. QED
        BY <4>1, <4>2
    <3>5. QED
      BY <1>1, <3>1, <3>2, <3>3, <3>4 DEF BgInv, ItemInv
  <2>5. QED
    BY <1>1, <2>2, <2>3, <2>4
       DEF BgInv, BgTypeOK, AwakeInv, WorkInv, CallerInv, ManualInv, CompactingInv, CrashInv
<1>4. QED
  BY <1>2, <1>3

\* A wait that ends without a signal.
LEMMA SpuriousWakeupStep ==
    ASSUME BgInv, SpuriousWakeup
    PROVE  BgInv'
<1>1. /\ bg_thread.pc = "wait" /\ ~bg_crashed /\ bg_crashed' = bg_crashed
      /\ bg_errors' = bg_errors /\ bg_db' = bg_db /\ bg_call' = bg_call /\ bg_queue' = bg_queue
      /\ bg_thread' = [bg_thread EXCEPT !.pc = "free"] /\ bg_thread \in ThreadType
  BY DEF SpuriousWakeup, BgInv, BgTypeOK
<1>2. bg_thread' \in ThreadType /\ bg_thread'.pc = "free" /\ bg_thread'.db = bg_thread.db
  BY <1>1 DEF ThreadType
<1>3. ItemInv'
  BY <1>1, <1>2 DEF BgInv, ItemInv, InProgress, Busy
<1>4. QED
  BY <1>1, <1>2, <1>3
     DEF BgInv, BgTypeOK, AwakeInv, WorkInv, CallerInv, ManualInv, CompactingInv, CrashInv

\* BackgroundCall finds nothing to do or an exhausted range, or begins to work.
LEMMA BackgroundCallStep ==
    ASSUME BgInv, BackgroundCall
    PROVE  BgInv'
<1> DEFINE d == bg_thread.db
           x == bg_db[d]
           m == x.manual
           stop == x.shutting \/ x.error
           exhausted == ~x.imm /\ m # None /\ bg_call[m].left = 0
<1>1. /\ bg_thread.pc = "work" /\ ~bg_crashed /\ bg_crashed' = bg_crashed
      /\ bg_errors' = bg_errors /\ bg_errors \in Nat
  BY DEF BackgroundCall, BgInv, BgTypeOK
<1>2. /\ d \in DBs /\ x \in DBType /\ bg_thread.pc \in Busy
      /\ bg_call \in [Callers -> [pc : CallPcs, left : Nat, done : BOOLEAN]]
  BY <1>1 DEF BgInv, BgTypeOK, ItemInv, Busy
<1>3. \A c \in Callers : DBOf[c] = d =>
          (bg_call[c].done \/ bg_call[c].pc = "returned" => bg_call[c].left = 0 \/ x.error)
  BY DEF BgInv, CallerInv
<1>4. CASE (stop \/ ~WorkToDo(x)) /\ FinishCall(d, x, bg_call)
  <2> HIDE DEF d
  <2>1. QED
    BY <1>1, <1>2, <1>3, <1>4, FinishStep DEF d
<1>5. CASE ~stop /\ exhausted
           /\ FinishCall(d, [x EXCEPT !.manual = None], [bg_call EXCEPT ![m].done = TRUE])
  <2> DEFINE y == [x EXCEPT !.manual = None]
             call == [bg_call EXCEPT ![m].done = TRUE]
  <2>1. m \in Callers /\ DBOf[m] = d
    BY <1>2, <1>5 DEF DBType, BgInv, ManualInv
  <2>2. /\ y \in DBType /\ y.open = x.open /\ y.shutting = x.shutting /\ y.error = x.error
        /\ y.manual = None
    BY <1>2 DEF DBType
  <2>3. /\ call \in [Callers -> [pc : CallPcs, left : Nat, done : BOOLEAN]]
        /\ \A c \in Callers : call[c].pc = bg_call[c].pc /\ call[c].left = bg_call[c].left
                              /\ (c # m => call[c] = bg_call[c])
    BY <1>2, <2>1
  <2>4. FinishCall(d, y, call) /\ bg_call[m].left = 0
    BY <1>5
  <2> HIDE DEF y, call, x
  <2>5. \A c \in Callers : DBOf[c] = d =>
           (call[c].done \/ call[c].pc = "returned" => call[c].left = 0 \/ y.error)
    BY <1>3, <2>2, <2>3, <2>4
  <2>6. \A c \in Callers : DBOf[c] # d => call[c] = bg_call[c]
    BY <2>1, <2>3
  <2> HIDE DEF d
  <2>7. QED
    BY <1>1, <1>2, <2>2, <2>3, <2>4, <2>5, <2>6, FinishStep DEF d, x
<1>6. CASE /\ ~stop /\ WorkToDo(x) /\ ~exhausted
           /\ bg_thread' = [pc |-> IF x.imm THEN "flushing" ELSE "compacting",
                            db |-> d, manual |-> ~x.imm /\ m # None]
           /\ UNCHANGED <<bg_db, bg_call, bg_queue>>
  <2>1. /\ bg_thread' \in ThreadType /\ bg_thread'.db = d /\ bg_thread'.pc \in Busy
        /\ bg_thread'.pc = "compacting" => ~x.imm
        /\ bg_thread'.manual <=> ~x.imm /\ m # None
    BY <1>2, <1>6, Zenon DEF ThreadType, Busy
  <2>2. ItemInv' /\ AwakeInv'
    BY <1>1, <1>2, <1>6, <2>1 DEF BgInv, ItemInv, InProgress, AwakeInv, Busy
  <2>3. CompactingInv'
    <3>1. m # None => m \in Callers
      BY <1>2 DEF DBType
    <3>2. QED
      BY <1>2, <1>6, <2>1, <3>1 DEF CompactingInv, WorkToDo, DBType
  <2>4. QED
    BY <1>1, <1>6, <2>1, <2>2, <2>3
       DEF BgInv, BgTypeOK, WorkInv, CallerInv, ManualInv, CrashInv
<1>7. QED
  BY <1>4, <1>5, <1>6 DEF BackgroundCall

\* CompactMemTable has written its table, or failed to.
LEMMA FlushEndsStep ==
    ASSUME BgInv, NEW ok \in BOOLEAN, FlushEnds(ok)
    PROVE  BgInv'
<1> DEFINE d == bg_thread.db
           x == Flushed(bg_db[d], ok)
<1>1. /\ bg_thread.pc = "flushing" /\ ~bg_crashed /\ bg_crashed' = bg_crashed
      /\ bg_thread.pc \in Busy /\ d \in DBs /\ FinishCall(d, x, bg_call)
  BY DEF FlushEnds, BgInv, ItemInv, Busy
<1>2. /\ bg_errors' \in Nat /\ bg_db[d] \in DBType
      /\ bg_call \in [Callers -> [pc : CallPcs, left : Nat, done : BOOLEAN]]
  BY <1>1 DEF FlushEnds, Outcome, BgInv, BgTypeOK
<1>3. /\ x \in DBType /\ x.open = bg_db[d].open /\ x.shutting = bg_db[d].shutting
      /\ (bg_db[d].error => x.error) /\ x.manual = bg_db[d].manual
  BY <1>2 DEF DBType, Flushed
<1>4. \A c \in Callers : DBOf[c] = d =>
          (bg_call[c].done \/ bg_call[c].pc = "returned" => bg_call[c].left = 0 \/ x.error)
  BY <1>3 DEF BgInv, CallerInv
<1> HIDE DEF x, d
<1>5. QED
  BY <1>1, <1>2, <1>3, <1>4, FinishStep DEF d

\* A compaction ends: the NULL manual_compaction_, its own one, or none.
LEMMA CompactionEndsStep ==
    ASSUME BgInv, NEW ok \in BOOLEAN, CompactionEnds(ok)
    PROVE  BgInv'
<1> DEFINE d == bg_thread.db
           x == [bg_db[d] EXCEPT !.error = @ \/ ~ok]
           m == x.manual
<1>1. /\ bg_thread.pc = "compacting" /\ ~bg_crashed /\ bg_thread.pc \in Busy /\ d \in DBs
  BY DEF CompactionEnds, BgInv, ItemInv, Busy
<1>2. /\ bg_errors' \in Nat /\ bg_db[d] \in DBType
      /\ bg_call \in [Callers -> [pc : CallPcs, left : Nat, done : BOOLEAN]]
  BY <1>1 DEF CompactionEnds, Outcome, BgInv, BgTypeOK
<1>3. /\ x \in DBType /\ x.open = bg_db[d].open /\ x.shutting = bg_db[d].shutting
      /\ (bg_db[d].error \/ ~ok => x.error) /\ x.manual = bg_db[d].manual
      /\ x.needs = bg_db[d].needs /\ m \in Callers \cup {None}
  BY <1>2 DEF DBType
<1>4. \A c \in Callers : DBOf[c] = d =>
          (bg_call[c].done \/ bg_call[c].pc = "returned" => bg_call[c].left = 0 \/ x.error)
  BY <1>3 DEF BgInv, CallerInv
<1>5. CASE /\ bg_thread.manual /\ m = None /\ bg_crashed' = TRUE
           /\ UNCHANGED <<bg_db, bg_call, bg_queue, bg_thread>>
  <2>1. bg_db[d].error \/ bg_db[d].shutting
    BY <1>1, <1>3, <1>5 DEF BgInv, CompactingInv
  <2>2. CrashInv'
    BY <1>1, <1>5, <2>1 DEF CrashInv, CancelledOnlyOnStop
  <2>3. QED
    BY <1>2, <1>5, <2>2 DEF BgInv, BgTypeOK, ItemInv, InProgress, AwakeInv, WorkInv,
       CallerInv, ManualInv, CompactingInv
<1>6. CASE /\ bg_thread.manual /\ m # None
           /\ FinishCall(d, [x EXCEPT !.manual = None],
                     [bg_call EXCEPT ![m].done = ~ok, ![m].left = IF ok THEN @ - 1 ELSE @])
           /\ UNCHANGED bg_crashed
  <2> DEFINE y == [x EXCEPT !.manual = None]
             call == [bg_call EXCEPT ![m].done = ~ok, ![m].left = IF ok THEN @ - 1 ELSE @]
  <2>1. m \in Callers /\ DBOf[m] = d /\ bg_call[m].left \in Nat /\ bg_call[m].left > 0
        /\ bg_call[m].pc # "returned"
    BY <1>1, <1>2, <1>3, <1>6 DEF BgInv, ManualInv, CompactingInv
  <2>2. /\ y \in DBType /\ y.open = x.open /\ y.shutting = x.shutting /\ y.error = x.error
        /\ y.manual = None
    BY <1>3 DEF DBType
  <2>3. /\ call \in [Callers -> [pc : CallPcs, left : Nat, done : BOOLEAN]]
        /\ \A c \in Callers : call[c].pc = bg_call[c].pc /\ (c # m => call[c] = bg_call[c])
        /\ call[m].done = ~ok
    <3>1. bg_call[m].left - 1 \in Nat
      BY <2>1
    <3> DEFINE n == IF ok THEN bg_call[m].left - 1 ELSE bg_call[m].left
               new == [[bg_call[m] EXCEPT !.done = ~ok] EXCEPT !.left = n]
    <3>2. n \in Nat
      BY <2>1, <3>1
    <3> HIDE DEF n
    <3>3. /\ new \in [pc : CallPcs, left : Nat, done : BOOLEAN] /\ new.pc = bg_call[m].pc
          /\ new.done = ~ok
      BY <1>2, <2>1, <3>2
    <3>4. /\ DOMAIN call = Callers /\ call[m] = new
          /\ \A c \in Callers : c # m => call[c] = bg_call[c]
      <4> DEFINE one == [bg_call EXCEPT ![m] = [bg_call[m] EXCEPT !.done = ~ok]]
      <4>1. /\ DOMAIN one = Callers /\ one[m] = [bg_call[m] EXCEPT !.done = ~ok]
            /\ \A c \in Callers : c # m => one[c] = bg_call[c]
        BY <1>2, <2>1
      <4>2. one[m].left = bg_call[m].left
        BY <1>2, <2>1, <4>1
      <4>3. call = [one EXCEPT ![m] = [one[m] EXCEPT
                        !.left = IF ok THEN one[m].left - 1 ELSE one[m].left]]
        OBVIOUS
      <4> HIDE DEF one, call
      <4>4. QED
        BY <2>1, <4>1, <4>2, <4>3 DEF n
    <3>5. call = [c \in Callers |-> call[c]]
      BY <3>4, Zenon
    <3> HIDE DEF new, call
    <3>6. QED
      BY <1>2, <2>1, <3>3, <3>4, <3>5
  <2>4. FinishCall(d, y, call) /\ bg_crashed' = bg_crashed
    BY <1>6
  <2> HIDE DEF y, call, x, m
  <2>5. \A c \in Callers : DBOf[c] = d =>
           (call[c].done \/ call[c].pc = "returned" => call[c].left = 0 \/ y.error)
    BY <1>3, <1>4, <2>1, <2>2, <2>3
  <2>6. \A c \in Callers : DBOf[c] # d => call[c] = bg_call[c]
    BY <2>1, <2>3
  <2>7. y.open = bg_db[d].open /\ y.shutting = bg_db[d].shutting /\ (bg_db[d].error => y.error)
    BY <1>3, <2>2
  <2> HIDE DEF d
  <2>8. QED
    BY <1>1, <1>2, <2>2, <2>3, <2>4, <2>5, <2>6, <2>7, FinishStep DEF d
<1>7. CASE /\ ~bg_thread.manual
           /\ FinishCall(d, [x EXCEPT !.needs = IF ok THEN @ - 1 ELSE @], bg_call)
           /\ UNCHANGED bg_crashed
  <2> DEFINE y == [x EXCEPT !.needs = IF ok THEN @ - 1 ELSE @]
  <2>1. x.needs \in Nat /\ x.needs > 0
    BY <1>1, <1>2, <1>3, <1>7 DEF BgInv, CompactingInv, DBType
  <2>2. /\ y \in DBType /\ y.open = x.open /\ y.shutting = x.shutting /\ y.error = x.error
        /\ y.manual = x.manual
    <3> DEFINE n == IF ok THEN x.needs - 1 ELSE x.needs
    <3>1. n \in Nat
      BY <2>1
    <3>2. y = [x EXCEPT !.needs = n]
      BY <1>3 DEF DBType
    <3> HIDE DEF n, y, x
    <3>3. QED
      BY <1>3, <3>1, <3>2 DEF DBType
  <2>3. FinishCall(d, y, bg_call) /\ bg_crashed' = bg_crashed
    BY <1>7
  <2> HIDE DEF y, x, m
  <2>4. /\ y.open = bg_db[d].open /\ y.shutting = bg_db[d].shutting
        /\ (bg_db[d].error => y.error) /\ y.manual = bg_db[d].manual
        /\ \A c \in Callers : DBOf[c] = d =>
             (bg_call[c].done \/ bg_call[c].pc = "returned" => bg_call[c].left = 0 \/ y.error)
    BY <1>3, <1>4, <2>2
  <2> HIDE DEF d
  <2>5. QED
    BY <1>1, <1>2, <2>2, <2>3, <2>4, FinishStep DEF d
<1>8. QED
  BY <1>5, <1>6, <1>7 DEF CompactionEnds

-----------------------------------------------------------------------------
(* The invariant, and what it says *)

\* The invariant holds when the databases are opened.
LEMMA BgInitInv == BackgroundInit => BgInv
<1> SUFFICES ASSUME BackgroundInit
             PROVE  BgInv
  OBVIOUS
<1>1. None \notin DBs /\ None \notin Callers /\ DBOf \in [Callers -> DBs] /\ MaxNeeds \in Nat
      /\ Pieces \in Nat
  BY BackgroundAssumption
<1>2. BgTypeOK
  <2>1. bg_db \in [DBs -> DBType]
    BY <1>1 DEF BackgroundInit, DBType
  <2>2. bg_call \in [Callers -> [pc : CallPcs, left : Nat, done : BOOLEAN]]
    BY <1>1 DEF BackgroundInit, CallPcs
  <2>3. QED
    <3>1. bg_thread \in ThreadType /\ bg_queue \in Seq(DBs)
      BY DEF BackgroundInit, ThreadType
    <3>2. QED
      BY <2>1, <2>2, <3>1 DEF BackgroundInit, BgTypeOK
<1>3. ItemInv
  BY <1>1 DEF BackgroundInit, ItemInv, InProgress, Busy
<1>4. AwakeInv /\ WorkInv /\ ManualInv /\ CompactingInv /\ CrashInv
  BY <1>1 DEF BackgroundInit, AwakeInv, WorkInv, ManualInv, CompactingInv, CrashInv
<1>5. CallerInv
  BY <1>1 DEF BackgroundInit, CallerInv
<1>6. QED
  BY <1>2, <1>3, <1>4, <1>5 DEF BgInv

\* Every step of a background thread or a caller keeps the invariant.
LEMMA BgStep == BgInv /\ [BackgroundNext]_bg_vars => BgInv'
<1> SUFFICES ASSUME BgInv, [BackgroundNext]_bg_vars
             PROVE  BgInv'
  OBVIOUS
<1>1. CASE \E c \in Callers : Compact(c) \/ WaitForFlush(c) \/ CompactRangeLoop(c)
  BY <1>1, CompactStep, WaitForFlushStep, CompactRangeLoopStep
<1>2. CASE \E d \in DBs : OpenEnds(d) \/ WriteFails(d) \/ DestructorBegins(d) \/ DestructorEnds(d)
  BY <1>2, OpenStep, WriteFailsStep, DestructorBeginsStep, DestructorEndsStep
<1>3. CASE SpuriousWakeup
  BY <1>3, SpuriousWakeupStep
<1>4. CASE BackgroundThread
  BY <1>4, BGThreadStep, BackgroundCallStep, FlushEndsStep, FlushDuringCompactionStep,
     CompactionEndsStep DEF BackgroundThread
<1>5. CASE UNCHANGED bg_vars
  BY <1>5 DEF bg_vars, BgInv, BgTypeOK, ItemInv, InProgress, AwakeInv, WorkInv, CallerInv,
     ManualInv, CompactingInv, CrashInv, CancelledOnlyOnStop
<1>6. QED
  BY <1>1, <1>2, <1>3, <1>4, <1>5 DEF BackgroundNext

\* The invariant gives BackgroundSound.
LEMMA BgInvSound == BgInv => BackgroundSound
<1> SUFFICES ASSUME BgInv
             PROVE  BackgroundSound
  OBVIOUS
<1>1. ASSUME NEW d \in DBs
      PROVE  Cardinality({i \in DOMAIN bg_queue : bg_queue[i] = d}) <= 1
  <2> DEFINE S == {i \in DOMAIN bg_queue : bg_queue[i] = d}
  <2>1. \A i, j \in S : i = j
    BY DEF BgInv, ItemInv
  <2>2. S = {} \/ \E i \in S : S = {i}
    BY <2>1
  <2>3. S = {} => Cardinality(S) = 0
    BY FS_EmptySet
  <2>4. \A i : Cardinality({i}) = 1
    BY FS_Singleton
  <2> HIDE DEF S
  <2>5. Cardinality(S) \in {0, 1}
    BY <2>2, <2>3, <2>4
  <2>6. Cardinality(S) <= 1
    BY <2>5
  <2>7. QED
    BY <2>6 DEF S
<1>2. ScheduledIsExact
  BY <1>1 DEF BgInv, ItemInv, WorkInv, ScheduledIsExact
<1>3. WaitersHaveAHope
  BY DEF BgInv, CallerInv, AwakeInv, WaitersHaveAHope
<1>4. ManualCompacted
  BY DEF BgInv, CallerInv, ManualCompacted
<1>5. CancelledOnlyOnStop
  BY DEF BgInv, CrashInv, CancelledOnlyOnStop
<1>6. QED
  BY <1>2, <1>3, <1>4, <1>5 DEF BackgroundSound

\* However many databases share the background thread, and whenever their callers compact,
\* fail or are deleted: bg_compaction_scheduled_ is the truth about PosixEnv's queue, so the
\* thread never works on a deleted database; nobody waits on bg_cv_ with nothing scheduled;
\* TEST_CompactRange returns without an error only when its range is compacted; and a NULL
\* manual_compaction_ is dereferenced only after an error or a shutdown.
THEOREM BackgroundIsSound == BackgroundSpec => []BackgroundSound
<1>1. BackgroundSpec => []BgInv
  BY BgInitInv, BgStep, PTL DEF BackgroundSpec
<1>2. QED
  BY <1>1, BgInvSound, PTL

-----------------------------------------------------------------------------
(* BenchDriver *)

\* What Parameters gives: at least one thread and an entry per batch; only a fill wants a
\* fresh database, all of the keys in order or single random ones.
BmBodies == {"none", "write", "delete", "open", "scan", "get", "suget", "seek", "mixed", "compact", "spin"}
GoodArg(a) ==
    /\ a \in [body : BmBodies, seq : BOOLEAN, fresh : BOOLEAN, threads : Nat, num : Nat,
              reads : Nat, entries_per_batch : Nat]
    /\ a.threads > 0 /\ a.entries_per_batch > 0
    /\ Threads(a.threads) \subseteq AllThreads
    /\ a.fresh => /\ a.body = "write"
                  /\ a.seq => a.num = FLAGS_num
                  /\ ~a.seq => a.entries_per_batch = 1

MainPcs == {"pick", "over", "spawn", "initializing", "asleep1", "finishing", "asleep2"}
BmPcs == {"init", "asleep", "ready", "run", "stop", "leaving", "gone"}
BmTypeOK ==
    /\ bm_existing \in BOOLEAN
    /\ bm_main \in [pc : MainPcs, name : Names \cup {""}, arg : {bm_main.arg}, spawned : Nat, ran : Nat]
    /\ GoodArg(bm_main.arg)
    /\ bm_shared \in [alive : BOOLEAN, total : Nat, num_initialized : Nat, num_done : Nat,
                      start : BOOLEAN, mu : AllThreads \cup {Nil}]
    /\ bm_thread \in [AllThreads -> [pc : BmPcs, i : Nat, done : Nat, deleted : BOOLEAN]]
    /\ bm_db = [ptr |-> bm_db.ptr, keys |-> bm_db.keys]
    /\ bm_db.ptr \in {"null", "live", "freed"} /\ bm_db.keys \subseteq Nat /\ IsFiniteSet(bm_db.keys)

\* RunBenchmark is on, and the threads it has started that passed a barrier.
Running == bm_main.pc \notin {"pick", "over"}
Initialized == {t \in AllThreads : t < bm_main.spawned /\ bm_thread[t].pc # "init"}
Finished == {t \in AllThreads : t < bm_main.spawned /\ bm_thread[t].pc \in {"leaving", "gone"}}

\* The counters of SharedState count, start is set when all threads have initialized and
\* none runs before, and mu is held by a thread that leaves.
BarrierInv ==
    /\ bm_shared.alive <=> Running
    /\ \A t \in AllThreads : bm_thread[t].pc # "gone" => Running /\ t < bm_main.spawned
    /\ \A t \in AllThreads : bm_shared.mu = t <=> bm_thread[t].pc = "leaving"
    /\ Running =>
         /\ bm_main.arg.body # "none" /\ bm_shared.total = bm_main.arg.threads
         /\ bm_main.spawned <= bm_main.arg.threads
         /\ bm_main.pc # "spawn" => bm_main.spawned = bm_main.arg.threads
         /\ bm_shared.num_initialized = Cardinality(Initialized)
         /\ bm_shared.num_done = Cardinality(Finished)
         /\ (bm_shared.start <=> bm_main.pc \in {"finishing", "asleep2"})
         /\ \A t \in AllThreads :
              /\ ~bm_shared.start /\ t < bm_main.spawned => bm_thread[t].pc \in {"init", "asleep"}
              /\ bm_shared.start => bm_thread[t].pc # "init"

\* The operations a thread is to do, and whether they are counted.
Goal(a, keys, t) ==
    CASE a.body \in {"write", "delete"} -> WholeBatches(a.num, a.entries_per_batch)
      [] a.body = "open" -> a.num
      [] a.body \in {"get", "suget", "seek", "spin"} -> a.reads
      [] a.body = "mixed" -> IF t = 0 THEN 0 ELSE a.reads
      [] a.body = "scan" -> IF Cardinality(keys) < a.reads THEN Cardinality(keys) ELSE a.reads
      [] OTHER -> 0
Counted(a, t) == a.body # "compact" /\ (a.body = "mixed" => t # 0)

\* A thread counts what it does, and stops when it has done what it is to.
CountsInv ==
    Running => \A t \in AllThreads : t < bm_main.spawned =>
        /\ bm_thread[t].done = IF Counted(bm_main.arg, t) THEN bm_thread[t].i ELSE 0
        /\ bm_thread[t].done <= Goal(bm_main.arg, bm_db.keys, t)
        /\ bm_main.arg.body \in {"write", "delete"} =>
               bm_thread[t].i % bm_main.arg.entries_per_batch = 0
        /\ bm_thread[t].pc \in {"stop", "leaving", "gone"} =>
               bm_thread[t].done = Goal(bm_main.arg, bm_db.keys, t)

\* ReadWhileWriting's writer stops last.
WriterInv ==
    bm_main.arg.body = "mixed" /\ bm_thread[0].pc = "stop" =>
        \A t \in 1 .. bm_main.arg.threads - 1 : bm_thread[t].pc \in {"leaving", "gone"}

\* db_ dangles only while OpenBench is between its delete and its Open.
PtrInv ==
    /\ \A t \in AllThreads : bm_thread[t].deleted =>
         bm_thread[t].pc = "run" /\ bm_main.arg.body = "open" /\ bm_thread[t].i < bm_main.arg.num
    /\ bm_main.pc # "over" => bm_db.ptr # "null"
    /\ bm_db.ptr = "freed" => \E t \in AllThreads : bm_thread[t].deleted
    /\ bm_misuse \in {"no", "open"}

\* A fill has written what its threads have got to: the keys up to there, or a key for
\* every operation.
FillInv ==
    Running /\ bm_main.arg.fresh =>
        /\ bm_main.arg.seq =>
             /\ \A t \in AllThreads : t < bm_main.spawned => 0 .. bm_thread[t].i - 1 \subseteq bm_db.keys
             /\ \A k \in bm_db.keys : \E t \in AllThreads : t < bm_main.spawned /\ k < bm_thread[t].i
        /\ ~bm_main.arg.seq =>
             /\ bm_db.keys \subseteq 0 .. FLAGS_num - 1
             /\ \E f \in [AllThreads -> [Nat -> Nat]] : \A k \in bm_db.keys :
                  \E t \in AllThreads, j \in Nat : t < bm_main.spawned /\ j < bm_thread[t].i /\ f[t][j] = k

BmInv ==
    /\ BmTypeOK /\ BarrierInv /\ CountsInv /\ WriterInv /\ PtrInv /\ FillInv
    /\ ReportCountsAll /\ FillLeavesOnlyItsKeys

\* Rounding up to whole batches, and the steps of a loop up to there.
LEMMA WholeBatchesIs ==
    ASSUME NEW n \in Nat, NEW e \in Nat \ {0}
    PROVE  /\ WholeBatches(n, e) \in Nat /\ n <= WholeBatches(n, e)
           /\ \A i \in Nat : i % e = 0 /\ i < n => i + e <= WholeBatches(n, e)
           /\ \A i \in Nat : i % e = 0 => (i + e) % e = 0
           /\ \A i \in Nat : i % e = 0 /\ n <= i /\ i <= WholeBatches(n, e) => i = WholeBatches(n, e)
<1>1. PICK q, r : q = (n + e - 1) \div e /\ r = (n + e - 1) % e
  OBVIOUS
<1>2. n + e - 1 \in Nat
  OBVIOUS
<1>3. n + e - 1 = e * q + r /\ q \in Nat /\ r \in 0 .. e - 1
  BY <1>1, <1>2, DivMod
<1>4. WholeBatches(n, e) = q * e
  BY <1>1 DEF WholeBatches
<1>5. q * e = e * q /\ e * q \in Nat /\ n <= e * q /\ e * q < n + e
  BY <1>3
<1>6. ASSUME NEW i \in Nat, i % e = 0
      PROVE  \E p \in Nat : i = e * p
  <2>1. i = e * (i \div e) + (i % e) /\ i \div e \in Nat
    BY DivMod
  <2>2. QED
    BY <2>1, <1>6
<1>7. ASSUME NEW a \in Nat, NEW b \in Nat, a < b
      PROVE  e * (a + 1) <= e * b /\ e * (a + 1) = e * a + e
  <2>1. e * b - e * (a + 1) = e * (b - (a + 1)) /\ b - (a + 1) \in Nat
    BY <1>7
  <2>2. e * (b - (a + 1)) >= 0
    BY <2>1
  <2>3. QED
    BY <2>1, <2>2
<1>8. ASSUME NEW i \in Nat, i % e = 0, i < n
      PROVE  i + e <= e * q
  <2>1. PICK p \in Nat : i = e * p
    BY <1>6, <1>8
  <2>2. p < q
    <3>1. CASE p >= q
      <4>1. p = q \/ q < p
        BY <1>3, <3>1
      <4>2. q < p => e * (q + 1) <= e * p /\ e * (q + 1) = e * q + e
        BY <1>3, <1>7
      <4>3. QED
        BY <4>1, <4>2, <1>5, <1>8, <2>1
    <3>2. QED
      BY <3>1, <1>3
  <2>3. QED
    BY <2>1, <2>2, <1>3, <1>7
<1>9. ASSUME NEW i \in Nat, i % e = 0
      PROVE  (i + e) % e = 0
  <2>1. PICK p \in Nat : i = e * p
    BY <1>6, <1>9
  <2>2. i + e = e * (p + 1) /\ p + 1 \in Nat
    BY <2>1
  <2>3. QED
    BY <2>2, MultipleMod
<1>10. ASSUME NEW i \in Nat, i % e = 0, n <= i, i <= e * q
       PROVE  i = e * q
  <2>1. PICK p \in Nat : i = e * p
    BY <1>6, <1>10
  <2>2. CASE p < q
    <3>1. e * p + e <= e * q
      BY <1>3, <1>7, <2>2
    <3>2. QED
      BY <3>1, <2>1, <1>5, <1>10
  <2>3. CASE q < p
    <3>1. e * q + e <= e * p
      BY <1>3, <1>7, <2>3
    <3>2. QED
      BY <3>1, <2>1, <1>5, <1>10
  <2>4. QED
    BY <2>1, <2>2, <2>3, <1>3
<1>11. QED
  BY <1>4, <1>5, <1>8, <1>9, <1>10

\* With one entry per batch nothing is rounded.
LEMMA WholeBatchesOfOne ==
    ASSUME NEW n \in Nat
    PROVE  WholeBatches(n, 1) = n
BY DEF WholeBatches

\* What a thread is to do, by the benchmark's method.
LEMMA GoalIs ==
    ASSUME NEW a, NEW keys, NEW t
    PROVE  /\ a.body \in {"write", "delete"} => Goal(a, keys, t) = WholeBatches(a.num, a.entries_per_batch)
           /\ a.body = "open" => Goal(a, keys, t) = a.num
           /\ a.body \in {"get", "suget", "seek", "spin"} => Goal(a, keys, t) = a.reads
           /\ a.body = "mixed" => Goal(a, keys, t) = IF t = 0 THEN 0 ELSE a.reads
           /\ a.body = "scan" => Goal(a, keys, t) = IF Cardinality(keys) < a.reads THEN Cardinality(keys) ELSE a.reads
           /\ a.body = "compact" => Goal(a, keys, t) = 0
BY DEF Goal

\* It is a number, and the keys matter to a scan only.
LEMMA GoalType ==
    ASSUME NEW a, GoodArg(a), a.body # "none", NEW keys, IsFiniteSet(keys), NEW t
    PROVE  /\ Goal(a, keys, t) \in Nat
           /\ a.body # "scan" => \A keys2 : Goal(a, keys2, t) = Goal(a, keys, t)
<1>1. /\ a.body \in BmBodies /\ a.num \in Nat /\ a.reads \in Nat
      /\ a.entries_per_batch \in Nat \ {0}
  BY DEF GoodArg
<1>2. WholeBatches(a.num, a.entries_per_batch) \in Nat /\ Cardinality(keys) \in Nat
  BY <1>1, WholeBatchesIs, FS_CardinalityType
<1>3. ASSUME NEW keys2
      PROVE  a.body # "scan" => Goal(a, keys2, t) = Goal(a, keys, t)
  BY DEF Goal
<1>4. Goal(a, keys, t) \in Nat
  BY <1>1, <1>2, GoalIs DEF BmBodies
<1>5. QED
  BY <1>3, <1>4

\* Every benchmark's parameters are good.
LEMMA ParametersGood ==
    ASSUME NEW name
    PROVE  GoodArg(Parameters(name))
<1>1. /\ FLAGS_num \in Nat \ {0} /\ FLAGS_threads \in Nat \ {0} /\ ReadThreads \in Nat \ {0}
      /\ Thousand \in Nat \ {0} /\ SpinOps \in Nat /\ Reads \in Nat
  BY BenchDriverAssumption DEF Reads
<1>2. /\ Threads(FLAGS_threads) \subseteq AllThreads /\ Threads(ReadThreads) \subseteq AllThreads
      /\ Threads(FLAGS_threads + 1) \subseteq AllThreads
  BY <1>1 DEF Threads, AllThreads
<1>3. FLAGS_num \div Thousand \in Nat /\ Reads \div Thousand \in Nat /\ FLAGS_num \div (Thousand * 10) \in Nat
  BY <1>1, DivMod
<1>4. AtLeastOne(FLAGS_num \div (Thousand * 10)) \in Nat
  BY <1>3 DEF AtLeastOne
<1>5. PICK a : a = Parameters(name)
  OBVIOUS
<1>6. CASE name = "open"
  <2>1. a = [body |-> "open", seq |-> FALSE, fresh |-> FALSE, threads |-> FLAGS_threads,
             num |-> AtLeastOne(FLAGS_num \div (Thousand * 10)), reads |-> Reads, entries_per_batch |-> 1]
    BY <1>5, <1>6 DEF Parameters, Arg, Fill
  <2>2. GoodArg(a)
    BY <2>1, <1>1, <1>2, <1>4 DEF GoodArg, BmBodies
  <2>3. QED
    BY <2>2, <1>5
<1>7. CASE name = "fillseq"
  <2>1. a = [body |-> "write", seq |-> TRUE, fresh |-> TRUE, threads |-> FLAGS_threads,
             num |-> FLAGS_num, reads |-> Reads, entries_per_batch |-> 1]
    BY <1>5, <1>7 DEF Parameters, Arg, Fill
  <2>2. GoodArg(a)
    BY <2>1, <1>1, <1>2 DEF GoodArg, BmBodies
  <2>3. QED
    BY <2>2, <1>5
<1>8. CASE name = "fillbatch"
  <2>1. a = [body |-> "write", seq |-> TRUE, fresh |-> TRUE, threads |-> FLAGS_threads,
             num |-> FLAGS_num, reads |-> Reads, entries_per_batch |-> Thousand]
    BY <1>5, <1>8 DEF Parameters, Arg, Fill
  <2>2. GoodArg(a)
    BY <2>1, <1>1, <1>2 DEF GoodArg, BmBodies
  <2>3. QED
    BY <2>2, <1>5
<1>9. CASE name = "fillrandom"
  <2>1. a = [body |-> "write", seq |-> FALSE, fresh |-> TRUE, threads |-> FLAGS_threads,
             num |-> FLAGS_num, reads |-> Reads, entries_per_batch |-> 1]
    BY <1>5, <1>9 DEF Parameters, Arg, Fill
  <2>2. GoodArg(a)
    BY <2>1, <1>1, <1>2 DEF GoodArg, BmBodies
  <2>3. QED
    BY <2>2, <1>5
<1>10. CASE name = "overwrite"
  <2>1. a = [body |-> "write", seq |-> FALSE, fresh |-> FALSE, threads |-> FLAGS_threads,
             num |-> FLAGS_num, reads |-> Reads, entries_per_batch |-> 1]
    BY <1>5, <1>10 DEF Parameters, Arg, Fill
  <2>2. GoodArg(a)
    BY <2>1, <1>1, <1>2 DEF GoodArg, BmBodies
  <2>3. QED
    BY <2>2, <1>5
<1>11. CASE name \in {"fillsync", "fill100K"}
  <2>1. a = [body |-> "write", seq |-> FALSE, fresh |-> TRUE, threads |-> FLAGS_threads,
             num |-> FLAGS_num \div Thousand, reads |-> Reads, entries_per_batch |-> 1]
    BY <1>5, <1>11 DEF Parameters, Arg, Fill
  <2>2. GoodArg(a)
    BY <2>1, <1>1, <1>2, <1>3 DEF GoodArg, BmBodies
  <2>3. QED
    BY <2>2, <1>5
<1>12. CASE name \in {"readseq", "readreverse"}
  <2>1. a = [body |-> "scan", seq |-> FALSE, fresh |-> FALSE, threads |-> FLAGS_threads,
             num |-> FLAGS_num, reads |-> Reads, entries_per_batch |-> 1]
    BY <1>5, <1>12 DEF Parameters, Arg, Fill
  <2>2. GoodArg(a)
    BY <2>1, <1>1, <1>2 DEF GoodArg, BmBodies
  <2>3. QED
    BY <2>2, <1>5
<1>13. CASE name = "readrandom"
  <2>1. a = [body |-> "suget", seq |-> FALSE, fresh |-> FALSE, threads |-> ReadThreads,
             num |-> FLAGS_num, reads |-> Reads, entries_per_batch |-> 1]
    BY <1>5, <1>13 DEF Parameters, Arg, Fill
  <2>2. GoodArg(a)
    BY <2>1, <1>1, <1>2 DEF GoodArg, BmBodies
  <2>3. QED
    BY <2>2, <1>5
<1>14. CASE name \in {"readmissing", "readhot"}
  <2>1. a = [body |-> "get", seq |-> FALSE, fresh |-> FALSE, threads |-> FLAGS_threads,
             num |-> FLAGS_num, reads |-> Reads, entries_per_batch |-> 1]
    BY <1>5, <1>14 DEF Parameters, Arg, Fill
  <2>2. GoodArg(a)
    BY <2>1, <1>1, <1>2 DEF GoodArg, BmBodies
  <2>3. QED
    BY <2>2, <1>5
<1>15. CASE name = "readrandomsmall"
  <2>1. a = [body |-> "suget", seq |-> FALSE, fresh |-> FALSE, threads |-> FLAGS_threads,
             num |-> FLAGS_num, reads |-> Reads \div Thousand, entries_per_batch |-> 1]
    BY <1>5, <1>15 DEF Parameters, Arg, Fill
  <2>2. GoodArg(a)
    BY <2>1, <1>1, <1>2, <1>3 DEF GoodArg, BmBodies
  <2>3. QED
    BY <2>2, <1>5
<1>16. CASE name = "seekrandom"
  <2>1. a = [body |-> "seek", seq |-> FALSE, fresh |-> FALSE, threads |-> FLAGS_threads,
             num |-> FLAGS_num, reads |-> Reads, entries_per_batch |-> 1]
    BY <1>5, <1>16 DEF Parameters, Arg, Fill
  <2>2. GoodArg(a)
    BY <2>1, <1>1, <1>2 DEF GoodArg, BmBodies
  <2>3. QED
    BY <2>2, <1>5
<1>17. CASE name \in {"deleteseq", "deleterandom"}
  <2> PICK seq \in BOOLEAN : seq = (name = "deleteseq")
    OBVIOUS
  <2>1. a = [body |-> "delete", seq |-> seq, fresh |-> FALSE, threads |-> FLAGS_threads,
             num |-> FLAGS_num, reads |-> Reads, entries_per_batch |-> 1]
    BY <1>5, <1>17 DEF Parameters, Arg, Fill
  <2>2. GoodArg(a)
    BY <2>1, <1>1, <1>2 DEF GoodArg, BmBodies
  <2>3. QED
    BY <2>2, <1>5
<1>18. CASE name = "readwhilewriting"
  <2>1. a = [body |-> "mixed", seq |-> FALSE, fresh |-> FALSE, threads |-> FLAGS_threads + 1,
             num |-> FLAGS_num, reads |-> Reads, entries_per_batch |-> 1]
    BY <1>5, <1>18 DEF Parameters, Arg, Fill
  <2>2. GoodArg(a)
    BY <2>1, <1>1, <1>2 DEF GoodArg, BmBodies
  <2>3. QED
    BY <2>2, <1>5
<1>19. CASE name = "compact"
  <2>1. a = [body |-> "compact", seq |-> FALSE, fresh |-> FALSE, threads |-> FLAGS_threads,
             num |-> FLAGS_num, reads |-> Reads, entries_per_batch |-> 1]
    BY <1>5, <1>19 DEF Parameters, Arg, Fill
  <2>2. GoodArg(a)
    BY <2>1, <1>1, <1>2 DEF GoodArg, BmBodies
  <2>3. QED
    BY <2>2, <1>5
<1>20. CASE name \in {"crc32c", "acquireload", "snappycomp", "snappyuncomp"}
  <2> PICK n \in Nat : n = IF name = "snappycomp" THEN 1 ELSE IF name = "snappyuncomp" THEN 0 ELSE SpinOps
    BY <1>1
  <2>1. a = [body |-> "spin", seq |-> FALSE, fresh |-> FALSE, threads |-> FLAGS_threads,
             num |-> FLAGS_num, reads |-> n, entries_per_batch |-> 1]
    BY <1>5, <1>20 DEF Parameters, Arg, Fill
  <2>2. GoodArg(a)
    BY <2>1, <1>1, <1>2 DEF GoodArg, BmBodies
  <2>3. QED
    BY <2>2, <1>5
<1>21. CASE name \notin {"open", "fillseq", "fillbatch", "fillrandom", "overwrite", "fillsync", "fill100K",
                      "readseq", "readreverse", "readrandom", "readmissing", "readhot", "readrandomsmall",
                      "seekrandom", "deleteseq", "deleterandom", "readwhilewriting", "compact",
                      "crc32c", "acquireload", "snappycomp", "snappyuncomp"}
  <2>1. a = [body |-> "none", seq |-> FALSE, fresh |-> FALSE, threads |-> FLAGS_threads,
             num |-> FLAGS_num, reads |-> Reads, entries_per_batch |-> 1]
    BY <1>5, <1>21 DEF Parameters, Arg
  <2>2. GoodArg(a)
    BY <2>1, <1>1, <1>2 DEF GoodArg, BmBodies
  <2>3. QED
    BY <2>2, <1>5
<1>22. QED
  BY <1>6, <1>7, <1>8, <1>9, <1>10, <1>11, <1>12, <1>13, <1>14, <1>15, <1>16, <1>17, <1>18, <1>19, <1>20, <1>21
\* One thread more with g operations.
LEMMA OneMoreTime ==
    ASSUME NEW t \in Nat, NEW c \in {0, 1}, NEW g \in Nat
    PROVE  (t - 1 + c) * g + g = (t + c) * g
<1>1. PICK x : x = t - 1 + c
  OBVIOUS
<1>2. x \in Int /\ t + c = x + 1
  BY <1>1
<1>3. (x + 1) * g = x * g + g
  BY <1>2
<1>4. QED
  BY <1>1, <1>2, <1>3

\* StatsMerge over n threads of which all but perhaps the first did the same work.
LEMMA MergeAdds ==
    ASSUME NEW n \in Nat \ {0}, NEW g \in Nat, NEW c \in {0, 1},
           \A t \in Threads(n) : bm_thread[t].done = IF t = 0 THEN c * g ELSE g
    PROVE  StatsMerge(n) = (n - 1 + c) * g
<1> DEFINE A(f) == [t \in Threads(n) |-> IF t = 0 THEN bm_thread[0].done ELSE f[t - 1] + bm_thread[t].done]
           sm == CHOOSE f : f = A(f)
           h == [t \in Threads(n) |-> (t + c) * g]
<1>1. StatsMerge(n) = sm[n - 1]
  BY DEF StatsMerge
<1>2. A(h) = h
  <2>1. ASSUME NEW t \in Threads(n)
        PROVE  (IF t = 0 THEN bm_thread[0].done ELSE h[t - 1] + bm_thread[t].done) = (t + c) * g
    <3>1. CASE t = 0
      BY <3>1, <2>1 DEF Threads
    <3>2. CASE t # 0
      <4>1. t - 1 \in Threads(n) /\ t \in Nat
        BY <3>2, <2>1 DEF Threads
      <4>2. h[t - 1] = (t - 1 + c) * g
        BY <4>1
      <4>3. (t - 1 + c) * g + g = (t + c) * g
        BY <4>1, OneMoreTime
      <4>4. QED
        BY <3>2, <4>2, <4>3, <2>1
    <3>3. QED
      BY <3>1, <3>2
  <2>2. QED
    BY <2>1
<1>3. sm = A(sm)
  <2> HIDE DEF A, h
  <2>1. QED
    BY <1>2, Zenon
<1>4. ASSUME NEW t \in Threads(n)
      PROVE  sm[t] = IF t = 0 THEN bm_thread[0].done ELSE sm[t - 1] + bm_thread[t].done
  <2> PICK f : f = sm
    OBVIOUS
  <2>1. f = [u \in Threads(n) |-> IF u = 0 THEN bm_thread[0].done ELSE f[u - 1] + bm_thread[u].done]
    BY <1>3
  <2> HIDE DEF sm
  <2>2. QED
    BY <2>1
<1> HIDE DEF A, sm, h
<1> DEFINE T == {t \in Threads(n) : sm[t] # (t + c) * g}
<1>5. T = {}
  <2>1. SUFFICES ASSUME T # {} PROVE FALSE
    OBVIOUS
  <2>2. PICK m \in T : \A x \in T : m <= x
    <3>1. T \subseteq Nat
      BY DEF Threads
    <3>2. QED
      BY <2>1, <3>1, LeastNat
  <2>3. m \in Threads(n) /\ m \in Nat /\ sm[m] # (m + c) * g
    BY <2>2 DEF Threads
  <2>4. CASE m = 0
    BY <2>3, <2>4, <1>4
  <2>5. CASE m # 0
    <3>1. m - 1 \in Threads(n) /\ m - 1 \notin T
      BY <2>2, <2>3, <2>5 DEF Threads
    <3>2. sm[m - 1] = (m - 1 + c) * g
      BY <3>1
    <3>3. sm[m] = (m - 1 + c) * g + g
      BY <3>2, <2>3, <2>5, <1>4
    <3>4. (m - 1 + c) * g + g = (m + c) * g
      BY <2>3, OneMoreTime
    <3>5. QED
      BY <3>3, <3>4, <2>3
  <2>6. QED
    BY <2>4, <2>5
<1>6. n - 1 \in Threads(n)
  BY DEF Threads
<1>7. QED
  BY <1>1, <1>5, <1>6

\* A subset of the first n threads with n members has all of them.
LEMMA AllOf ==
    ASSUME NEW n \in Nat, NEW S \in SUBSET Threads(n), Cardinality(S) >= n
    PROVE  S = Threads(n)
<1>1. IsFiniteSet(Threads(n)) /\ Cardinality(Threads(n)) = n
  <2>1. n - 1 \in Int /\ 0 \in Int
    OBVIOUS
  <2>2. IsFiniteSet(0 .. n - 1) /\ Cardinality(0 .. n - 1) = IF 0 > n - 1 THEN 0 ELSE n - 1 - 0 + 1
    BY <2>1, FS_Interval
  <2>3. QED
    BY <2>2 DEF Threads
<1>2. Cardinality(S) <= n /\ Cardinality(S) \in Nat
  BY <1>1, FS_Subset, FS_CardinalityType
<1>3. QED
  BY <1>1, <1>2, FS_Subset
\* Nil is no thread, thread 0 is one, and they are finitely many.
LEMMA ThreadSet ==
    /\ AllThreads \subseteq Nat /\ 0 \in AllThreads /\ Nil \notin AllThreads /\ IsFiniteSet(AllThreads)
<1>1. PICK n : n = IF FLAGS_threads > ReadThreads THEN FLAGS_threads ELSE ReadThreads
  OBVIOUS
<1>2. n \in Nat /\ AllThreads = 0 .. n
  BY <1>1, BenchDriverAssumption DEF AllThreads
<1>3. IsFiniteSet(0 .. n)
  BY <1>2, FS_Interval
<1>4. QED
  BY <1>2, <1>3 DEF Nil

\* Before the first benchmark.
LEMMA BmInitInv == BenchDriverInit => BmInv
<1>1. SUFFICES ASSUME BenchDriverInit PROVE BmInv
  OBVIOUS
<1>2. PICK a : a = Arg("none")
  OBVIOUS
<1>3. GoodArg(a) /\ a.body = "none" /\ a.fresh = FALSE
  <2>1. /\ FLAGS_num \in Nat \ {0} /\ FLAGS_threads \in Nat \ {0} /\ ReadThreads \in Nat \ {0}
        /\ Reads \in Nat
    BY BenchDriverAssumption DEF Reads
  <2>2. Threads(FLAGS_threads) \subseteq AllThreads
    BY <2>1 DEF Threads, AllThreads
  <2>3. a = [body |-> "none", seq |-> FALSE, fresh |-> FALSE, threads |-> FLAGS_threads,
             num |-> FLAGS_num, reads |-> Reads, entries_per_batch |-> 1]
    BY <1>2 DEF Arg
  <2>4. QED
    BY <2>1, <2>2, <2>3 DEF GoodArg, BmBodies
<1>4. PICK keys \in {{}, {0}} : bm_db = [ptr |-> "live", keys |-> keys]
  BY <1>1 DEF BenchDriverInit
<1>5. keys \subseteq Nat /\ IsFiniteSet(keys)
  <2>1. IsFiniteSet({}) /\ IsFiniteSet({0})
    BY FS_EmptySet, FS_Singleton
  <2>2. QED
    BY <1>4, <2>1
<1>6. /\ bm_main = [pc |-> "pick", name |-> "", arg |-> a, spawned |-> 0, ran |-> 0]
      /\ bm_shared = [alive |-> FALSE, total |-> 0, num_initialized |-> 0, num_done |-> 0,
                      start |-> FALSE, mu |-> Nil]
      /\ bm_thread = [t \in AllThreads |-> [pc |-> "gone", i |-> 0, done |-> 0, deleted |-> FALSE]]
      /\ bm_reported.arg = a /\ bm_misuse = "no" /\ bm_existing \in BOOLEAN
  BY <1>1, <1>2 DEF BenchDriverInit
<1>7. BmTypeOK
  BY <1>3, <1>4, <1>5, <1>6 DEF BmTypeOK, MainPcs, BmPcs
<1>8. BarrierInv /\ CountsInv /\ FillInv
  BY <1>6, ThreadSet DEF BarrierInv, CountsInv, FillInv, Running
<1>9. WriterInv /\ PtrInv
  BY <1>3, <1>4, <1>6, ThreadSet DEF WriterInv, PtrInv
<1>10. ReportCountsAll /\ FillLeavesOnlyItsKeys
  BY <1>3, <1>6 DEF ReportCountsAll, FillLeavesOnlyItsKeys
<1>11. QED
  BY <1>7, <1>8, <1>9, <1>10 DEF BmInv

\* Between two benchmarks no thread is left and db_ is live.
LEMMA BetweenBenchmarks ==
    ASSUME BmInv, bm_main.pc = "pick"
    PROVE  /\ \A t \in AllThreads : bm_thread[t].pc = "gone" /\ bm_thread[t].deleted = FALSE
           /\ bm_db.ptr = "live"
<1>1. \A t \in AllThreads : bm_thread[t].pc = "gone" /\ bm_thread[t].deleted \in BOOLEAN
  BY DEF BmInv, BarrierInv, Running, BmTypeOK
<1>2. \A t \in AllThreads : bm_thread[t].deleted = FALSE
  BY <1>1 DEF BmInv, PtrInv
<1>3. QED
  BY <1>1, <1>2 DEF BmInv, PtrInv, BmTypeOK

\* Run in front of RunBenchmark.
LEMMA BmRunOne ==
    ASSUME BmInv, NEW name \in Names, RunOne(name)
    PROVE  BmInv'
<1>1. PICK a : a = Parameters(name)
  OBVIOUS
<1>2. GoodArg(a)
  BY <1>1, ParametersGood
<1>3. PICK pc : pc = IF a.body = "none" \/ (a.fresh /\ bm_existing) THEN "pick" ELSE "spawn"
  OBVIOUS
<1>4. bm_main.pc = "pick"
  BY DEF RunOne
<1>5. /\ bm_main' = [bm_main EXCEPT !.name = name, !.arg = a, !.ran = @ + 1, !.spawned = 0,
                                    !.pc = pc]
      /\ pc = "pick" => UNCHANGED bm_shared
      /\ pc = "spawn" => bm_shared' = [alive |-> TRUE, total |-> a.threads, num_initialized |-> 0,
                                num_done |-> 0, start |-> FALSE, mu |-> Nil]
      /\ UNCHANGED <<bm_existing, bm_thread, bm_reported>>
  BY <1>1, <1>3 DEF RunOne
<1>6. ASSUME pc = "spawn"
       PROVE  bm_shared' = [alive |-> TRUE, total |-> a.threads, num_initialized |-> 0,
                            num_done |-> 0, start |-> FALSE, mu |-> Nil]
  BY <1>5, <1>6
<1>7. /\ a.fresh /\ pc = "spawn" => bm_db' = FreshDB /\ MisusedIf(bm_db.ptr = "freed")
      /\ ~(a.fresh /\ pc = "spawn") => UNCHANGED <<bm_db, bm_misuse>>
  BY <1>1, <1>3 DEF RunOne
<1>8. /\ bm_main' \in [pc : MainPcs, name : Names \cup {""}, arg : {a}, spawned : Nat, ran : Nat]
      /\ bm_main'.pc = pc /\ pc \in {"pick", "spawn"} /\ bm_main'.arg = a /\ bm_main'.spawned = 0
      /\ \A t \in AllThreads : ~(t < bm_main'.spawned)
  <2>1. pc \in {"pick", "spawn"} /\ pc \in MainPcs
    BY <1>3 DEF MainPcs
  <2>2. bm_main \in [pc : MainPcs, name : Names \cup {""}, arg : {bm_main.arg}, spawned : Nat, ran : Nat]
    BY DEF BmInv, BmTypeOK
  <2>3. bm_main' = [pc |-> pc, name |-> name, arg |-> a, spawned |-> 0, ran |-> bm_main.ran + 1]
    BY <1>5, <2>1, <2>2
  <2>4. \A t \in AllThreads : ~(t < 0)
    BY ThreadSet
  <2>5. bm_main.ran + 1 \in Nat
    <3>1. bm_main.ran \in Nat
      BY <2>2
    <3>2. QED
      BY <3>1
  <2>6. QED
    BY <2>1, <2>3, <2>4, <2>5
<1>9. /\ \A t \in AllThreads : bm_thread'[t].pc = "gone" /\ bm_thread'[t].deleted = FALSE
      /\ bm_db.ptr = "live"
  BY <1>4, <1>5, BetweenBenchmarks
<1>10. bm_misuse' = bm_misuse
  BY <1>7, <1>9 DEF MisusedIf
<1>11. /\ bm_db' = [ptr |-> bm_db'.ptr, keys |-> bm_db'.keys]
       /\ bm_db'.ptr = "live" /\ bm_db'.keys \subseteq Nat /\ IsFiniteSet(bm_db'.keys)
       /\ a.fresh /\ pc = "spawn" => bm_db'.keys = {}
  <2>1. CASE a.fresh /\ pc = "spawn"
    BY <2>1, <1>7, FS_EmptySet DEF FreshDB
  <2>2. CASE ~(a.fresh /\ pc = "spawn")
    BY <2>2, <1>7, <1>9 DEF BmInv, BmTypeOK
  <2>3. QED
    BY <2>1, <2>2
<1>12. a.threads \in Nat
  BY <1>2 DEF GoodArg
<1>13. /\ bm_shared' \in [alive : BOOLEAN, total : Nat, num_initialized : Nat, num_done : Nat,
                          start : BOOLEAN, mu : AllThreads \cup {Nil}]
  <2>1. CASE pc = "pick"
    BY <2>1, <1>5 DEF BmInv, BmTypeOK
  <2>2. CASE pc = "spawn"
    <3>1. PICK s : s = bm_shared'
      OBVIOUS
    <3>2. s = [alive |-> TRUE, total |-> a.threads, num_initialized |-> 0,
                        num_done |-> 0, start |-> FALSE, mu |-> Nil]
      BY <2>2, <3>1, <1>6
    <3>3. s \in [alive : BOOLEAN, total : Nat, num_initialized : Nat, num_done : Nat,
                          start : BOOLEAN, mu : AllThreads \cup {Nil}]
      BY <3>2, <1>12
    <3>4. QED
      BY <3>1, <3>3
  <2>3. QED
    BY <1>8, <2>1, <2>2
<1>14. BmTypeOK'
  BY <1>2, <1>5, <1>8, <1>11, <1>13 DEF BmInv, BmTypeOK
<1>15. BarrierInv'
  <2>1. Running' <=> pc = "spawn"
    BY <1>8 DEF Running
  <2>2. bm_shared'.alive <=> pc = "spawn"
    <3>1. CASE pc = "pick"
      BY <3>1, <1>4, <1>5 DEF BmInv, BarrierInv, Running
    <3>2. CASE pc = "spawn"
      BY <3>2, <1>6
    <3>3. QED
      BY <1>8, <3>1, <3>2
  <2>3. \A t \in AllThreads : bm_shared'.mu # t
    <3>1. CASE pc = "pick"
      BY <3>1, <1>5, <1>9 DEF BmInv, BarrierInv
    <3>2. CASE pc = "spawn"
      BY <3>2, <1>6, ThreadSet
    <3>3. QED
      BY <1>8, <3>1, <3>2
  <2>4. Initialized' = {} /\ Finished' = {}
    BY <1>8 DEF Initialized, Finished
  <2>5. pc = "spawn" => /\ bm_shared'.total = a.threads /\ bm_shared'.num_initialized = 0
                 /\ bm_shared'.num_done = 0 /\ ~bm_shared'.start
    BY <1>6
  <2>6. pc = "spawn" => a.body # "none"
    BY <1>3
  <2>7. Cardinality({}) = 0
    BY FS_EmptySet
  <2>8. QED
    <3>1. CASE pc = "pick"
      BY <3>1, <1>9, <2>1, <2>2, <2>3 DEF BarrierInv
    <3>2. CASE pc = "spawn"
      <4>1. Cardinality(Initialized') = 0 /\ Cardinality(Finished') = 0
        BY <2>4, <2>7
      <4>2. bm_main'.spawned <= bm_main'.arg.threads /\ bm_main'.arg = a /\ bm_main'.pc = "spawn"
        <5>1. bm_main'.spawned = 0 /\ bm_main'.arg = a /\ bm_main'.pc = "spawn"
          BY <3>2, <1>8
        <5>2. QED
          BY <5>1, <1>12
      <4>3. \A t \in AllThreads :
              /\ ~bm_shared'.start /\ t < bm_main'.spawned => bm_thread'[t].pc \in {"init", "asleep"}
              /\ bm_shared'.start => bm_thread'[t].pc # "init"
        BY <3>2, <1>8, <2>5
      <4>4. \A t \in AllThreads : bm_thread'[t].pc = "gone"
        BY <1>9
      <4>5. QED
        BY <3>2, <2>1, <2>2, <2>3, <2>5, <2>6, <4>1, <4>2, <4>3, <4>4 DEF BarrierInv
    <3>3. QED
      BY <1>8, <3>1, <3>2
<1>16. CountsInv'
  BY <1>8 DEF CountsInv
<1>17. WriterInv' /\ PtrInv'
  BY <1>8, <1>9, <1>10, <1>11, ThreadSet DEF BmInv, WriterInv, PtrInv
<1>18. FillInv'
  <2>1. SUFFICES ASSUME Running', a.fresh PROVE FillInv'
    BY <1>8 DEF FillInv
  <2>2. bm_db'.keys = {}
    BY <2>1, <1>8, <1>11 DEF Running
  <2>3. [t \in AllThreads |-> [j \in Nat |-> 0]] \in [AllThreads -> [Nat -> Nat]]
    OBVIOUS
  <2>4. QED
    BY <2>2, <2>3, <1>8 DEF FillInv
<1>19. ReportCountsAll' /\ FillLeavesOnlyItsKeys'
  BY <1>5 DEF BmInv, ReportCountsAll, FillLeavesOnlyItsKeys
<1>20. QED
  BY <1>14, <1>15, <1>16, <1>17, <1>18, <1>19 DEF BmInv

\* The end of Run.
LEMMA BmRunEnds ==
    ASSUME BmInv, RunEnds
    PROVE  BmInv'
<1>1. /\ bm_main.pc = "pick" /\ bm_main' = [bm_main EXCEPT !.pc = "over"]
      /\ bm_db' = [bm_db EXCEPT !.ptr = "null"] /\ MisusedIf(bm_db.ptr = "freed")
      /\ UNCHANGED <<bm_existing, bm_shared, bm_thread, bm_reported>>
  BY DEF RunEnds
<1>2. /\ bm_main' \in [pc : MainPcs, name : Names \cup {""}, arg : {bm_main.arg}, spawned : Nat, ran : Nat]
      /\ bm_main'.pc = "over" /\ bm_main'.arg = bm_main.arg /\ bm_main'.spawned = bm_main.spawned
  BY <1>1 DEF BmInv, BmTypeOK, MainPcs
<1>3. /\ \A t \in AllThreads : bm_thread'[t].pc = "gone" /\ bm_thread'[t].deleted = FALSE
      /\ bm_db.ptr = "live"
  BY <1>1, BetweenBenchmarks
<1>4. bm_misuse' = bm_misuse
  BY <1>1, <1>3 DEF MisusedIf
<1>5. /\ bm_db' = [ptr |-> bm_db'.ptr, keys |-> bm_db'.keys]
      /\ bm_db'.ptr = "null" /\ bm_db'.keys = bm_db.keys
  BY <1>1 DEF BmInv, BmTypeOK
<1>6. BmTypeOK'
  BY <1>1, <1>2, <1>5 DEF BmInv, BmTypeOK
<1>7. Running = FALSE /\ Running' = FALSE
  BY <1>1, <1>2 DEF Running
<1>8. BarrierInv'
  BY <1>1, <1>3, <1>7 DEF BmInv, BarrierInv
<1>9. CountsInv' /\ FillInv'
  BY <1>7 DEF CountsInv, FillInv
<1>10. WriterInv' /\ PtrInv'
  BY <1>2, <1>3, <1>4, <1>5, ThreadSet DEF BmInv, WriterInv, PtrInv
<1>11. ReportCountsAll' /\ FillLeavesOnlyItsKeys'
  BY <1>1 DEF BmInv, ReportCountsAll, FillLeavesOnlyItsKeys
<1>12. QED
  BY <1>6, <1>8, <1>9, <1>10, <1>11 DEF BmInv

\* The records of the state.
MainType(arg) == [pc : MainPcs, name : Names \cup {""}, arg : {arg}, spawned : Nat, ran : Nat]
SharedType == [alive : BOOLEAN, total : Nat, num_initialized : Nat, num_done : Nat,
               start : BOOLEAN, mu : AllThreads \cup {Nil}]
ThreadStateType == [pc : BmPcs, i : Nat, done : Nat, deleted : BOOLEAN]

\* Run and RunBenchmark go to another place.
LEMMA MainGoes ==
    ASSUME NEW a, NEW m \in MainType(a), NEW p \in MainPcs, NEW m2, m2 = [m EXCEPT !.pc = p]
    PROVE  m2 \in MainType(a) /\ m2.pc = p /\ m2.arg = a /\ m2.spawned = m.spawned
BY DEF MainType

\* A thread goes to another place.
LEMMA ThreadGoes ==
    ASSUME NEW th \in [AllThreads -> ThreadStateType], NEW t \in AllThreads, NEW p \in BmPcs,
           NEW th2, th2 = [th EXCEPT ![t].pc = p]
    PROVE  /\ th2 \in [AllThreads -> ThreadStateType]
           /\ \A u \in AllThreads : /\ th2[u].pc = IF u = t THEN p ELSE th[u].pc
                                    /\ th2[u].i = th[u].i /\ th2[u].done = th[u].done
                                    /\ th2[u].deleted = th[u].deleted
<1>1. PICK r : r = th[t]
  OBVIOUS
<1>2. PICK r2 : r2 = [r EXCEPT !.pc = p]
  OBVIOUS
<1>3. r2 \in ThreadStateType /\ r2.pc = p /\ r2.i = r.i /\ r2.done = r.done /\ r2.deleted = r.deleted
  BY <1>1, <1>2 DEF ThreadStateType
<1>4. th2 = [th EXCEPT ![t] = r2]
  BY <1>1, <1>2
<1>5. QED
  BY <1>1, <1>3, <1>4

\* The types, as the lemmas above have them.
LEMMA Types ==
    ASSUME BmTypeOK
    PROVE  /\ bm_main \in MainType(bm_main.arg) /\ bm_shared \in SharedType
           /\ bm_thread \in [AllThreads -> ThreadStateType]
           /\ GoodArg(bm_main.arg) /\ bm_main.arg.threads \in Nat /\ bm_main.arg.threads > 0
           /\ Threads(bm_main.arg.threads) \subseteq AllThreads
           /\ bm_main.spawned \in Nat /\ bm_main.pc \in MainPcs
<1>1. bm_main \in MainType(bm_main.arg) /\ GoodArg(bm_main.arg)
  BY DEF BmTypeOK, MainType
<1>2. bm_main.arg.threads \in Nat /\ bm_main.arg.threads > 0 /\ Threads(bm_main.arg.threads) \subseteq AllThreads
  BY <1>1 DEF GoodArg
<1>3. bm_main.spawned \in Nat /\ bm_main.pc \in MainPcs
  BY <1>1 DEF MainType
<1>4. bm_shared \in SharedType /\ bm_thread \in [AllThreads -> ThreadStateType]
  BY DEF BmTypeOK, SharedType, ThreadStateType
<1>5. QED
  BY <1>1, <1>2, <1>3, <1>4

\* A step outside the methods: no thread does any work, and none ends its method.
SameWork ==
    \A t \in AllThreads :
        /\ bm_thread'[t].i = bm_thread[t].i /\ bm_thread'[t].done = bm_thread[t].done
        /\ bm_thread'[t].deleted = bm_thread[t].deleted
        /\ bm_thread[t].pc = "run" => bm_thread'[t].pc = "run"
        /\ bm_thread'[t].pc = "stop" => bm_thread[t].pc = "stop"
        /\ bm_thread[t].pc \in {"leaving", "gone"} => bm_thread'[t].pc \in {"leaving", "gone"}
        /\ bm_thread'[t].pc \in {"leaving", "gone"} => bm_thread[t].pc \in {"stop", "leaving", "gone"}

\* Such a step keeps what is known about the work.
LEMMA WorkFrame ==
    ASSUME BmInv, Running, SameWork,
           bm_main'.arg = bm_main.arg, bm_main'.spawned = bm_main.spawned, bm_main'.pc # "over",
           bm_db' = bm_db, bm_misuse' = bm_misuse
    PROVE  CountsInv' /\ WriterInv' /\ PtrInv' /\ FillInv'
<1>1. CountsInv'
  BY DEF BmInv, CountsInv, SameWork
<1>2. WriterInv'
  <2>1. SUFFICES ASSUME bm_main.arg.body = "mixed", bm_thread'[0].pc = "stop",
                        NEW t \in 1 .. bm_main.arg.threads - 1
                 PROVE  bm_thread'[t].pc \in {"leaving", "gone"}
    BY DEF WriterInv
  <2>2. t \in AllThreads
    <3>1. bm_main.arg.threads \in Nat /\ Threads(bm_main.arg.threads) \subseteq AllThreads
      BY Types DEF BmInv
    <3>2. t \in Threads(bm_main.arg.threads)
      BY <3>1 DEF Threads
    <3>3. QED
      BY <3>1, <3>2
  <2>3. bm_thread[0].pc = "stop"
    BY <2>1, ThreadSet DEF SameWork
  <2>4. bm_thread[t].pc \in {"leaving", "gone"}
    BY <2>1, <2>3 DEF BmInv, WriterInv
  <2>5. QED
    BY <2>2, <2>4 DEF SameWork
<1>3. PtrInv'
  <2>1. bm_main.pc # "over"
    BY DEF Running
  <2>2. QED
    BY <2>1 DEF BmInv, PtrInv, SameWork
<1>4. FillInv'
  <2>1. SUFFICES ASSUME bm_main.arg.fresh PROVE FillInv'
    BY DEF FillInv
  <2>2. CASE bm_main.arg.seq
    BY <2>1, <2>2 DEF BmInv, FillInv, SameWork
  <2>3. CASE ~bm_main.arg.seq
    <3>1. PICK f \in [AllThreads -> [Nat -> Nat]] : \A k \in bm_db.keys :
             \E t \in AllThreads, j \in Nat : t < bm_main.spawned /\ j < bm_thread[t].i /\ f[t][j] = k
      BY <2>1, <2>3 DEF BmInv, FillInv
    <3>2. bm_db.keys \subseteq 0 .. FLAGS_num - 1
      BY <2>1, <2>3 DEF BmInv, FillInv
    <3>3. \A k \in bm_db'.keys :
             \E t \in AllThreads, j \in Nat : t < bm_main'.spawned /\ j < bm_thread'[t].i /\ f[t][j] = k
      BY <3>1 DEF SameWork
    <3>4. QED
      BY <2>3, <3>2, <3>3 DEF FillInv
  <2>4. QED
    BY <2>2, <2>3
<1>5. QED
  BY <1>1, <1>2, <1>3, <1>4

\* What was reported stays true.
LEMMA ReportFrame ==
    ASSUME BmInv, bm_reported' = bm_reported
    PROVE  ReportCountsAll' /\ FillLeavesOnlyItsKeys'
BY DEF BmInv, ReportCountsAll, FillLeavesOnlyItsKeys

\* The types after a step with the same database and benchmark.
LEMMA TypeFrame ==
    ASSUME BmTypeOK, bm_main' \in MainType(bm_main.arg), bm_main'.arg = bm_main.arg,
           bm_shared' \in SharedType, bm_thread' \in [AllThreads -> ThreadStateType],
           bm_db' = bm_db, bm_existing' = bm_existing
    PROVE  BmTypeOK'
BY DEF BmTypeOK, MainType, SharedType, ThreadStateType

\* The loop of RunBenchmark that starts the threads.
LEMMA BmStartThread ==
    ASSUME BmInv, StartThread
    PROVE  BmInv'
<1>1. /\ bm_main \in MainType(bm_main.arg) /\ bm_shared \in SharedType
      /\ bm_thread \in [AllThreads -> ThreadStateType]
      /\ GoodArg(bm_main.arg) /\ bm_main.arg.threads \in Nat
      /\ Threads(bm_main.arg.threads) \subseteq AllThreads /\ bm_main.spawned \in Nat
  BY Types DEF BmInv
<1>2. /\ bm_main.pc = "spawn" /\ Running
      /\ UNCHANGED <<bm_existing, bm_shared, bm_db, bm_reported, bm_misuse>>
  BY DEF StartThread, Running
<1>3. /\ bm_shared.alive /\ ~bm_shared.start /\ bm_main.spawned <= bm_main.arg.threads
      /\ \A t \in AllThreads : /\ bm_thread[t].pc # "gone" => t < bm_main.spawned
                               /\ t < bm_main.spawned => bm_thread[t].pc \in {"init", "asleep"}
  BY <1>2 DEF BmInv, BarrierInv
<1>4. CASE bm_main.spawned < bm_main.arg.threads
  <2>1. PICK n : n = bm_main.spawned
    OBVIOUS
  <2>2. PICK r : r = [pc |-> "init", i |-> 0, done |-> 0, deleted |-> FALSE]
    OBVIOUS
  <2>3. bm_thread' = [bm_thread EXCEPT ![n] = r] /\ bm_main' = [bm_main EXCEPT !.spawned = n + 1]
    BY <1>4, <2>1, <2>2 DEF StartThread
  <2>4. n \in Nat /\ n \in AllThreads /\ n < bm_main.arg.threads
    BY <1>1, <1>4, <2>1 DEF Threads
  <2>5. /\ bm_main' \in MainType(bm_main.arg) /\ bm_main'.pc = "spawn" /\ bm_main'.arg = bm_main.arg
        /\ bm_main'.spawned = n + 1
    <3>1. n + 1 \in Nat
      BY <2>4
    <3>2. QED
      BY <1>1, <1>2, <2>3, <3>1 DEF MainType
  <2>6. /\ r \in ThreadStateType /\ r.pc = "init" /\ r.i = 0 /\ r.done = 0 /\ ~r.deleted
    BY <2>2 DEF ThreadStateType, BmPcs
  <2>7. /\ bm_thread' \in [AllThreads -> ThreadStateType] /\ bm_thread'[n] = r
        /\ \A t \in AllThreads : t # n => bm_thread'[t] = bm_thread[t]
    BY <1>1, <2>3, <2>4, <2>6
  <2>8. \A t \in AllThreads : (t < n + 1 <=> t < n \/ t = n) /\ t \in Nat
    BY <2>4, ThreadSet
  <2>9. bm_thread[n].pc = "gone"
    BY <1>3, <2>1, <2>4
  <2>10. BmTypeOK'
    BY <1>2, <1>1, <2>5, <2>7, TypeFrame DEF BmInv
  <2>11. BarrierInv'
    <3>1. Running'
      BY <2>5 DEF Running
    <3>2. Initialized' = Initialized
      BY <2>1, <2>4, <2>5, <2>6, <2>7, <2>8 DEF Initialized
    <3>3. Finished' = Finished
      BY <2>1, <2>4, <2>5, <2>6, <2>7, <2>8 DEF Finished
    <3>4. \A t \in AllThreads : /\ bm_thread'[t].pc # "gone" => t < bm_main'.spawned
                                /\ t < bm_main'.spawned => bm_thread'[t].pc \in {"init", "asleep"}
      BY <1>3, <2>1, <2>5, <2>6, <2>7, <2>8
    <3>5. \A t \in AllThreads : bm_shared'.mu = t <=> bm_thread'[t].pc = "leaving"
      BY <1>2, <2>6, <2>7, <2>9 DEF BmInv, BarrierInv
    <3>6. bm_main'.spawned <= bm_main'.arg.threads
      BY <1>1, <2>4, <2>5
    <3>7. QED
      BY <1>2, <1>3, <2>5, <3>1, <3>2, <3>3, <3>4, <3>5, <3>6 DEF BmInv, BarrierInv
  <2>12. CountsInv'
    <3>1. SUFFICES ASSUME NEW t \in AllThreads, t < n + 1
                   PROVE  /\ bm_thread'[t].done = IF Counted(bm_main.arg, t) THEN bm_thread'[t].i ELSE 0
                          /\ bm_thread'[t].done <= Goal(bm_main.arg, bm_db.keys, t)
                          /\ bm_main.arg.body \in {"write", "delete"} =>
                                 bm_thread'[t].i % bm_main.arg.entries_per_batch = 0
                          /\ bm_thread'[t].pc \in {"stop", "leaving", "gone"} =>
                                 bm_thread'[t].done = Goal(bm_main.arg, bm_db.keys, t)
      BY <1>2, <2>5 DEF CountsInv
    <3>2. CASE t = n
      <4>1. Goal(bm_main.arg, bm_db.keys, t) \in Nat
        BY <1>1, <1>2, GoalType DEF BmInv, BmTypeOK, BarrierInv
      <4>2. bm_main.arg.entries_per_batch \in Nat \ {0}
        BY <1>1 DEF GoodArg
      <4>3. 0 % bm_main.arg.entries_per_batch = 0
        BY <4>2
      <4>4. QED
        BY <3>2, <4>1, <4>3, <2>6, <2>7
    <3>3. CASE t # n
      BY <3>1, <3>3, <1>2, <2>1, <2>7, <2>8 DEF BmInv, CountsInv
    <3>4. QED
      BY <3>2, <3>3
  <2>13. WriterInv'
    <3>1. bm_thread'[0].pc # "stop"
      BY <1>3, <2>1, <2>6, <2>7, ThreadSet
    <3>2. QED
      BY <3>1 DEF WriterInv
  <2>14. PtrInv'
    <3>1. \A t \in AllThreads : bm_thread'[t].deleted <=> bm_thread[t].deleted
      BY <2>6, <2>7, <2>9 DEF BmInv, PtrInv
    <3>2. \A t \in AllThreads : bm_thread[t].deleted => t # n
      BY <2>9 DEF BmInv, PtrInv
    <3>3. bm_db'.ptr # "null"
      BY <1>2 DEF BmInv, PtrInv
    <3>4. QED
      BY <1>2, <2>5, <2>7, <3>1, <3>2, <3>3 DEF BmInv, PtrInv
  <2>15. FillInv'
    <3>1. SUFFICES ASSUME bm_main.arg.fresh PROVE FillInv'
      BY <2>5 DEF FillInv
    <3>2. ASSUME NEW t \in AllThreads, t < n
          PROVE  t < n + 1 /\ bm_thread'[t].i = bm_thread[t].i
      BY <3>2, <2>4, <2>7, <2>8
    <3>3. CASE bm_main.arg.seq
      <4>1. ASSUME NEW t \in AllThreads, t < n + 1
            PROVE  0 .. bm_thread'[t].i - 1 \subseteq bm_db.keys
        <5>1. CASE t = n
          <6>1. bm_thread'[t].i = 0
            BY <5>1, <2>6, <2>7
          <6>2. QED
            BY <6>1
        <5>2. CASE t # n
          <6>1. t < n
            BY <4>1, <5>2, <2>8
          <6>2. QED
            BY <6>1, <1>2, <2>1, <3>1, <3>2, <3>3 DEF BmInv, FillInv
        <5>3. QED
          BY <5>1, <5>2
      <4>2. ASSUME NEW k \in bm_db.keys
            PROVE  \E t \in AllThreads : t < n + 1 /\ k < bm_thread'[t].i
        <5>1. PICK t \in AllThreads : t < n /\ k < bm_thread[t].i
          BY <1>2, <2>1, <3>1, <3>3 DEF BmInv, FillInv
        <5>2. QED
          BY <5>1, <3>2
      <4>3. QED
        BY <4>1, <4>2, <1>2, <2>5, <3>3 DEF FillInv
    <3>4. CASE ~bm_main.arg.seq
      <4>1. PICK f \in [AllThreads -> [Nat -> Nat]] : \A k \in bm_db.keys :
               \E t \in AllThreads, j \in Nat : t < n /\ j < bm_thread[t].i /\ f[t][j] = k
        BY <1>2, <2>1, <3>1, <3>4 DEF BmInv, FillInv
      <4>2. bm_db.keys \subseteq 0 .. FLAGS_num - 1
        BY <1>2, <3>1, <3>4 DEF BmInv, FillInv
      <4>3. \A k \in bm_db.keys :
               \E t \in AllThreads, j \in Nat : t < n + 1 /\ j < bm_thread'[t].i /\ f[t][j] = k
        BY <4>1, <3>2
      <4>4. QED
        BY <4>2, <4>3, <1>2, <2>5, <3>4 DEF FillInv
    <3>5. QED
      BY <3>3, <3>4
  <2>16. QED
    BY <1>2, <2>10, <2>11, <2>12, <2>13, <2>14, <2>15, ReportFrame DEF BmInv
<1>5. CASE ~(bm_main.spawned < bm_main.arg.threads)
  <2>1. bm_main' = [bm_main EXCEPT !.pc = "initializing"] /\ bm_thread' = bm_thread
    BY <1>5 DEF StartThread
  <2>2. /\ bm_main' \in MainType(bm_main.arg) /\ bm_main'.pc = "initializing"
        /\ bm_main'.arg = bm_main.arg /\ bm_main'.spawned = bm_main.spawned
    BY <1>1, <2>1, MainGoes DEF MainPcs
  <2>3. BmTypeOK'
    BY <1>1, <1>2, <2>1, <2>2, TypeFrame DEF BmInv
  <2>4. BarrierInv'
    <3>1. Running' /\ Initialized' = Initialized /\ Finished' = Finished
      BY <2>1, <2>2 DEF Running, Initialized, Finished
    <3>2. bm_main.spawned = bm_main.arg.threads
      BY <1>1, <1>3, <1>5
    <3>3. QED
      BY <1>2, <1>3, <2>1, <2>2, <3>1, <3>2 DEF BmInv, BarrierInv
  <2>5. SameWork
    BY <2>1 DEF SameWork
  <2>6. CountsInv' /\ WriterInv' /\ PtrInv' /\ FillInv'
    BY <1>2, <2>2, <2>5, WorkFrame
  <2>7. QED
    BY <1>2, <2>3, <2>4, <2>6, ReportFrame DEF BmInv
<1>6. QED
  BY <1>4, <1>5

\* When as many threads as there are have passed a barrier, all have.
LEMMA EveryThread ==
    ASSUME BmInv, Running, bm_main.pc # "spawn"
    PROVE  /\ bm_shared.num_initialized >= bm_main.arg.threads =>
                 \A t \in AllThreads : bm_thread[t].pc # "init"
           /\ bm_shared.num_done >= bm_main.arg.threads =>
                 \A t \in AllThreads : bm_thread[t].pc \in {"leaving", "gone"}
<1>1. PICK n : n = bm_main.arg.threads
  OBVIOUS
<1>2. n \in Nat /\ Threads(n) \subseteq AllThreads /\ bm_main.spawned = n
  BY <1>1, Types DEF BmInv, BarrierInv
<1>3. /\ bm_shared.num_initialized = Cardinality(Initialized) /\ bm_shared.num_done = Cardinality(Finished)
      /\ \A t \in AllThreads : bm_thread[t].pc # "gone" => t < n
  BY <1>2 DEF BmInv, BarrierInv
<1>4. \A t \in AllThreads : t < n => t \in Threads(n)
  BY <1>2, ThreadSet DEF Threads
<1>5. Initialized \subseteq Threads(n) /\ Finished \subseteq Threads(n)
  BY <1>2, <1>4 DEF Initialized, Finished
<1>6. ASSUME bm_shared.num_initialized >= n
      PROVE  \A t \in AllThreads : bm_thread[t].pc # "init"
  <2>1. Initialized = Threads(n)
    BY <1>2, <1>3, <1>5, <1>6, AllOf
  <2>2. QED
    BY <2>1, <1>3, <1>4 DEF Initialized
<1>7. ASSUME bm_shared.num_done >= n
      PROVE  \A t \in AllThreads : bm_thread[t].pc \in {"leaving", "gone"}
  <2>1. Finished = Threads(n)
    BY <1>2, <1>3, <1>5, <1>7, AllOf
  <2>2. QED
    BY <2>1, <1>3, <1>4 DEF Finished
<1>8. QED
  BY <1>1, <1>6, <1>7

\* The first wait of RunBenchmark.
LEMMA BmAwaitInitialized ==
    ASSUME BmInv, AwaitInitialized
    PROVE  BmInv'
<1>1. /\ bm_main \in MainType(bm_main.arg) /\ bm_shared \in SharedType
      /\ bm_thread \in [AllThreads -> ThreadStateType]
      /\ bm_main.arg.threads \in Nat /\ bm_main.spawned \in Nat
  BY Types DEF BmInv
<1>2. /\ bm_main.pc = "initializing" /\ Running
      /\ UNCHANGED <<bm_existing, bm_db, bm_reported, bm_misuse>>
  BY DEF AwaitInitialized, Running
<1>3. bm_main.spawned = bm_main.arg.threads /\ bm_shared.alive /\ ~bm_shared.start
  BY <1>2 DEF BmInv, BarrierInv
<1>4. CASE bm_shared.num_initialized < bm_main.arg.threads
  <2>1. bm_main' = [bm_main EXCEPT !.pc = "asleep1"] /\ bm_shared' = bm_shared /\ bm_thread' = bm_thread
    BY <1>4 DEF AwaitInitialized
  <2>2. /\ bm_main' \in MainType(bm_main.arg) /\ bm_main'.pc = "asleep1"
        /\ bm_main'.arg = bm_main.arg /\ bm_main'.spawned = bm_main.spawned
    BY <1>1, <2>1, MainGoes DEF MainPcs
  <2>3. BmTypeOK'
    BY <1>1, <1>2, <2>1, <2>2, TypeFrame DEF BmInv
  <2>4. BarrierInv'
    <3>1. Running' /\ Initialized' = Initialized /\ Finished' = Finished
      BY <2>1, <2>2 DEF Running, Initialized, Finished
    <3>2. QED
      BY <1>2, <1>3, <2>1, <2>2, <3>1 DEF BmInv, BarrierInv
  <2>5. SameWork
    BY <2>1 DEF SameWork
  <2>6. CountsInv' /\ WriterInv' /\ PtrInv' /\ FillInv'
    BY <1>2, <2>2, <2>5, WorkFrame
  <2>7. QED
    BY <1>2, <2>3, <2>4, <2>6, ReportFrame DEF BmInv
<1>5. CASE ~(bm_shared.num_initialized < bm_main.arg.threads)
  <2>1. /\ bm_main' = [bm_main EXCEPT !.pc = "finishing"] /\ bm_shared' = [bm_shared EXCEPT !.start = TRUE]
        /\ bm_thread' = WakeThreads
    BY <1>5 DEF AwaitInitialized
  <2>2. /\ bm_main' \in MainType(bm_main.arg) /\ bm_main'.pc = "finishing"
        /\ bm_main'.arg = bm_main.arg /\ bm_main'.spawned = bm_main.spawned
    BY <1>1, <2>1, MainGoes DEF MainPcs
  <2>3. /\ bm_shared' \in SharedType /\ bm_shared'.start /\ bm_shared'.alive
        /\ bm_shared'.mu = bm_shared.mu /\ bm_shared'.total = bm_shared.total
        /\ bm_shared'.num_initialized = bm_shared.num_initialized /\ bm_shared'.num_done = bm_shared.num_done
    BY <1>1, <1>3, <2>1 DEF SharedType
  <2>4. ASSUME NEW t \in AllThreads
        PROVE  /\ bm_thread'[t] \in ThreadStateType
               /\ bm_thread'[t].pc = IF bm_thread[t].pc = "asleep" THEN "ready" ELSE bm_thread[t].pc
               /\ bm_thread'[t].i = bm_thread[t].i /\ bm_thread'[t].done = bm_thread[t].done
               /\ bm_thread'[t].deleted = bm_thread[t].deleted
    <3>1. PICK r : r = bm_thread[t]
      OBVIOUS
    <3>2. PICK p : p = IF r.pc = "asleep" THEN "ready" ELSE r.pc
      OBVIOUS
    <3>3. r \in ThreadStateType
      BY <1>1, <3>1
    <3>4. p \in BmPcs
      BY <3>2, <3>3 DEF ThreadStateType, BmPcs
    <3>5. bm_thread'[t] = [r EXCEPT !.pc = p]
      BY <2>1, <3>1, <3>2 DEF WakeThreads
    <3>6. QED
      BY <3>1, <3>2, <3>3, <3>4, <3>5 DEF ThreadStateType
  <2>5. bm_thread' \in [AllThreads -> ThreadStateType]
    BY <2>1, <2>4 DEF WakeThreads
  <2>6. BmTypeOK'
    BY <1>1, <1>2, <2>2, <2>3, <2>5, TypeFrame DEF BmInv
  <2>7. \A t \in AllThreads : bm_thread[t].pc # "init"
    <3>1. bm_shared.num_initialized \in Nat
      BY <1>1 DEF SharedType
    <3>2. bm_shared.num_initialized >= bm_main.arg.threads
      BY <3>1, <1>1, <1>5
    <3>3. QED
      BY <3>2, <1>2, EveryThread
  <2>8. BarrierInv'
    <3>1. Running' /\ Initialized' = Initialized /\ Finished' = Finished
      BY <2>2, <2>4 DEF Running, Initialized, Finished
    <3>2. \A t \in AllThreads : bm_thread'[t].pc # "init"
      BY <2>4, <2>7
    <3>3. \A t \in AllThreads : /\ bm_thread'[t].pc # "gone" => bm_thread[t].pc # "gone"
                                /\ bm_thread'[t].pc = "leaving" <=> bm_thread[t].pc = "leaving"
      BY <2>4
    <3>4. QED
      BY <1>2, <1>3, <2>2, <2>3, <3>1, <3>2, <3>3 DEF BmInv, BarrierInv
  <2>9. SameWork
    BY <2>4 DEF SameWork
  <2>10. CountsInv' /\ WriterInv' /\ PtrInv' /\ FillInv'
    BY <1>2, <2>2, <2>9, WorkFrame
  <2>11. QED
    BY <1>2, <2>6, <2>8, <2>10, ReportFrame DEF BmInv
<1>6. QED
  BY <1>4, <1>5

\* A thread that is there, and what mu says of the others.
LEMMA ThreadThere ==
    ASSUME BmInv, NEW t \in AllThreads, bm_thread[t].pc # "gone"
    PROVE  /\ Running /\ t < bm_main.spawned /\ bm_shared.alive
           /\ bm_thread[t].pc \notin {"init", "asleep"} =>
                 bm_shared.start /\ bm_main.pc \in {"finishing", "asleep2"}
           /\ bm_thread[t].pc = "init" => ~bm_shared.start /\ bm_main.pc \notin {"finishing", "asleep2"}
           /\ Free => \A u \in AllThreads : bm_thread[u].pc # "leaving"
<1>1. Running /\ t < bm_main.spawned /\ bm_shared.alive
  BY DEF BmInv, BarrierInv
<1>2. bm_shared.start <=> bm_main.pc \in {"finishing", "asleep2"}
  BY <1>1 DEF BmInv, BarrierInv
<1>3. Free => \A u \in AllThreads : bm_thread[u].pc # "leaving"
  BY ThreadSet DEF BmInv, BarrierInv, Free
<1>4. QED
  BY <1>1, <1>2, <1>3 DEF BmInv, BarrierInv

\* The sets that the counters count are finite.
LEMMA CountersFinite == IsFiniteSet(Initialized) /\ IsFiniteSet(Finished)
<1>1. Initialized \in SUBSET AllThreads /\ Finished \in SUBSET AllThreads
  BY DEF Initialized, Finished
<1>2. QED
  BY <1>1, ThreadSet, FS_Subset

\* SignalAll on main's part.
LEMMA WakeMainIs ==
    ASSUME NEW a, NEW m \in MainType(a), m.pc \notin {"pick", "over"},
           NEW m2, m2 = m \/ m2 = [m EXCEPT !.pc = WakeMain(@)]
    PROVE  /\ m2 \in MainType(a) /\ m2.arg = a /\ m2.spawned = m.spawned
           /\ m2.pc \notin {"pick", "over"}
           /\ m2.pc = "spawn" <=> m.pc = "spawn"
           /\ m2.pc \in {"finishing", "asleep2"} <=> m.pc \in {"finishing", "asleep2"}
<1>1. PICK p : p = WakeMain(m.pc)
  OBVIOUS
<1>2. m.pc \in MainPcs /\ m.arg = a
  BY DEF MainType
<1>3. /\ p \in MainPcs \ {"pick", "over"}
      /\ p = "spawn" <=> m.pc = "spawn"
      /\ p \in {"finishing", "asleep2"} <=> m.pc \in {"finishing", "asleep2"}
  BY <1>1, <1>2 DEF WakeMain, MainPcs
<1>4. CASE m2 = m
  BY <1>2, <1>4
<1>5. CASE m2 = [m EXCEPT !.pc = p]
  <2>1. m2 \in MainType(a) /\ m2.pc = p /\ m2.arg = a /\ m2.spawned = m.spawned
    <3>1. p \in MainPcs
      BY <1>3
    <3>2. QED
      BY <3>1, <1>2, <1>5 DEF MainType
  <2>2. QED
    BY <2>1, <1>3
<1>6. QED
  BY <1>1, <1>4, <1>5

\* The first critical section of ThreadBody.
LEMMA BmThreadInit ==
    ASSUME BmInv, NEW t \in AllThreads, ThreadInit(t)
    PROVE  BmInv'
<1>1. /\ bm_main \in MainType(bm_main.arg) /\ bm_shared \in SharedType
      /\ bm_thread \in [AllThreads -> ThreadStateType]
  BY Types DEF BmInv
<1>2. /\ bm_thread[t].pc = "init" /\ Free
      /\ bm_shared' = [bm_shared EXCEPT !.num_initialized = @ + 1]
      /\ bm_main' = bm_main \/ bm_main' = [bm_main EXCEPT !.pc = WakeMain(@)]
      /\ UNCHANGED <<bm_existing, bm_db, bm_reported, bm_misuse>>
  BY DEF ThreadInit
<1>3. /\ Running /\ t < bm_main.spawned /\ bm_shared.alive /\ ~bm_shared.start
      /\ bm_main.pc \notin {"finishing", "asleep2"}
  BY <1>2, ThreadThere
<1>4. /\ bm_shared' \in SharedType /\ bm_shared'.num_initialized = bm_shared.num_initialized + 1
      /\ bm_shared'.num_done = bm_shared.num_done /\ bm_shared'.total = bm_shared.total
      /\ bm_shared'.mu = bm_shared.mu /\ bm_shared'.alive /\ ~bm_shared'.start
  BY <1>1, <1>2, <1>3 DEF SharedType
<1>5. bm_thread' = [bm_thread EXCEPT ![t].pc = "asleep"]
  <2>1. PICK shared : shared = [bm_shared EXCEPT !.num_initialized = @ + 1]
    OBVIOUS
  <2>2. ~shared.start
    BY <1>1, <1>3, <2>1 DEF SharedType
  <2>3. bm_thread' = [bm_thread EXCEPT ![t].pc = IF Awaits(shared) THEN "asleep" ELSE "run"]
    BY <2>1 DEF ThreadInit
  <2>4. QED
    BY <2>2, <2>3 DEF Awaits
<1>6. /\ bm_thread' \in [AllThreads -> ThreadStateType]
      /\ \A u \in AllThreads : /\ bm_thread'[u].pc = IF u = t THEN "asleep" ELSE bm_thread[u].pc
                               /\ bm_thread'[u].i = bm_thread[u].i /\ bm_thread'[u].done = bm_thread[u].done
                               /\ bm_thread'[u].deleted = bm_thread[u].deleted
  BY <1>1, <1>5, ThreadGoes DEF BmPcs
<1>7. /\ bm_main' \in MainType(bm_main.arg) /\ bm_main'.arg = bm_main.arg
      /\ bm_main'.spawned = bm_main.spawned /\ bm_main'.pc \notin {"pick", "over", "finishing", "asleep2"}
      /\ bm_main'.pc = "spawn" <=> bm_main.pc = "spawn"
  BY <1>1, <1>2, <1>3, WakeMainIs DEF Running
<1>8. BmTypeOK'
  BY <1>2, <1>4, <1>6, <1>7, TypeFrame DEF BmInv
<1>9. BarrierInv'
  <2>1. Running'
    BY <1>7 DEF Running
  <2>2. Initialized' = Initialized \cup {t} /\ t \notin Initialized /\ Finished' = Finished
    BY <1>2, <1>3, <1>6, <1>7 DEF Initialized, Finished
  <2>3. Cardinality(Initialized') = Cardinality(Initialized) + 1
    BY <2>2, CountersFinite, FS_AddElement
  <2>4. \A u \in AllThreads : /\ bm_thread'[u].pc # "gone" => u < bm_main'.spawned
                              /\ bm_shared'.mu = u <=> bm_thread'[u].pc = "leaving"
                              /\ u < bm_main'.spawned => bm_thread'[u].pc \in {"init", "asleep"}
    BY <1>2, <1>3, <1>4, <1>6, <1>7 DEF BmInv, BarrierInv
  <2>5. QED
    BY <1>3, <1>4, <1>7, <2>1, <2>2, <2>3, <2>4 DEF BmInv, BarrierInv
<1>10. SameWork
  BY <1>2, <1>6 DEF SameWork
<1>11. CountsInv' /\ WriterInv' /\ PtrInv' /\ FillInv'
  BY <1>2, <1>3, <1>7, <1>10, WorkFrame
<1>12. QED
  BY <1>2, <1>8, <1>9, <1>11, ReportFrame DEF BmInv

\* The wait in it.
LEMMA BmThreadReady ==
    ASSUME BmInv, NEW t \in AllThreads, ThreadReady(t)
    PROVE  BmInv'
<1>1. /\ bm_main \in MainType(bm_main.arg) /\ bm_shared \in SharedType
      /\ bm_thread \in [AllThreads -> ThreadStateType]
  BY Types DEF BmInv
<1>2. /\ bm_thread[t].pc = "ready"
      /\ UNCHANGED <<bm_existing, bm_main, bm_shared, bm_db, bm_reported, bm_misuse>>
  BY DEF ThreadReady
<1>3. Running /\ t < bm_main.spawned /\ bm_shared.start
  BY <1>2, ThreadThere
<1>4. bm_thread' = [bm_thread EXCEPT ![t].pc = "run"]
  BY <1>3 DEF ThreadReady, Awaits
<1>5. /\ bm_thread' \in [AllThreads -> ThreadStateType]
      /\ \A u \in AllThreads : /\ bm_thread'[u].pc = IF u = t THEN "run" ELSE bm_thread[u].pc
                               /\ bm_thread'[u].i = bm_thread[u].i /\ bm_thread'[u].done = bm_thread[u].done
                               /\ bm_thread'[u].deleted = bm_thread[u].deleted
  BY <1>1, <1>4, ThreadGoes DEF BmPcs
<1>6. BmTypeOK'
  BY <1>1, <1>2, <1>5, TypeFrame DEF BmInv
<1>7. BarrierInv'
  <2>1. Running' /\ Initialized' = Initialized /\ Finished' = Finished
    BY <1>2, <1>3, <1>5 DEF Running, Initialized, Finished
  <2>2. QED
    BY <1>2, <1>3, <1>5, <2>1 DEF BmInv, BarrierInv
<1>8. SameWork
  BY <1>2, <1>5 DEF SameWork
<1>9. CountsInv' /\ WriterInv' /\ PtrInv' /\ FillInv'
  <2>1. bm_main'.pc # "over"
    BY <1>2, <1>3 DEF Running
  <2>2. QED
    BY <1>2, <1>3, <1>8, <2>1, WorkFrame
<1>10. QED
  BY <1>2, <1>6, <1>7, <1>9, ReportFrame DEF BmInv

\* The last critical section counts the thread...
LEMMA BmThreadDone ==
    ASSUME BmInv, NEW t \in AllThreads, ThreadDone(t)
    PROVE  BmInv'
<1>1. /\ bm_main \in MainType(bm_main.arg) /\ bm_shared \in SharedType
      /\ bm_thread \in [AllThreads -> ThreadStateType]
  BY Types DEF BmInv
<1>2. /\ bm_thread[t].pc = "stop" /\ Free
      /\ bm_shared' = [bm_shared EXCEPT !.num_done = @ + 1, !.mu = t]
      /\ bm_main' = bm_main \/ bm_main' = [bm_main EXCEPT !.pc = WakeMain(@)]
      /\ bm_thread' = [bm_thread EXCEPT ![t].pc = "leaving"]
      /\ UNCHANGED <<bm_existing, bm_db, bm_reported, bm_misuse>>
  BY DEF ThreadDone
<1>3. /\ Running /\ t < bm_main.spawned /\ bm_shared.alive /\ bm_shared.start
      /\ bm_main.pc \in {"finishing", "asleep2"}
      /\ \A u \in AllThreads : bm_thread[u].pc # "leaving"
  BY <1>2, ThreadThere
<1>4. /\ bm_shared' \in SharedType /\ bm_shared'.num_initialized = bm_shared.num_initialized
      /\ bm_shared'.num_done = bm_shared.num_done + 1 /\ bm_shared'.total = bm_shared.total
      /\ bm_shared'.mu = t /\ bm_shared'.alive /\ bm_shared'.start
  <2>1. PICK s : s = bm_shared
    OBVIOUS
  <2>2. PICK n : n = s.num_done + 1
    OBVIOUS
  <2>3. n \in Nat
    BY <1>1, <2>1, <2>2 DEF SharedType
  <2>4. bm_shared' = [s EXCEPT !.num_done = n, !.mu = t]
    BY <1>2, <2>1, <2>2
  <2>5. QED
    BY <1>1, <1>3, <2>1, <2>2, <2>3, <2>4 DEF SharedType
<1>5. /\ bm_thread' \in [AllThreads -> ThreadStateType]
      /\ \A u \in AllThreads : /\ bm_thread'[u].pc = IF u = t THEN "leaving" ELSE bm_thread[u].pc
                               /\ bm_thread'[u].i = bm_thread[u].i /\ bm_thread'[u].done = bm_thread[u].done
                               /\ bm_thread'[u].deleted = bm_thread[u].deleted
  BY <1>1, <1>2, ThreadGoes DEF BmPcs
<1>6. /\ bm_main' \in MainType(bm_main.arg) /\ bm_main'.arg = bm_main.arg
      /\ bm_main'.spawned = bm_main.spawned /\ bm_main'.pc \in {"finishing", "asleep2"}
  BY <1>1, <1>2, <1>3, WakeMainIs
<1>7. BmTypeOK'
  BY <1>2, <1>4, <1>5, <1>6, TypeFrame DEF BmInv
<1>8. BarrierInv'
  <2>1. Running'
    BY <1>6 DEF Running
  <2>2. Finished' = Finished \cup {t} /\ t \notin Finished /\ Initialized' = Initialized
    BY <1>2, <1>3, <1>5, <1>6 DEF Initialized, Finished
  <2>3. Cardinality(Finished') = Cardinality(Finished) + 1
    BY <2>2, CountersFinite, FS_AddElement
  <2>4. \A u \in AllThreads : /\ bm_thread'[u].pc # "gone" => u < bm_main'.spawned
                              /\ bm_shared'.mu = u <=> bm_thread'[u].pc = "leaving"
                              /\ bm_thread'[u].pc # "init"
    BY <1>2, <1>3, <1>4, <1>5, <1>6 DEF BmInv, BarrierInv
  <2>5. bm_main.pc # "spawn" /\ bm_main'.pc # "spawn"
    BY <1>3, <1>6
  <2>6. QED
    BY <1>3, <1>4, <1>6, <2>1, <2>2, <2>3, <2>4, <2>5 DEF BmInv, BarrierInv
<1>9. SameWork
  BY <1>2, <1>5 DEF SameWork
<1>10. CountsInv' /\ WriterInv' /\ PtrInv' /\ FillInv'
  <2>1. bm_main'.pc # "over"
    BY <1>6
  <2>2. QED
    BY <1>2, <1>3, <1>6, <1>9, <2>1, WorkFrame
<1>11. QED
  BY <1>2, <1>7, <1>8, <1>10, ReportFrame DEF BmInv

\* ... and ends with the unlock of mu.
LEMMA BmThreadLeaves ==
    ASSUME BmInv, NEW t \in AllThreads, ThreadLeaves(t)
    PROVE  BmInv'
<1>1. /\ bm_main \in MainType(bm_main.arg) /\ bm_shared \in SharedType
      /\ bm_thread \in [AllThreads -> ThreadStateType]
  BY Types DEF BmInv
<1>2. /\ bm_thread[t].pc = "leaving" /\ bm_shared' = [bm_shared EXCEPT !.mu = Nil]
      /\ bm_thread' = [bm_thread EXCEPT ![t].pc = "gone"]
      /\ UNCHANGED <<bm_existing, bm_main, bm_db, bm_reported, bm_misuse>>
  BY DEF ThreadLeaves
<1>3. Running /\ t < bm_main.spawned /\ bm_shared.alive /\ bm_shared.start
  BY <1>2, ThreadThere
<1>4. \A u \in AllThreads : bm_thread[u].pc = "leaving" => u = t
  BY <1>2 DEF BmInv, BarrierInv
<1>5. /\ bm_shared' \in SharedType /\ bm_shared'.num_initialized = bm_shared.num_initialized
      /\ bm_shared'.num_done = bm_shared.num_done /\ bm_shared'.total = bm_shared.total
      /\ bm_shared'.mu = Nil /\ bm_shared'.alive /\ bm_shared'.start
  BY <1>1, <1>2, <1>3 DEF SharedType
<1>6. /\ bm_thread' \in [AllThreads -> ThreadStateType]
      /\ \A u \in AllThreads : /\ bm_thread'[u].pc = IF u = t THEN "gone" ELSE bm_thread[u].pc
                               /\ bm_thread'[u].i = bm_thread[u].i /\ bm_thread'[u].done = bm_thread[u].done
                               /\ bm_thread'[u].deleted = bm_thread[u].deleted
  BY <1>1, <1>2, ThreadGoes DEF BmPcs
<1>7. BmTypeOK'
  BY <1>1, <1>2, <1>5, <1>6, TypeFrame DEF BmInv
<1>8. BarrierInv'
  <2>1. Running' /\ Initialized' = Initialized /\ Finished' = Finished
    BY <1>2, <1>3, <1>6 DEF Running, Initialized, Finished
  <2>2. \A u \in AllThreads : /\ bm_thread'[u].pc # "gone" => u < bm_main'.spawned
                              /\ bm_shared'.mu = u <=> bm_thread'[u].pc = "leaving"
                              /\ bm_thread'[u].pc # "init"
    BY <1>2, <1>3, <1>4, <1>5, <1>6, ThreadSet DEF BmInv, BarrierInv
  <2>3. QED
    BY <1>2, <1>3, <1>5, <2>1, <2>2 DEF BmInv, BarrierInv
<1>9. SameWork
  BY <1>2, <1>6 DEF SameWork
<1>10. CountsInv' /\ WriterInv' /\ PtrInv' /\ FillInv'
  <2>1. bm_main'.pc # "over"
    BY <1>2, <1>3 DEF Running
  <2>2. QED
    BY <1>2, <1>3, <1>9, <2>1, WorkFrame
<1>11. QED
  BY <1>2, <1>7, <1>8, <1>10, ReportFrame DEF BmInv

\* A set of which every member comes from one of n threads' m operations.
LEMMA PairsCover ==
    ASSUME NEW n \in Nat, NEW m \in Nat, NEW f, NEW keys,
           \A k \in keys : \E t \in Threads(n), j \in 0 .. m - 1 : f[t][j] = k
    PROVE  Cardinality(keys) <= n * m
<1> DEFINE S == Threads(n) \X (0 .. m - 1)
           g == [p \in S |-> f[p[1]][p[2]]]
           T == {g[p] : p \in S}
<1>1. ASSUME NEW x \in Nat
      PROVE  IsFiniteSet(0 .. x - 1) /\ Cardinality(0 .. x - 1) = x
  <2>1. x - 1 \in Int /\ 0 \in Int
    OBVIOUS
  <2>2. IsFiniteSet(0 .. x - 1) /\ Cardinality(0 .. x - 1) = IF 0 > x - 1 THEN 0 ELSE x - 1 - 0 + 1
    BY <2>1, FS_Interval
  <2>3. QED
    BY <2>2
<1>2. /\ IsFiniteSet(Threads(n)) /\ Cardinality(Threads(n)) = n
      /\ IsFiniteSet(0 .. m - 1) /\ Cardinality(0 .. m - 1) = m
  BY <1>1 DEF Threads
<1>3. IsFiniteSet(S) /\ Cardinality(S) = n * m
  <2>1. PICK A, B : A = Threads(n) /\ B = 0 .. m - 1
    OBVIOUS
  <2>2. IsFiniteSet(A \X B) /\ Cardinality(A \X B) = Cardinality(A) * Cardinality(B)
    BY <1>2, <2>1, FS_Product
  <2>3. QED
    BY <1>2, <2>1, <2>2
<1>4. g \in Surjection(S, T)
  BY DEF Surjection
<1>5. IsFiniteSet(T) /\ Cardinality(T) <= Cardinality(S)
  <2> HIDE DEF S, g, T
  <2>1. QED
    BY <1>3, <1>4, FS_Surjection
<1>6. keys \subseteq T
  <2>1. SUFFICES ASSUME NEW k \in keys PROVE k \in T
    OBVIOUS
  <2>2. PICK t \in Threads(n), j \in 0 .. m - 1 : f[t][j] = k
    OBVIOUS
  <2>3. <<t, j>> \in S /\ g[<<t, j>>] = k
    BY <2>2
  <2> HIDE DEF S, g
  <2>4. QED
    BY <2>3
<1> HIDE DEF S, g, T
<1>7. Cardinality(keys) <= Cardinality(T) /\ Cardinality(keys) \in Nat /\ Cardinality(T) \in Nat
  <2>1. keys \in SUBSET T
    BY <1>6
  <2>2. IsFiniteSet(keys) /\ Cardinality(keys) <= Cardinality(T)
    BY <1>5, <2>1, FS_Subset
  <2>3. QED
    BY <1>5, <2>2, FS_CardinalityType
<1>8. QED
  BY <1>3, <1>5, <1>7

\* The threads have done what they were to: the sum is what RunBenchmark is to report.
LEMMA MergeIsExpected ==
    ASSUME NEW a, GoodArg(a), a.body # "none", NEW keys, IsFiniteSet(keys),
           \A t \in Threads(a.threads) : bm_thread[t].done = Goal(a, keys, t)
    PROVE  StatsMerge(a.threads) = Expected(a, keys)
<1>1. PICK n : n = a.threads
  OBVIOUS
<1>2. n \in Nat \ {0} /\ a.reads \in Nat /\ a.body \in BmBodies
  BY <1>1 DEF GoodArg
<1>3. CASE a.body = "mixed"
  <2>1. PICK g : g = a.reads
    OBVIOUS
  <2>2. \A t \in Threads(n) : bm_thread[t].done = IF t = 0 THEN 0 ELSE g
    BY <1>1, <1>3, <2>1, GoalIs
  <2>3. 0 * g = 0 /\ g \in Nat /\ (n - 1 + 0) * g = (n - 1) * g
    BY <1>2, <2>1
  <2>4. \A t \in Threads(n) : bm_thread[t].done = IF t = 0 THEN 0 * g ELSE g
    BY <2>2, <2>3
  <2>5. StatsMerge(n) = (n - 1 + 0) * g
    BY <1>2, <2>3, <2>4, MergeAdds
  <2>6. Expected(a, keys) = (n - 1) * g
    BY <1>1, <1>3, <2>1 DEF Expected
  <2>7. QED
    BY <1>1, <2>3, <2>5, <2>6
<1>4. CASE a.body # "mixed"
  <2>1. PICK g : g = Goal(a, keys, 0)
    OBVIOUS
  <2>2. g \in Nat
    BY <2>1, GoalType
  <2>3. \A t \in Threads(n) : bm_thread[t].done = g
    <3>1. ASSUME NEW t
          PROVE  Goal(a, keys, t) = Goal(a, keys, 0)
      BY <1>4 DEF Goal
    <3>2. QED
      BY <1>1, <2>1, <3>1
  <2>4. 1 * g = g /\ (n - 1 + 1) * g = n * g
    BY <1>2, <2>2
  <2>5. \A t \in Threads(n) : bm_thread[t].done = IF t = 0 THEN 1 * g ELSE g
    BY <2>3, <2>4
  <2>6. StatsMerge(n) = (n - 1 + 1) * g
    BY <1>2, <2>2, <2>5, MergeAdds
  <2>7. Expected(a, keys) = n * g
    <3>1. CASE a.body \in {"write", "delete"}
      BY <3>1, <1>1, <2>1, GoalIs DEF Expected
    <3>2. CASE a.body \in {"open", "get", "suget", "seek", "spin"}
      BY <3>2, <1>1, <2>1, GoalIs DEF Expected
    <3>3. CASE a.body = "scan"
      BY <3>3, <1>1, <2>1, GoalIs DEF Expected
    <3>4. CASE a.body = "compact"
      <4>1. g = 0 /\ Expected(a, keys) = 0
        BY <3>4, <2>1, GoalIs DEF Expected
      <4>2. n * 0 = 0
        BY <1>2
      <4>3. QED
        BY <4>1, <4>2
    <3>5. QED
      BY <3>1, <3>2, <3>3, <3>4, <1>2, <1>4 DEF BmBodies
  <2>8. QED
    BY <1>1, <2>4, <2>6, <2>7
<1>5. QED
  BY <1>3, <1>4

\* The second wait of RunBenchmark, and the report.
LEMMA BmAwaitDone ==
    ASSUME BmInv, AwaitDone
    PROVE  BmInv'
<1>1. /\ bm_main \in MainType(bm_main.arg) /\ bm_shared \in SharedType
      /\ bm_thread \in [AllThreads -> ThreadStateType]
      /\ bm_main.arg.threads \in Nat /\ bm_main.arg.threads > 0 /\ bm_main.spawned \in Nat
      /\ GoodArg(bm_main.arg) /\ Threads(bm_main.arg.threads) \subseteq AllThreads
  BY Types DEF BmInv
<1>2. /\ bm_main.pc = "finishing" /\ Running /\ Free
      /\ UNCHANGED <<bm_existing, bm_thread, bm_db, bm_misuse>>
  BY DEF AwaitDone, Running
<1>3. bm_main.spawned = bm_main.arg.threads /\ bm_shared.alive /\ bm_shared.start /\ bm_main.arg.body # "none"
  BY <1>2 DEF BmInv, BarrierInv
<1>4. SameWork
  BY <1>2 DEF SameWork
<1>5. CASE ~AllDone
  <2>1. bm_main' = [bm_main EXCEPT !.pc = "asleep2"] /\ bm_shared' = bm_shared /\ bm_reported' = bm_reported
    BY <1>5 DEF AwaitDone
  <2>2. /\ bm_main' \in MainType(bm_main.arg) /\ bm_main'.pc = "asleep2"
        /\ bm_main'.arg = bm_main.arg /\ bm_main'.spawned = bm_main.spawned
    BY <1>1, <2>1, MainGoes DEF MainPcs
  <2>3. BmTypeOK'
    BY <1>1, <1>2, <2>1, <2>2, TypeFrame DEF BmInv
  <2>4. BarrierInv'
    <3>1. Running' /\ Initialized' = Initialized /\ Finished' = Finished
      BY <1>2, <2>2 DEF Running, Initialized, Finished
    <3>2. QED
      BY <1>2, <1>3, <2>1, <2>2, <3>1 DEF BmInv, BarrierInv
  <2>5. CountsInv' /\ WriterInv' /\ PtrInv' /\ FillInv'
    BY <1>2, <1>4, <2>2, WorkFrame
  <2>6. QED
    BY <2>1, <2>3, <2>4, <2>5, ReportFrame DEF BmInv
<1>6. CASE AllDone
  <2>1. /\ bm_main' = [bm_main EXCEPT !.pc = "pick"] /\ bm_shared' = [bm_shared EXCEPT !.alive = FALSE]
        /\ bm_reported' = [arg |-> bm_main.arg, keys |-> bm_db.keys,
                           done |-> AtLeastOne(StatsMerge(bm_main.arg.threads))]
    BY <1>6 DEF AwaitDone
  <2>2. /\ bm_main' \in MainType(bm_main.arg) /\ bm_main'.pc = "pick"
        /\ bm_main'.arg = bm_main.arg /\ bm_main'.spawned = bm_main.spawned
    BY <1>1, <2>1, MainGoes DEF MainPcs
  <2>3. bm_shared' \in SharedType /\ ~bm_shared'.alive /\ bm_shared'.mu = bm_shared.mu
    BY <1>1, <2>1 DEF SharedType
  <2>4. \A t \in AllThreads : bm_thread[t].pc = "gone"
    <3>1. \A t \in AllThreads : bm_thread[t].pc \in {"leaving", "gone"}
      BY <1>2, <1>6, EveryThread DEF AllDone
    <3>2. \A t \in AllThreads : bm_thread[t].pc # "leaving"
      BY <1>2, ThreadSet DEF BmInv, BarrierInv, Free
    <3>3. QED
      BY <3>1, <3>2
  <2>5. BmTypeOK'
    BY <1>1, <1>2, <2>2, <2>3, TypeFrame DEF BmInv
  <2>6. BarrierInv'
    <3>1. ~Running'
      BY <2>2 DEF Running
    <3>2. QED
      BY <1>2, <2>3, <2>4, <3>1 DEF BmInv, BarrierInv
  <2>7. CountsInv' /\ WriterInv' /\ PtrInv' /\ FillInv'
    BY <1>2, <1>4, <2>2, WorkFrame
  <2>8. PICK a, keys : a = bm_main.arg /\ keys = bm_db.keys
    OBVIOUS
  <2>9. keys \subseteq Nat /\ IsFiniteSet(keys)
    BY <2>8 DEF BmInv, BmTypeOK
  <2>10. /\ \A t \in Threads(a.threads) : t \in AllThreads /\ t < bm_main.spawned
         /\ \A t \in AllThreads : t < bm_main.spawned => t \in Threads(a.threads)
    <3>1. PICK n : n = a.threads
      OBVIOUS
    <3>2. n \in Nat /\ bm_main.spawned = n /\ Threads(n) \subseteq AllThreads
      BY <1>1, <1>3, <2>8, <3>1
    <3>3. \A t \in Nat : t \in Threads(n) <=> t < n
      BY <3>2 DEF Threads
    <3>4. QED
      BY <3>1, <3>2, <3>3, ThreadSet
  <2>11. \A t \in Threads(a.threads) :
            /\ bm_thread[t].done = Goal(a, keys, t)
            /\ bm_thread[t].done = IF Counted(a, t) THEN bm_thread[t].i ELSE 0
    BY <1>2, <2>4, <2>8, <2>10 DEF BmInv, CountsInv
  <2>12. bm_reported'.arg = a /\ bm_reported'.keys = keys /\ bm_reported'.done = AtLeastOne(StatsMerge(a.threads))
    BY <2>1, <2>8
  <2>13. ReportCountsAll'
    <3>1. StatsMerge(a.threads) = Expected(a, keys)
      BY <1>1, <1>3, <2>8, <2>9, <2>11, MergeIsExpected
    <3>2. QED
      BY <2>12, <3>1 DEF ReportCountsAll
  <2>14. FillLeavesOnlyItsKeys'
    <3>1. SUFFICES ASSUME a.fresh PROVE FillLeavesOnlyItsKeys'
      BY <2>12 DEF FillLeavesOnlyItsKeys
    <3>2. /\ a.body = "write" /\ a.num \in Nat /\ a.entries_per_batch \in Nat \ {0}
          /\ a.seq => a.num = FLAGS_num
          /\ ~a.seq => a.entries_per_batch = 1
          /\ a.threads \in Nat /\ a.threads > 0
      BY <1>1, <2>8, <3>1 DEF GoodArg
    <3>3. PICK w : w = WholeBatches(a.num, a.entries_per_batch)
      OBVIOUS
    <3>4. w \in Nat
      BY <3>2, <3>3, WholeBatchesIs
    <3>5. \A t \in Threads(a.threads) : bm_thread[t].i = w
      BY <2>11, <3>2, <3>3, GoalIs DEF Counted
    <3>6. CASE a.seq
      <4>1. 0 \in Threads(a.threads)
        BY <3>2 DEF Threads
      <4>2. 0 .. bm_thread[0].i - 1 \subseteq keys
        BY <1>2, <2>8, <2>10, <3>1, <3>6, <4>1 DEF BmInv, FillInv
      <4>3. 0 .. w - 1 \subseteq keys
        BY <3>5, <4>1, <4>2
      <4>4. ASSUME NEW k \in keys
            PROVE  k \in 0 .. w - 1
        <5>1. PICK t \in AllThreads : t < bm_main.spawned /\ k < bm_thread[t].i
          BY <1>2, <2>8, <3>1, <3>6 DEF BmInv, FillInv
        <5>2. bm_thread[t].i = w /\ k \in Nat
          BY <2>9, <2>10, <3>5, <5>1
        <5>3. QED
          BY <5>1, <5>2, <3>4
      <4>5. keys = 0 .. w - 1
        BY <4>3, <4>4
      <4>6. QED
        BY <2>12, <3>2, <3>3, <3>6, <4>5 DEF FillLeavesOnlyItsKeys
    <3>7. CASE ~a.seq
      <4>1. w = a.num /\ WholeBatches(FLAGS_num, a.entries_per_batch) = FLAGS_num
        BY <3>2, <3>3, <3>7, WholeBatchesOfOne, BenchDriverAssumption
      <4>2. keys \subseteq 0 .. FLAGS_num - 1
        BY <1>2, <2>8, <3>1, <3>7 DEF BmInv, FillInv
      <4>3. PICK f \in [AllThreads -> [Nat -> Nat]] : \A k \in keys :
               \E t \in AllThreads, j \in Nat : t < bm_main.spawned /\ j < bm_thread[t].i /\ f[t][j] = k
        BY <1>2, <2>8, <3>1, <3>7 DEF BmInv, FillInv
      <4>4. \A k \in keys : \E t \in Threads(a.threads), j \in 0 .. a.num - 1 : f[t][j] = k
        <5>1. SUFFICES ASSUME NEW k \in keys
                       PROVE  \E t \in Threads(a.threads), j \in 0 .. a.num - 1 : f[t][j] = k
          OBVIOUS
        <5>2. PICK t \in AllThreads, j \in Nat : t < bm_main.spawned /\ j < bm_thread[t].i /\ f[t][j] = k
          BY <4>3
        <5>3. t \in Threads(a.threads) /\ bm_thread[t].i = a.num
          BY <2>10, <3>5, <4>1, <5>2
        <5>4. j \in 0 .. a.num - 1
          BY <5>2, <5>3, <3>2
        <5>5. QED
          BY <5>2, <5>3, <5>4
      <4>5. Cardinality(keys) <= a.threads * a.num
        <5>1. PICK n, m : n = a.threads /\ m = a.num
          OBVIOUS
        <5>2. n \in Nat /\ m \in Nat
          BY <3>2, <5>1
        <5>3. \A k \in keys : \E t \in Threads(n), j \in 0 .. m - 1 : f[t][j] = k
          BY <4>4, <5>1
        <5>4. Cardinality(keys) <= n * m
          BY <5>2, <5>3, PairsCover
        <5>5. QED
          BY <5>1, <5>4
      <4>6. QED
        BY <2>12, <3>7, <4>1, <4>2, <4>5 DEF FillLeavesOnlyItsKeys
    <3>8. QED
      BY <3>6, <3>7
  <2>15. QED
    BY <2>5, <2>6, <2>7, <2>13, <2>14 DEF BmInv
<1>7. QED
  BY <1>5, <1>6

\* Thread t runs its method: nothing else moves.
InMethod(t) ==
    /\ bm_thread[t].pc = "run" /\ UNCHANGED <<bm_existing, bm_main, bm_shared, bm_reported>>
    /\ bm_thread' \in [AllThreads -> ThreadStateType]
    /\ \A u \in AllThreads : u # t => bm_thread'[u] = bm_thread[u]

\* What is so while a thread runs its method.
LEMMA WhileRunning ==
    ASSUME BmInv, NEW t \in AllThreads, bm_thread[t].pc = "run"
    PROVE  /\ Running /\ t < bm_main.spawned /\ bm_shared.start /\ bm_main.arg.body # "none"
           /\ bm_main.spawned = bm_main.arg.threads /\ bm_main.pc # "over" /\ bm_main.pc # "spawn"
           /\ GoodArg(bm_main.arg) /\ Goal(bm_main.arg, bm_db.keys, t) \in Nat
           /\ bm_thread[t].i \in Nat /\ bm_thread[t].done \in Nat
           /\ bm_main.arg.body # "open" => bm_db.ptr = "live" /\ \A u \in AllThreads : ~bm_thread[u].deleted
<1>1. Running /\ t < bm_main.spawned /\ bm_shared.start /\ bm_main.pc \in {"finishing", "asleep2"}
  BY ThreadThere
<1>2. bm_main.pc # "over" /\ bm_main.pc # "spawn"
  BY <1>1
<1>3. bm_main.arg.body # "none" /\ bm_main.spawned = bm_main.arg.threads
  BY <1>1, <1>2 DEF BmInv, BarrierInv
<1>4. GoodArg(bm_main.arg) /\ IsFiniteSet(bm_db.keys)
  BY DEF BmInv, BmTypeOK
<1>5. Goal(bm_main.arg, bm_db.keys, t) \in Nat
  BY <1>3, <1>4, GoalType
<1>6. bm_thread[t].i \in Nat /\ bm_thread[t].done \in Nat
  BY Types DEF BmInv, ThreadStateType
<1>7. bm_main.arg.body # "open" => \A u \in AllThreads : ~bm_thread[u].deleted
  BY DEF BmInv, PtrInv
<1>8. bm_db.ptr \in {"null", "live", "freed"} /\ bm_db.ptr # "null"
  BY <1>2 DEF BmInv, PtrInv, BmTypeOK
<1>9. bm_main.arg.body # "open" => bm_db.ptr = "live"
  BY <1>7, <1>8 DEF BmInv, PtrInv
<1>10. QED
  BY <1>1, <1>2, <1>3, <1>4, <1>5, <1>6, <1>7, <1>9

\* What a turn of a method's loop leaves alone.
LEMMA TurnFrame ==
    ASSUME BmInv, NEW t \in AllThreads, InMethod(t), bm_thread'[t].pc = "run"
    PROVE  BarrierInv' /\ WriterInv' /\ ReportCountsAll' /\ FillLeavesOnlyItsKeys'
<1>1. \A u \in AllThreads : bm_thread'[u].pc = bm_thread[u].pc
  BY DEF InMethod
<1>2. bm_main' = bm_main /\ bm_shared' = bm_shared /\ bm_reported' = bm_reported
  BY DEF InMethod
<1>3. (Running' <=> Running) /\ Initialized' = Initialized /\ Finished' = Finished
  BY <1>1, <1>2 DEF Running, Initialized, Finished
<1>4. BarrierInv'
  BY <1>1, <1>2, <1>3 DEF BmInv, BarrierInv
<1>5. WriterInv'
  <2>1. SUFFICES ASSUME bm_main.arg.body = "mixed", bm_thread'[0].pc = "stop",
                        NEW u \in 1 .. bm_main.arg.threads - 1
                 PROVE  bm_thread'[u].pc \in {"leaving", "gone"}
    BY <1>2 DEF WriterInv
  <2>2. u \in AllThreads
    <3>1. bm_main.arg.threads \in Nat /\ Threads(bm_main.arg.threads) \subseteq AllThreads
      BY Types DEF BmInv
    <3>2. u \in Threads(bm_main.arg.threads)
      BY <3>1 DEF Threads
    <3>3. QED
      BY <3>1, <3>2
  <2>3. QED
    BY <1>1, <2>1, <2>2, ThreadSet DEF BmInv, WriterInv
<1>6. QED
  BY <1>2, <1>4, <1>5, ReportFrame

\* Whether a turn leaves thread t with the right count, for the old keys.
TurnCounts(t) ==
    /\ bm_thread'[t].pc = "run"
    /\ bm_thread'[t].done = IF Counted(bm_main.arg, t) THEN bm_thread'[t].i ELSE 0
    /\ bm_thread'[t].done <= Goal(bm_main.arg, bm_db.keys, t)
    /\ bm_main.arg.body \in {"write", "delete"} => bm_thread'[t].i % bm_main.arg.entries_per_batch = 0

\* Then all threads have it.
LEMMA WorkTurn ==
    ASSUME BmInv, NEW t \in AllThreads, InMethod(t), TurnCounts(t),
           bm_db'.keys = bm_db.keys \/ bm_main.arg.body # "scan"
    PROVE  CountsInv'
<1>1. bm_main' = bm_main
  BY DEF InMethod
<1>2. SUFFICES ASSUME Running, NEW u \in AllThreads, u < bm_main.spawned
               PROVE  /\ bm_thread'[u].done = IF Counted(bm_main.arg, u) THEN bm_thread'[u].i ELSE 0
                      /\ bm_thread'[u].done <= Goal(bm_main.arg, bm_db'.keys, u)
                      /\ bm_main.arg.body \in {"write", "delete"} =>
                             bm_thread'[u].i % bm_main.arg.entries_per_batch = 0
                      /\ bm_thread'[u].pc \in {"stop", "leaving", "gone"} =>
                             bm_thread'[u].done = Goal(bm_main.arg, bm_db'.keys, u)
  BY <1>1 DEF CountsInv, Running
<1>3. Goal(bm_main.arg, bm_db'.keys, u) = Goal(bm_main.arg, bm_db.keys, u)
  <2>1. GoodArg(bm_main.arg) /\ bm_main.arg.body # "none" /\ IsFiniteSet(bm_db.keys)
    BY <1>2 DEF BmInv, BmTypeOK, BarrierInv
  <2>2. bm_main.arg.body # "scan" => \A keys2 : Goal(bm_main.arg, keys2, u) = Goal(bm_main.arg, bm_db.keys, u)
    BY <2>1, GoalType
  <2>3. QED
    BY <2>2
<1>4. CASE u = t
  BY <1>3, <1>4 DEF TurnCounts
<1>5. CASE u # t
  <2>1. bm_thread'[u] = bm_thread[u]
    BY <1>5 DEF InMethod
  <2>2. QED
    BY <1>2, <1>3, <2>1 DEF BmInv, CountsInv
<1>6. QED
  BY <1>4, <1>5

\* n operations of thread t.
LEMMA OpsIs ==
    ASSUME BmInv, NEW t \in AllThreads, NEW n \in Nat, NEW th, th = Ops(n, t)
    PROVE  /\ th \in [AllThreads -> ThreadStateType]
           /\ th[t].i = bm_thread[t].i + n /\ th[t].done = bm_thread[t].done + n
           /\ th[t].pc = bm_thread[t].pc /\ th[t].deleted = bm_thread[t].deleted
           /\ \A u \in AllThreads : u # t => th[u] = bm_thread[u]
<1>1. PICK r : r = bm_thread[t]
  OBVIOUS
<1>2. bm_thread \in [AllThreads -> ThreadStateType] /\ r \in ThreadStateType
  BY <1>1, Types DEF BmInv
<1>3. r.i \in Nat /\ r.done \in Nat
  BY <1>2 DEF ThreadStateType
<1>4. PICK i, d : i = r.i + n /\ d = r.done + n
  OBVIOUS
<1>5. i \in Nat /\ d \in Nat
  BY <1>3, <1>4
<1>6. PICK r2 : r2 = [r EXCEPT !.i = i, !.done = d]
  OBVIOUS
<1>7. r2 \in ThreadStateType /\ r2.i = i /\ r2.done = d /\ r2.pc = r.pc /\ r2.deleted = r.deleted
  BY <1>2, <1>5, <1>6 DEF ThreadStateType
<1>8. th = [bm_thread EXCEPT ![t] = r2]
  BY <1>1, <1>2, <1>4, <1>6 DEF Ops
<1>9. QED
  BY <1>1, <1>2, <1>4, <1>7, <1>8

\* A turn of a method other than OpenBench on a live database, with other keys perhaps.
LEMMA OtherTurn ==
    ASSUME BmInv, NEW t \in AllThreads, InMethod(t), TurnCounts(t),
           bm_main.arg.body # "open", bm_thread'[t].deleted = bm_thread[t].deleted,
           NEW keys, keys \subseteq Nat, IsFiniteSet(keys),
           bm_db' = [bm_db EXCEPT !.keys = keys] \/ (bm_db' = bm_db /\ keys = bm_db.keys),
           keys = bm_db.keys \/ bm_main.arg.body # "scan",
           UsesDB \/ bm_misuse' = bm_misuse, FillInv'
    PROVE  BmInv'
<1>1. /\ bm_db.ptr = "live" /\ bm_main.pc # "over"
      /\ \A u \in AllThreads : ~bm_thread[u].deleted
  BY WhileRunning DEF InMethod
<1>2. bm_db' = [ptr |-> bm_db.ptr, keys |-> keys]
  BY DEF BmInv, BmTypeOK
<1>3. bm_db'.ptr = "live" /\ bm_db'.keys = keys
  BY <1>1, <1>2
<1>4. bm_misuse' = bm_misuse
  BY <1>1 DEF UsesDB, MisusedIf
<1>5. BmTypeOK'
  <2>1. bm_db' = [ptr |-> bm_db'.ptr, keys |-> bm_db'.keys]
    BY <1>1, <1>2, <1>3
  <2>2. QED
    BY <1>3, <2>1 DEF BmInv, BmTypeOK, InMethod, ThreadStateType
<1>6. PtrInv'
  <2>1. \A u \in AllThreads : ~bm_thread'[u].deleted
    BY <1>1 DEF InMethod
  <2>2. QED
    BY <1>3, <1>4, <2>1 DEF BmInv, PtrInv
<1>7. CountsInv'
  BY <1>3, WorkTurn
<1>8. QED
  BY <1>5, <1>6, <1>7, TurnFrame DEF BmInv, TurnCounts

\* No other method than DoWrite runs on a database that is to be filled.
LEMMA NoFill ==
    ASSUME BmInv, NEW t \in AllThreads, InMethod(t), bm_main.arg.body # "write"
    PROVE  FillInv'
<1>1. ~bm_main.arg.fresh
  BY DEF BmInv, BmTypeOK, GoodArg
<1>2. QED
  BY <1>1 DEF InMethod, FillInv

\* A counted turn of one operation, below the goal.
LEMMA OneMore ==
    ASSUME BmInv, NEW t \in AllThreads, bm_thread[t].pc = "run", Counted(bm_main.arg, t),
           UNCHANGED <<bm_existing, bm_main, bm_shared, bm_reported>>, bm_thread' = Ops(1, t),
           bm_main.arg.body \notin {"write", "delete"},
           bm_thread[t].i < Goal(bm_main.arg, bm_db.keys, t)
    PROVE  InMethod(t) /\ TurnCounts(t) /\ bm_thread'[t].deleted = bm_thread[t].deleted
<1>1. /\ bm_thread' \in [AllThreads -> ThreadStateType]
      /\ bm_thread'[t].i = bm_thread[t].i + 1 /\ bm_thread'[t].done = bm_thread[t].done + 1
      /\ bm_thread'[t].pc = "run" /\ bm_thread'[t].deleted = bm_thread[t].deleted
      /\ \A u \in AllThreads : u # t => bm_thread'[u] = bm_thread[u]
  BY OpsIs
<1>2. Running /\ t < bm_main.spawned /\ Goal(bm_main.arg, bm_db.keys, t) \in Nat /\ bm_thread[t].i \in Nat
  BY WhileRunning
<1>3. bm_thread[t].done = bm_thread[t].i
  BY <1>2 DEF BmInv, CountsInv
<1>4. TurnCounts(t)
  <2>1. bm_thread'[t].done = bm_thread'[t].i /\ bm_thread'[t].done <= Goal(bm_main.arg, bm_db.keys, t)
    BY <1>1, <1>2, <1>3
  <2>2. QED
    BY <1>1, <2>1 DEF TurnCounts
<1>5. QED
  BY <1>1, <1>4 DEF InMethod

\* A batch of writes or deletions.
LEMMA OneBatch ==
    ASSUME BmInv, NEW t \in AllThreads, bm_thread[t].pc = "run", bm_main.arg.body \in {"write", "delete"},
           UNCHANGED <<bm_existing, bm_main, bm_shared, bm_reported>>,
           bm_thread' = Ops(bm_main.arg.entries_per_batch, t), bm_thread[t].i < bm_main.arg.num
    PROVE  /\ InMethod(t) /\ TurnCounts(t) /\ bm_thread'[t].deleted = bm_thread[t].deleted
           /\ bm_thread'[t].i = bm_thread[t].i + bm_main.arg.entries_per_batch
<1>1. PICK e, i, w : /\ e = bm_main.arg.entries_per_batch /\ i = bm_thread[t].i
                     /\ w = Goal(bm_main.arg, bm_db.keys, t)
  OBVIOUS
<1>2. PICK n : n = bm_main.arg.num
  OBVIOUS
<1>3. e \in Nat \ {0} /\ n \in Nat
  BY <1>1, <1>2, WhileRunning DEF GoodArg
<1>4. /\ bm_thread' \in [AllThreads -> ThreadStateType]
      /\ bm_thread'[t].i = i + e /\ bm_thread'[t].done = bm_thread[t].done + e
      /\ bm_thread'[t].pc = "run" /\ bm_thread'[t].deleted = bm_thread[t].deleted
      /\ \A u \in AllThreads : u # t => bm_thread'[u] = bm_thread[u]
  BY <1>1, <1>3, OpsIs
<1>5. Running /\ t < bm_main.spawned /\ i \in Nat
  BY <1>1, WhileRunning
<1>6. Counted(bm_main.arg, t)
  BY DEF Counted
<1>7. bm_thread[t].done = i /\ i % e = 0
  BY <1>1, <1>5, <1>6 DEF BmInv, CountsInv
<1>8. w = WholeBatches(n, e)
  BY <1>1, <1>2, GoalIs
<1>9. i + e <= w /\ (i + e) % e = 0
  <2>1. i < n
    BY <1>1, <1>2
  <2>2. /\ \A j \in Nat : j % e = 0 /\ j < n => j + e <= WholeBatches(n, e)
        /\ \A j \in Nat : j % e = 0 => (j + e) % e = 0
    BY <1>3, WholeBatchesIs
  <2>3. QED
    BY <1>5, <1>7, <1>8, <2>1, <2>2
<1>10. TurnCounts(t)
  BY <1>1, <1>4, <1>6, <1>7, <1>9 DEF TurnCounts
<1>11. QED
  BY <1>1, <1>4, <1>10 DEF InMethod

\* The keys of a batch.
LEMMA BatchKeysIs ==
    ASSUME BmInv, NEW t \in AllThreads, bm_thread[t].pc = "run", NEW key \in Nat
    PROVE  BatchKeys(t, key) \subseteq Nat /\ IsFiniteSet(BatchKeys(t, key))
<1>1. PICK i, e : i = bm_thread[t].i /\ e = bm_main.arg.entries_per_batch
  OBVIOUS
<1>2. i \in Nat /\ e \in Nat
  BY <1>1, WhileRunning DEF GoodArg
<1>3. i .. i + e - 1 \subseteq Nat /\ IsFiniteSet(i .. i + e - 1)
  <2>1. i \in Int /\ i + e - 1 \in Int
    BY <1>2
  <2>2. QED
    BY <1>2, <2>1, FS_Interval
<1>4. IsFiniteSet({key})
  BY FS_Singleton
<1>5. QED
  BY <1>1, <1>3, <1>4 DEF BatchKeys

\* DoWrite, and what a fill has written.
LEMMA BmDoWrite ==
    ASSUME BmInv, NEW t \in AllThreads, bm_thread[t].pc = "run", NEW key \in 0 .. FLAGS_num - 1, DoWrite(t, key),
           UNCHANGED <<bm_existing, bm_main, bm_shared, bm_reported>>
    PROVE  BmInv'
<1>1. /\ bm_main.arg.body = "write" /\ bm_thread[t].i < bm_main.arg.num
      /\ bm_db' = [bm_db EXCEPT !.keys = @ \cup BatchKeys(t, key)]
      /\ bm_thread' = Ops(bm_main.arg.entries_per_batch, t) /\ UsesDB
  BY DEF DoWrite
<1>2. /\ InMethod(t) /\ TurnCounts(t) /\ bm_thread'[t].deleted = bm_thread[t].deleted
      /\ bm_thread'[t].i = bm_thread[t].i + bm_main.arg.entries_per_batch
  BY <1>1, OneBatch
<1>3. PICK old, keys : old = bm_db.keys /\ keys = bm_db.keys \cup BatchKeys(t, key)
  OBVIOUS
<1>4. key \in Nat
  BY BenchDriverAssumption
<1>5. keys \subseteq Nat /\ IsFiniteSet(keys) /\ old \subseteq Nat
  <2>1. BatchKeys(t, key) \subseteq Nat /\ IsFiniteSet(BatchKeys(t, key))
    BY <1>4, BatchKeysIs
  <2>2. old \subseteq Nat /\ IsFiniteSet(old)
    BY <1>3 DEF BmInv, BmTypeOK
  <2>3. QED
    BY <1>3, <2>1, <2>2, FS_Union
<1>6. bm_db' = [bm_db EXCEPT !.keys = keys] /\ bm_db'.keys = keys
  BY <1>1, <1>3 DEF BmInv, BmTypeOK
<1>7. PICK i, e : i = bm_thread[t].i /\ e = bm_main.arg.entries_per_batch
  OBVIOUS
<1>8. /\ Running /\ t < bm_main.spawned /\ i \in Nat /\ e \in Nat \ {0} /\ bm_main' = bm_main
      /\ bm_thread'[t].i = i + e
  BY <1>2, <1>7, WhileRunning DEF GoodArg, InMethod
<1>9. \A u \in AllThreads : u # t => bm_thread'[u] = bm_thread[u]
  BY <1>2 DEF InMethod
<1>10. ASSUME NEW u \in AllThreads, NEW k \in Nat, k < bm_thread[u].i
       PROVE  k < bm_thread'[u].i
  <2>1. CASE u = t
    BY <1>7, <1>8, <1>10, <2>1
  <2>2. CASE u # t
    BY <1>9, <1>10, <2>2
  <2>3. QED
    BY <2>1, <2>2
<1>11. FillInv'
  <2>1. SUFFICES ASSUME bm_main.arg.fresh PROVE FillInv'
    BY <1>8 DEF FillInv
  <2>2. CASE bm_main.arg.seq
    <3>1. keys = old \cup (i .. i + e - 1)
      BY <1>3, <1>7, <2>2 DEF BatchKeys
    <3>2. ASSUME NEW u \in AllThreads, u < bm_main.spawned
          PROVE  0 .. bm_thread'[u].i - 1 \subseteq keys
      <4>1. 0 .. bm_thread[u].i - 1 \subseteq old
        BY <1>3, <1>8, <2>1, <2>2, <3>2 DEF BmInv, FillInv
      <4>2. CASE u = t
        <5>1. \A k \in 0 .. (i + e) - 1 : k \in 0 .. i - 1 \/ k \in i .. i + e - 1
          BY <1>8
        <5>2. QED
          BY <1>7, <1>8, <3>1, <4>1, <4>2, <5>1
      <4>3. CASE u # t
        BY <1>9, <3>1, <4>1, <4>3
      <4>4. QED
        BY <4>2, <4>3
    <3>3. ASSUME NEW k \in keys
          PROVE  \E u \in AllThreads : u < bm_main.spawned /\ k < bm_thread'[u].i
      <4>1. CASE k \in old
        <5>1. PICK u \in AllThreads : u < bm_main.spawned /\ k < bm_thread[u].i
          BY <1>3, <1>8, <2>1, <2>2, <4>1 DEF BmInv, FillInv
        <5>2. k < bm_thread'[u].i
          BY <1>5, <1>10, <5>1
        <5>3. QED
          BY <5>1, <5>2
      <4>2. CASE k \in i .. i + e - 1
        <5>1. k < i + e
          BY <1>8, <4>2
        <5>2. QED
          BY <1>8, <5>1
      <4>3. QED
        BY <3>1, <3>3, <4>1, <4>2
    <3>4. QED
      BY <1>6, <1>8, <2>2, <3>2, <3>3 DEF FillInv
  <2>3. CASE ~bm_main.arg.seq
    <3>1. keys = old \cup {key} /\ e = 1
      BY <1>3, <1>7, <2>1, <2>3, WhileRunning DEF BatchKeys, GoodArg
    <3>2. PICK f \in [AllThreads -> [Nat -> Nat]] : \A k \in old :
             \E u \in AllThreads, j \in Nat : u < bm_main.spawned /\ j < bm_thread[u].i /\ f[u][j] = k
      BY <1>3, <1>8, <2>1, <2>3 DEF BmInv, FillInv
    <3>3. old \subseteq 0 .. FLAGS_num - 1
      BY <1>3, <1>8, <2>1, <2>3 DEF BmInv, FillInv
    <3>4. PICK g : g = [f EXCEPT ![t] = [f[t] EXCEPT ![i] = key]]
      OBVIOUS
    <3>5. /\ g \in [AllThreads -> [Nat -> Nat]] /\ g[t][i] = key
          /\ \A u \in AllThreads, j \in Nat : u # t \/ j # i => g[u][j] = f[u][j]
      BY <1>4, <1>8, <3>4
    <3>6. ASSUME NEW k \in keys
          PROVE  \E u \in AllThreads, j \in Nat : u < bm_main.spawned /\ j < bm_thread'[u].i /\ g[u][j] = k
      <4>1. CASE k \in old
        <5>1. PICK u \in AllThreads, j \in Nat : u < bm_main.spawned /\ j < bm_thread[u].i /\ f[u][j] = k
          BY <3>2, <4>1
        <5>2. u # t \/ j # i
          BY <1>7, <1>8, <5>1
        <5>3. g[u][j] = k /\ j < bm_thread'[u].i
          BY <1>10, <3>5, <5>1, <5>2
        <5>4. QED
          BY <5>1, <5>3
      <4>2. CASE k = key
        <5>1. i < bm_thread'[t].i
          BY <1>8
        <5>2. QED
          BY <1>8, <3>5, <4>2, <5>1
      <4>3. QED
        BY <3>1, <3>6, <4>1, <4>2
    <3>7. keys \subseteq 0 .. FLAGS_num - 1
      BY <3>1, <3>3
    <3>8. QED
      <4>1. \A k \in bm_db'.keys :
              \E u \in AllThreads, j \in Nat : u < bm_main'.spawned /\ j < bm_thread'[u].i /\ g[u][j] = k
        BY <1>6, <1>8, <3>6
      <4>2. bm_db'.keys \subseteq 0 .. FLAGS_num - 1 /\ ~bm_main'.arg.seq
        BY <1>6, <1>8, <2>3, <3>7
      <4>3. QED
        BY <3>5, <4>1, <4>2 DEF FillInv
  <2>4. QED
    BY <2>2, <2>3
<1>12. bm_main.arg.body # "open" /\ bm_main.arg.body # "scan"
  BY <1>1
<1>13. QED
  BY <1>1, <1>2, <1>5, <1>6, <1>11, <1>12, OtherTurn

\* DoDelete.
LEMMA BmDoDelete ==
    ASSUME BmInv, NEW t \in AllThreads, bm_thread[t].pc = "run", NEW key \in 0 .. FLAGS_num - 1, DoDelete(t, key),
           UNCHANGED <<bm_existing, bm_main, bm_shared, bm_reported>>
    PROVE  BmInv'
<1>1. /\ bm_main.arg.body = "delete" /\ bm_thread[t].i < bm_main.arg.num
      /\ bm_db' = [bm_db EXCEPT !.keys = @ \ BatchKeys(t, key)]
      /\ bm_thread' = Ops(bm_main.arg.entries_per_batch, t) /\ UsesDB
  BY DEF DoDelete
<1>2. InMethod(t) /\ TurnCounts(t) /\ bm_thread'[t].deleted = bm_thread[t].deleted
  BY <1>1, OneBatch
<1>3. PICK keys : keys = bm_db.keys \ BatchKeys(t, key)
  OBVIOUS
<1>4. keys \subseteq Nat /\ IsFiniteSet(keys)
  BY <1>3, FS_Difference DEF BmInv, BmTypeOK
<1>5. bm_db' = [bm_db EXCEPT !.keys = keys]
  BY <1>1, <1>3
<1>6. bm_main.arg.body # "open" /\ bm_main.arg.body # "scan" /\ bm_main.arg.body # "write"
  BY <1>1
<1>7. FillInv'
  BY <1>2, <1>6, NoFill
<1>8. QED
  BY <1>1, <1>2, <1>4, <1>5, <1>6, <1>7, OtherTurn

\* The methods that only read, and those that use no database.
LEMMA BmRead ==
    ASSUME BmInv, NEW t \in AllThreads, bm_thread[t].pc = "run",
           Read(t) \/ VerifiedRead(t) \/ Scan(t) \/ Spin(t),
           UNCHANGED <<bm_existing, bm_main, bm_shared, bm_reported>>
    PROVE  BmInv'
<1>1. /\ bm_thread' = Ops(1, t) /\ bm_db' = bm_db /\ (UsesDB \/ bm_misuse' = bm_misuse)
      /\ bm_main.arg.body \in {"get", "suget", "seek", "scan", "spin"} \/ (bm_main.arg.body = "mixed" /\ t > 0)
  BY DEF Read, VerifiedRead, Verifies, Scan, Spin
<1>2. bm_thread[t].i < Goal(bm_main.arg, bm_db.keys, t)
  <2>1. CASE Read(t) \/ VerifiedRead(t)
    <3>1. /\ bm_main.arg.body \in {"get", "suget", "seek"} \/ (bm_main.arg.body = "mixed" /\ t > 0)
          /\ bm_thread[t].i < bm_main.arg.reads
      BY <2>1 DEF Read, VerifiedRead, Verifies
    <3>2. t > 0 => t # 0
      BY ThreadSet
    <3>3. QED
      BY <3>1, <3>2, GoalIs
  <2>2. CASE Scan(t)
    BY <2>2, GoalIs DEF Scan
  <2>3. CASE Spin(t)
    BY <2>3, GoalIs DEF Spin
  <2>4. QED
    BY <2>1, <2>2, <2>3
<1>3. Counted(bm_main.arg, t)
  <2>1. t > 0 => t # 0
    BY ThreadSet
  <2>2. QED
    BY <1>1, <2>1 DEF Counted
<1>4. bm_main.arg.body \notin {"write", "delete", "open"}
  BY <1>1
<1>5. InMethod(t) /\ TurnCounts(t) /\ bm_thread'[t].deleted = bm_thread[t].deleted
  BY <1>1, <1>2, <1>3, <1>4, OneMore
<1>6. PICK keys : keys = bm_db.keys
  OBVIOUS
<1>7. keys \subseteq Nat /\ IsFiniteSet(keys)
  BY <1>6 DEF BmInv, BmTypeOK
<1>8. FillInv'
  BY <1>4, <1>5, NoFill
<1>9. QED
  BY <1>1, <1>4, <1>5, <1>6, <1>7, <1>8, OtherTurn

\* Compact, and ReadWhileWriting's writer: turns that are not counted.
LEMMA NotCounted ==
    ASSUME BmInv, NEW t \in AllThreads, bm_thread[t].pc = "run", NEW n \in Nat,
           bm_main.arg.body = "compact" \/ (bm_main.arg.body = "mixed" /\ t = 0),
           UNCHANGED <<bm_existing, bm_main, bm_shared, bm_reported>>, bm_thread' = [bm_thread EXCEPT ![t].i = n]
    PROVE  InMethod(t) /\ TurnCounts(t) /\ bm_thread'[t].deleted = bm_thread[t].deleted
<1>1. PICK r : r = bm_thread[t]
  OBVIOUS
<1>2. bm_thread \in [AllThreads -> ThreadStateType] /\ r \in ThreadStateType
  BY <1>1, Types DEF BmInv
<1>3. PICK r2 : r2 = [r EXCEPT !.i = n]
  OBVIOUS
<1>4. r2 \in ThreadStateType /\ r2.done = r.done /\ r2.pc = r.pc /\ r2.deleted = r.deleted
  BY <1>2, <1>3 DEF ThreadStateType
<1>5. bm_thread' = [bm_thread EXCEPT ![t] = r2]
  BY <1>1, <1>2, <1>3
<1>6. /\ bm_thread' \in [AllThreads -> ThreadStateType] /\ bm_thread'[t] = r2
      /\ \A u \in AllThreads : u # t => bm_thread'[u] = bm_thread[u]
  BY <1>2, <1>4, <1>5
<1>7. ~Counted(bm_main.arg, t)
  BY DEF Counted
<1>8. Running /\ t < bm_main.spawned /\ Goal(bm_main.arg, bm_db.keys, t) \in Nat
  BY WhileRunning
<1>9. r.done = 0
  BY <1>1, <1>7, <1>8 DEF BmInv, CountsInv
<1>10. TurnCounts(t)
  BY <1>1, <1>4, <1>6, <1>7, <1>8, <1>9 DEF TurnCounts
<1>11. QED
  BY <1>1, <1>4, <1>6, <1>10 DEF InMethod

\* Compact.
LEMMA BmCompactOnce ==
    ASSUME BmInv, NEW t \in AllThreads, bm_thread[t].pc = "run", CompactOnce(t),
           UNCHANGED <<bm_existing, bm_main, bm_shared, bm_reported>>
    PROVE  BmInv'
<1>1. /\ bm_main.arg.body = "compact" /\ bm_thread' = [bm_thread EXCEPT ![t].i = 1]
      /\ UsesDB /\ bm_db' = bm_db
  BY DEF CompactOnce
<1>2. InMethod(t) /\ TurnCounts(t) /\ bm_thread'[t].deleted = bm_thread[t].deleted
  BY <1>1, NotCounted
<1>3. PICK keys : keys = bm_db.keys
  OBVIOUS
<1>4. keys \subseteq Nat /\ IsFiniteSet(keys)
  BY <1>3 DEF BmInv, BmTypeOK
<1>5. bm_main.arg.body \notin {"open", "write"}
  BY <1>1
<1>6. FillInv'
  BY <1>2, <1>5, NoFill
<1>7. QED
  BY <1>1, <1>2, <1>3, <1>4, <1>5, <1>6, OtherTurn

\* ReadWhileWriting's writer.
LEMMA BmWriteAlong ==
    ASSUME BmInv, NEW t \in AllThreads, bm_thread[t].pc = "run", NEW key \in 0 .. FLAGS_num - 1, WriteAlong(t, key),
           UNCHANGED <<bm_existing, bm_main, bm_shared, bm_reported>>
    PROVE  BmInv'
<1>1. PICK n : n = IF bm_thread[t].i < MaxExtraWrites THEN bm_thread[t].i + 1 ELSE bm_thread[t].i
  OBVIOUS
<1>2. n \in Nat
  BY <1>1, WhileRunning
<1>3. /\ bm_main.arg.body = "mixed" /\ t = 0 /\ UsesDB
      /\ bm_db' = [bm_db EXCEPT !.keys = @ \cup {key}]
      /\ bm_thread' = [bm_thread EXCEPT ![t].i = n]
  <2>1. bm_thread \in [AllThreads -> ThreadStateType]
    BY Types DEF BmInv
  <2>2. QED
    BY <1>1, <2>1 DEF WriteAlong
<1>4. InMethod(t) /\ TurnCounts(t) /\ bm_thread'[t].deleted = bm_thread[t].deleted
  BY <1>2, <1>3, NotCounted
<1>5. PICK keys : keys = bm_db.keys \cup {key}
  OBVIOUS
<1>6. keys \subseteq Nat /\ IsFiniteSet(keys)
  <2>1. key \in Nat
    BY BenchDriverAssumption
  <2>2. QED
    BY <1>5, <2>1, FS_AddElement DEF BmInv, BmTypeOK
<1>7. bm_db' = [bm_db EXCEPT !.keys = keys]
  BY <1>3, <1>5
<1>8. bm_main.arg.body \notin {"open", "write", "scan"}
  BY <1>3
<1>9. FillInv'
  BY <1>4, <1>8, NoFill
<1>10. QED
  BY <1>3, <1>4, <1>6, <1>7, <1>8, <1>9, OtherTurn

\* OpenBench, whose misuse of db_ is its own.
LEMMA BmOpenBench ==
    ASSUME BmInv, NEW t \in AllThreads, bm_thread[t].pc = "run", OpenBench(t),
           UNCHANGED <<bm_existing, bm_main, bm_shared, bm_reported>>
    PROVE  BmInv'
<1>1. bm_main.arg.body = "open" /\ bm_thread[t].i < bm_main.arg.num
  BY DEF OpenBench
<1>2. bm_thread \in [AllThreads -> ThreadStateType] /\ bm_main.arg.num \in Nat
  BY Types DEF BmInv, GoodArg
<1>3. /\ Running /\ t < bm_main.spawned /\ bm_main.pc # "over" /\ bm_thread[t].i \in Nat
      /\ Goal(bm_main.arg, bm_db.keys, t) \in Nat
  BY WhileRunning
<1>4. Goal(bm_main.arg, bm_db.keys, t) = bm_main.arg.num /\ Counted(bm_main.arg, t)
  BY <1>1, GoalIs DEF Counted
<1>5. bm_thread[t].done = bm_thread[t].i
  BY <1>3, <1>4 DEF BmInv, CountsInv
<1>6. ASSUME NEW p, MisusedIf(p)
      PROVE  bm_misuse' \in {"no", "open"}
  BY <1>1, <1>6 DEF MisusedIf, BmInv, PtrInv
<1>7. ASSUME NEW ptr \in {"live", "freed"}, bm_db' = [bm_db EXCEPT !.ptr = ptr],
             InMethod(t), TurnCounts(t), bm_misuse' \in {"no", "open"},
             bm_thread'[t].deleted => bm_thread'[t].i < bm_main.arg.num,
             ptr = "freed" => bm_thread'[t].deleted
      PROVE  BmInv'
  <2>1. bm_db' = [ptr |-> ptr, keys |-> bm_db.keys]
    BY <1>7 DEF BmInv, BmTypeOK
  <2>2. bm_db'.ptr = ptr /\ bm_db'.keys = bm_db.keys
    BY <2>1
  <2>3. BmTypeOK'
    <3>1. bm_db' = [ptr |-> bm_db'.ptr, keys |-> bm_db'.keys]
      BY <2>1, <2>2
    <3>2. QED
      BY <1>7, <2>2, <3>1 DEF BmInv, BmTypeOK, InMethod, ThreadStateType
  <2>4. bm_main' = bm_main /\ \A u \in AllThreads : u # t => bm_thread'[u] = bm_thread[u]
    BY <1>7 DEF InMethod
  <2>5. PtrInv'
    <3>1. \A u \in AllThreads : bm_thread'[u].deleted =>
             bm_thread'[u].pc = "run" /\ bm_main'.arg.body = "open" /\ bm_thread'[u].i < bm_main'.arg.num
      <4>1. SUFFICES ASSUME NEW u \in AllThreads, bm_thread'[u].deleted
                     PROVE  bm_thread'[u].pc = "run" /\ bm_thread'[u].i < bm_main.arg.num
        BY <1>1, <2>4
      <4>2. CASE u = t
        BY <1>7, <4>1, <4>2 DEF TurnCounts
      <4>3. CASE u # t
        BY <2>4, <4>1, <4>3 DEF BmInv, PtrInv
      <4>4. QED
        BY <4>2, <4>3
    <3>2. QED
      BY <1>7, <2>2, <3>1 DEF PtrInv
  <2>6. CountsInv'
    BY <1>7, <2>2, WorkTurn
  <2>7. FillInv'
    BY <1>1, <1>7, NoFill
  <2>8. QED
    BY <1>7, <2>3, <2>5, <2>6, <2>7, TurnFrame DEF BmInv, TurnCounts
<1>8. CASE bm_thread[t].deleted
  <2>1. PICK th : th = Ops(1, t)
    OBVIOUS
  <2>2. /\ th \in [AllThreads -> ThreadStateType]
        /\ th[t].i = bm_thread[t].i + 1 /\ th[t].done = bm_thread[t].done + 1
        /\ th[t].pc = "run"
        /\ \A u \in AllThreads : u # t => th[u] = bm_thread[u]
    BY <2>1, OpsIs
  <2>3. /\ MisusedIf(bm_db.ptr # "null") /\ bm_db' = [bm_db EXCEPT !.ptr = "live"]
        /\ bm_thread' = [th EXCEPT ![t].deleted = FALSE]
    BY <1>8, <2>1 DEF OpenBench
  <2>4. PICK r, r2 : r = th[t] /\ r2 = [r EXCEPT !.deleted = FALSE]
    OBVIOUS
  <2>5. r2 \in ThreadStateType /\ r2.i = r.i /\ r2.done = r.done /\ r2.pc = r.pc /\ ~r2.deleted
    BY <2>2, <2>4 DEF ThreadStateType
  <2>6. bm_thread' = [th EXCEPT ![t] = r2]
    BY <2>2, <2>3, <2>4
  <2>7. /\ bm_thread' \in [AllThreads -> ThreadStateType] /\ bm_thread'[t] = r2
        /\ \A u \in AllThreads : u # t => bm_thread'[u] = bm_thread[u]
    BY <2>2, <2>5, <2>6
  <2>8. InMethod(t)
    BY <2>7 DEF InMethod
  <2>9. TurnCounts(t)
    <3>1. r2.done = r2.i /\ r2.done <= bm_main.arg.num /\ r2.pc = "run"
      BY <1>1, <1>2, <1>3, <1>5, <2>2, <2>4, <2>5
    <3>2. QED
      BY <1>1, <1>4, <2>7, <3>1 DEF TurnCounts
  <2>10. QED
    BY <1>6, <1>7, <2>3, <2>5, <2>7, <2>8, <2>9
<1>9. CASE ~bm_thread[t].deleted
  <2>1. /\ UsesDB /\ bm_db' = [bm_db EXCEPT !.ptr = "freed"]
        /\ bm_thread' = [bm_thread EXCEPT ![t].deleted = TRUE]
    BY <1>9 DEF OpenBench
  <2>2. PICK r, r2 : r = bm_thread[t] /\ r2 = [r EXCEPT !.deleted = TRUE]
    OBVIOUS
  <2>3. r2 \in ThreadStateType /\ r2.i = r.i /\ r2.done = r.done /\ r2.pc = r.pc /\ r2.deleted
    BY <1>2, <2>2 DEF ThreadStateType
  <2>4. bm_thread' = [bm_thread EXCEPT ![t] = r2]
    BY <1>2, <2>1, <2>2
  <2>5. /\ bm_thread' \in [AllThreads -> ThreadStateType] /\ bm_thread'[t] = r2
        /\ \A u \in AllThreads : u # t => bm_thread'[u] = bm_thread[u]
    BY <1>2, <2>3, <2>4
  <2>6. InMethod(t)
    BY <2>5 DEF InMethod
  <2>7. TurnCounts(t)
    <3>1. r2.done = r2.i /\ r2.done <= bm_main.arg.num /\ r2.pc = "run"
      BY <1>1, <1>2, <1>3, <1>5, <2>2, <2>3
    <3>2. QED
      BY <1>1, <1>4, <2>5, <3>1 DEF TurnCounts
  <2>8. bm_misuse' \in {"no", "open"}
    BY <1>6, <2>1 DEF UsesDB
  <2>9. QED
    BY <1>1, <1>7, <2>1, <2>2, <2>3, <2>5, <2>6, <2>7, <2>8
<1>10. QED
  BY <1>8, <1>9

\* When the writer sees that the others are finished, they are.
LEMMA WriterIsLast ==
    ASSUME BmInv, bm_thread[0].pc = "run", OthersFinished, NEW u \in 1 .. bm_main.arg.threads - 1
    PROVE  u \in AllThreads /\ bm_thread[u].pc \in {"leaving", "gone"}
<1>1. PICK n : n = bm_main.arg.threads
  OBVIOUS
<1>2. n \in Nat /\ n > 0 /\ Threads(n) \subseteq AllThreads
  BY <1>1, Types DEF BmInv
<1>3. Running /\ bm_main.spawned = n /\ bm_shared.start
  BY <1>1, ThreadSet, WhileRunning
<1>4. /\ bm_shared.num_initialized = Cardinality(Initialized) /\ bm_shared.num_done = Cardinality(Finished)
      /\ \A t \in AllThreads : bm_thread[t].pc # "init"
  BY <1>3 DEF BmInv, BarrierInv
<1>5. \A t \in AllThreads : t < n <=> t \in Threads(n)
  <2>1. SUFFICES ASSUME NEW t \in AllThreads PROVE t < n <=> t \in 0 .. n - 1
    BY DEF Threads
  <2>2. t \in Nat
    BY ThreadSet
  <2>3. n \in Nat
    BY <1>2
  <2>4. QED
    BY <2>2, <2>3
<1>6. Initialized = Threads(n) /\ Finished \subseteq Threads(n)
  BY <1>2, <1>3, <1>4, <1>5 DEF Initialized, Finished
<1>7. Cardinality(Threads(n)) = n
  <2>1. n - 1 \in Int /\ 0 \in Int
    BY <1>2
  <2>2. Cardinality(0 .. n - 1) = IF 0 > n - 1 THEN 0 ELSE n - 1 - 0 + 1
    BY <2>1, FS_Interval
  <2>3. QED
    BY <1>2, <2>2 DEF Threads
<1>8. PICK S : S = Finished \cup {0}
  OBVIOUS
<1>9. 0 \in Threads(n) /\ 0 \notin Finished
  BY <1>2 DEF Threads, Finished
<1>10. Cardinality(S) = Cardinality(Finished) + 1
  BY <1>8, <1>9, CountersFinite, FS_AddElement
<1>11. Cardinality(S) >= n
  BY <1>4, <1>6, <1>7, <1>10 DEF OthersFinished
<1>12. S = Threads(n)
  BY <1>2, <1>6, <1>8, <1>9, <1>11, AllOf
<1>13. u \in Threads(n) /\ u # 0
  BY <1>1, <1>2 DEF Threads
<1>14. QED
  BY <1>2, <1>8, <1>12, <1>13 DEF Finished

\* A method returns when its work is done.
LEMMA LoopOverDone ==
    ASSUME BmInv, NEW t \in AllThreads, bm_thread[t].pc = "run", LoopOver(t)
    PROVE  /\ bm_thread[t].done = Goal(bm_main.arg, bm_db.keys, t)
           /\ ~bm_thread[t].deleted
           /\ bm_main.arg.body = "mixed" /\ t = 0 => OthersFinished
<1>1. PICK a, keys : a = bm_main.arg /\ keys = bm_db.keys
  OBVIOUS
<1>2. PICK i, w : i = bm_thread[t].i /\ w = Goal(a, keys, t)
  OBVIOUS
<1>3. /\ Running /\ t < bm_main.spawned /\ a.body # "none" /\ GoodArg(a) /\ w \in Nat /\ i \in Nat
  BY <1>1, <1>2, WhileRunning
<1>4. /\ bm_thread[t].done = IF Counted(a, t) THEN i ELSE 0
      /\ bm_thread[t].done <= w
      /\ a.body \in {"write", "delete"} => i % a.entries_per_batch = 0
  BY <1>1, <1>2, <1>3 DEF BmInv, CountsInv
<1>5. a.body \in BmBodies /\ a.num \in Nat /\ a.reads \in Nat /\ a.entries_per_batch \in Nat \ {0}
  BY <1>3 DEF GoodArg
<1>6. /\ a.body \in {"write", "delete", "open"} => i >= a.num
      /\ a.body = "scan" => i >= a.reads \/ i >= Cardinality(keys)
      /\ a.body = "mixed" /\ t = 0 => OthersFinished
      /\ a.body \in {"get", "suget", "seek", "spin"} => i >= a.reads
      /\ a.body = "mixed" /\ t # 0 => i >= a.reads
  BY <1>1, <1>2 DEF LoopOver
<1>7. bm_thread[t].done = w
  <2>1. CASE a.body \in {"write", "delete"}
    <3>1. PICK n, e : n = a.num /\ e = a.entries_per_batch
      OBVIOUS
    <3>2. w = WholeBatches(n, e) /\ n \in Nat /\ e \in Nat \ {0}
      BY <1>2, <1>5, <2>1, <3>1, GoalIs
    <3>3. bm_thread[t].done = i
      BY <1>4, <2>1 DEF Counted
    <3>4. \A j \in Nat : j % e = 0 /\ n <= j /\ j <= WholeBatches(n, e) => j = WholeBatches(n, e)
      BY <3>2, WholeBatchesIs
    <3>5. i % e = 0 /\ n <= i /\ i <= w
      BY <1>3, <1>4, <1>6, <2>1, <3>1, <3>2, <3>3
    <3>6. QED
      BY <1>3, <3>2, <3>3, <3>4, <3>5
  <2>2. CASE a.body \in {"open", "get", "suget", "seek", "spin"} \/ (a.body = "mixed" /\ t # 0)
    <3>1. bm_thread[t].done = i
      BY <1>4, <2>2 DEF Counted
    <3>2. i >= w
      BY <1>2, <1>6, <2>2, GoalIs
    <3>3. QED
      BY <1>3, <1>4, <3>1, <3>2
  <2>3. CASE a.body = "scan"
    <3>1. bm_thread[t].done = i
      BY <1>4, <2>3 DEF Counted
    <3>2. w = IF Cardinality(keys) < a.reads THEN Cardinality(keys) ELSE a.reads
      BY <1>2, <2>3, GoalIs
    <3>3. Cardinality(keys) \in Nat
      BY <1>1, FS_CardinalityType DEF BmInv, BmTypeOK
    <3>4. QED
      BY <1>3, <1>4, <1>5, <1>6, <2>3, <3>1, <3>2, <3>3
  <2>4. CASE a.body = "compact" \/ (a.body = "mixed" /\ t = 0)
    <3>1. bm_thread[t].done = 0
      BY <1>4, <2>4 DEF Counted
    <3>2. w = 0
      BY <1>2, <2>4, GoalIs
    <3>3. QED
      BY <3>1, <3>2
  <2>5. QED
    BY <1>3, <1>5, <2>1, <2>2, <2>3, <2>4 DEF BmBodies
<1>8. ~bm_thread[t].deleted
  <2>1. SUFFICES ASSUME bm_thread[t].deleted PROVE FALSE
    OBVIOUS
  <2>2. a.body = "open" /\ i < a.num
    BY <1>1, <1>2, <2>1 DEF BmInv, PtrInv
  <2>3. QED
    BY <1>3, <1>5, <1>6, <2>2
<1>9. QED
  BY <1>1, <1>2, <1>6, <1>7, <1>8

\* The return.
LEMMA BmReturns ==
    ASSUME BmInv, NEW t \in AllThreads, bm_thread[t].pc = "run", LoopOver(t),
           bm_thread' = [bm_thread EXCEPT ![t].pc = "stop"], UNCHANGED <<bm_db, bm_misuse>>,
           UNCHANGED <<bm_existing, bm_main, bm_shared, bm_reported>>
    PROVE  BmInv'
<1>1. /\ bm_main \in MainType(bm_main.arg) /\ bm_shared \in SharedType
      /\ bm_thread \in [AllThreads -> ThreadStateType]
      /\ bm_main.arg.threads \in Nat /\ Threads(bm_main.arg.threads) \subseteq AllThreads
  BY Types DEF BmInv
<1>2. /\ bm_thread' \in [AllThreads -> ThreadStateType]
      /\ \A u \in AllThreads : /\ bm_thread'[u].pc = IF u = t THEN "stop" ELSE bm_thread[u].pc
                               /\ bm_thread'[u].i = bm_thread[u].i /\ bm_thread'[u].done = bm_thread[u].done
                               /\ bm_thread'[u].deleted = bm_thread[u].deleted
  <2>1. PICK th : th = [bm_thread EXCEPT ![t].pc = "stop"]
    OBVIOUS
  <2>2. "stop" \in BmPcs /\ bm_thread' = th
    BY <2>1 DEF BmPcs
  <2>3. /\ th \in [AllThreads -> ThreadStateType]
        /\ \A u \in AllThreads : /\ th[u].pc = IF u = t THEN "stop" ELSE bm_thread[u].pc
                                 /\ th[u].i = bm_thread[u].i /\ th[u].done = bm_thread[u].done
                                 /\ th[u].deleted = bm_thread[u].deleted
    BY <1>1, <2>1, <2>2, ThreadGoes
  <2>4. QED
    BY <2>2, <2>3
<1>3. /\ bm_main' = bm_main /\ bm_shared' = bm_shared /\ bm_db' = bm_db /\ bm_misuse' = bm_misuse
      /\ bm_existing' = bm_existing /\ bm_reported' = bm_reported
  OBVIOUS
<1>4. /\ Running /\ t < bm_main.spawned /\ bm_shared.start /\ bm_main.pc # "over"
      /\ bm_main.spawned = bm_main.arg.threads
  BY WhileRunning
<1>5. /\ bm_thread[t].done = Goal(bm_main.arg, bm_db.keys, t) /\ ~bm_thread[t].deleted
      /\ bm_main.arg.body = "mixed" /\ t = 0 => OthersFinished
  BY LoopOverDone
<1>6. BmTypeOK'
  BY <1>1, <1>2, <1>3, TypeFrame DEF BmInv
<1>7. BarrierInv'
  <2>1. Running' /\ Initialized' = Initialized /\ Finished' = Finished
    BY <1>2, <1>3, <1>4 DEF Running, Initialized, Finished
  <2>2. QED
    BY <1>2, <1>3, <1>4, <2>1 DEF BmInv, BarrierInv
<1>8. CountsInv'
  BY <1>2, <1>3, <1>5 DEF BmInv, CountsInv, Running
<1>9. WriterInv'
  <2>1. SUFFICES ASSUME bm_main.arg.body = "mixed", bm_thread'[0].pc = "stop",
                        NEW u \in 1 .. bm_main.arg.threads - 1
                 PROVE  bm_thread'[u].pc \in {"leaving", "gone"}
    BY <1>3 DEF WriterInv
  <2>2. CASE t = 0
    <3>1. u \in AllThreads /\ bm_thread[u].pc \in {"leaving", "gone"} /\ u # 0
      BY <1>1, <1>5, <2>1, <2>2, WriterIsLast
    <3>2. QED
      BY <1>2, <2>2, <3>1
  <2>3. CASE t # 0
    <3>1. bm_thread[0].pc = "stop"
      BY <1>2, <2>1, <2>3, ThreadSet
    <3>2. t \in 1 .. bm_main.arg.threads - 1
      BY <1>1, <1>4, <2>3, ThreadSet
    <3>3. bm_thread[t].pc \in {"leaving", "gone"}
      BY <2>1, <3>1, <3>2 DEF BmInv, WriterInv
    <3>4. QED
      BY <3>3
  <2>4. QED
    BY <2>2, <2>3
<1>10. PtrInv'
  BY <1>2, <1>3, <1>5 DEF BmInv, PtrInv
<1>11. FillInv'
  <2>1. SUFFICES ASSUME bm_main.arg.fresh PROVE FillInv'
    BY <1>3 DEF FillInv
  <2>2. CASE bm_main.arg.seq
    BY <1>2, <1>3, <1>4, <2>1, <2>2 DEF BmInv, FillInv
  <2>3. CASE ~bm_main.arg.seq
    <3>1. PICK f \in [AllThreads -> [Nat -> Nat]] : \A k \in bm_db.keys :
             \E u \in AllThreads, j \in Nat : u < bm_main.spawned /\ j < bm_thread[u].i /\ f[u][j] = k
      BY <1>4, <2>1, <2>3 DEF BmInv, FillInv
    <3>2. bm_db'.keys \subseteq 0 .. FLAGS_num - 1
      BY <1>3, <1>4, <2>1, <2>3 DEF BmInv, FillInv
    <3>3. \A k \in bm_db'.keys :
             \E u \in AllThreads, j \in Nat : u < bm_main'.spawned /\ j < bm_thread'[u].i /\ f[u][j] = k
      BY <1>2, <1>3, <3>1
    <3>4. QED
      BY <1>3, <2>3, <3>2, <3>3 DEF FillInv
  <2>4. QED
    BY <2>2, <2>3
<1>12. QED
  BY <1>3, <1>6, <1>7, <1>8, <1>9, <1>10, <1>11, ReportFrame DEF BmInv

\* A step that changes g_mutex at most.
LEMMA NothingElse ==
    ASSUME BmInv,
           UNCHANGED <<bm_existing, bm_main, bm_shared, bm_thread, bm_db, bm_reported, bm_misuse>>
    PROVE  BmInv'
<1>1. /\ bm_main' = bm_main /\ bm_shared' = bm_shared /\ bm_thread' = bm_thread /\ bm_db' = bm_db
      /\ bm_existing' = bm_existing /\ bm_reported' = bm_reported /\ bm_misuse' = bm_misuse
  OBVIOUS
<1>2. (Running' <=> Running) /\ Initialized' = Initialized /\ Finished' = Finished
  BY <1>1 DEF Running, Initialized, Finished
<1>3. BmTypeOK'
  BY <1>1 DEF BmInv, BmTypeOK
<1>4. BarrierInv'
  BY <1>1, <1>2 DEF BmInv, BarrierInv
<1>5. CountsInv' /\ WriterInv' /\ PtrInv'
  BY <1>1, <1>2 DEF BmInv, CountsInv, WriterInv, PtrInv
<1>6. FillInv'
  <2>1. FillInv
    BY DEF BmInv
  <2>2. QED
    BY <1>1, <1>2, <2>1 DEF FillInv
<1>7. QED
  BY <1>1, <1>3, <1>4, <1>5, <1>6, ReportFrame DEF BmInv

\* A read hangs: the thread stays where it is, with a live database.
LEMMA BmReadHangs ==
    ASSUME BmInv, NEW t \in AllThreads, ReadHangs(t)
    PROVE  BmInv'
<1>1. /\ bm_thread[t].pc = "run" /\ bm_main.arg.body # "open" /\ UsesDB
      /\ UNCHANGED <<bm_existing, bm_main, bm_shared, bm_thread, bm_db, bm_reported>>
  BY DEF ReadHangs, Verifies
<1>2. Running
  BY <1>1, WhileRunning
<1>3. bm_db.ptr = "live"
  BY <1>1, <1>2 DEF BmInv, PtrInv, BmTypeOK, Running
<1>4. bm_misuse' = bm_misuse
  BY <1>1, <1>3 DEF UsesDB, MisusedIf
<1>5. QED
  BY <1>1, <1>4, NothingElse

\* Every step of the driver keeps the invariant.
LEMMA BmStep == BmInv /\ [BenchDriverNext]_bm_vars => BmInv'
<1>1. SUFFICES ASSUME BmInv, [BenchDriverNext]_bm_vars PROVE BmInv'
  OBVIOUS
<1>2. CASE \E name \in Names : RunOne(name)
  BY <1>1, <1>2, BmRunOne
<1>3. CASE RunEnds
  BY <1>1, <1>3, BmRunEnds
<1>4. CASE BenchMain
  BY <1>1, <1>4, BmStartThread, BmAwaitInitialized, BmAwaitDone DEF BenchMain
<1>5. CASE \E t \in AllThreads : BenchThread(t)
  <2>1. PICK t \in AllThreads : BenchThread(t)
    BY <1>5
  <2>2. CASE ThreadInit(t)
    BY <1>1, <2>2, BmThreadInit
  <2>3. CASE ThreadReady(t)
    BY <1>1, <2>3, BmThreadReady
  <2>4. CASE ThreadDone(t)
    BY <1>1, <2>4, BmThreadDone
  <2>5. CASE ThreadLeaves(t)
    BY <1>1, <2>5, BmThreadLeaves
  <2>6. CASE ThreadRuns(t)
    <3>1. bm_thread[t].pc = "run" /\ UNCHANGED <<bm_existing, bm_main, bm_shared, bm_reported>>
      BY <2>6 DEF ThreadRuns
    <3>2. CASE \E key \in 0 .. FLAGS_num - 1 : DoWrite(t, key) \/ DoDelete(t, key) \/ WriteAlong(t, key)
      BY <1>1, <3>1, <3>2, BmDoWrite, BmDoDelete, BmWriteAlong
    <3>3. CASE Read(t) \/ VerifiedRead(t) \/ Scan(t) \/ Spin(t)
      BY <1>1, <3>1, <3>3, BmRead
    <3>4. CASE OpenBench(t)
      BY <1>1, <3>1, <3>4, BmOpenBench
    <3>5. CASE CompactOnce(t)
      BY <1>1, <3>1, <3>5, BmCompactOnce
    <3>6. CASE LoopOver(t) /\ bm_thread' = [bm_thread EXCEPT ![t].pc = "stop"] /\ UNCHANGED <<bm_db, bm_misuse>>
      BY <1>1, <3>1, <3>6, BmReturns
    <3>7. QED
      BY <2>6, <3>2, <3>3, <3>4, <3>5, <3>6 DEF ThreadRuns, Operate
  <2>7. CASE ReadHangs(t)
    BY <1>1, <2>7, BmReadHangs
  <2>8. QED
    BY <2>1, <2>2, <2>3, <2>4, <2>5, <2>6, <2>7 DEF BenchThread
<1>6. CASE UNCHANGED bm_vars
  BY <1>1, <1>6, NothingElse DEF bm_vars
<1>7. QED
  BY <1>1, <1>2, <1>3, <1>4, <1>5, <1>6 DEF BenchDriverNext

\* The invariant has what a user of db_bench relies on.
LEMMA BmInvSound == BmInv => BenchmarksSound
<1>1. SUFFICES ASSUME BmInv PROVE BenchmarksSound
  OBVIOUS
<1>2. SharedOutlivesThreads
  BY <1>1 DEF BmInv, BarrierInv, SharedOutlivesThreads
<1>3. WriterOutlastsReaders
  <2>1. SUFFICES ASSUME bm_main.arg.body = "mixed", bm_thread[0].pc = "stop",
                        NEW t \in 1 .. bm_main.arg.threads - 1
                 PROVE  bm_thread[t].done = bm_main.arg.reads
    BY DEF WriterOutlastsReaders
  <2>2. bm_thread[t].pc \in {"leaving", "gone"}
    BY <1>1, <2>1 DEF BmInv, WriterInv
  <2>3. Running /\ bm_shared.start /\ bm_main.pc \in {"finishing", "asleep2"}
    BY <1>1, <2>1, ThreadSet, ThreadThere
  <2>4. bm_main.spawned = bm_main.arg.threads
    BY <1>1, <2>3 DEF BmInv, BarrierInv
  <2>5. t \in AllThreads /\ t < bm_main.spawned /\ t # 0
    <3>1. bm_main.arg.threads \in Nat /\ Threads(bm_main.arg.threads) \subseteq AllThreads
      BY <1>1, Types DEF BmInv
    <3>2. t \in Threads(bm_main.arg.threads) /\ t < bm_main.arg.threads /\ t # 0
      BY <3>1 DEF Threads
    <3>3. QED
      BY <2>4, <3>1, <3>2
  <2>6. bm_thread[t].done = Goal(bm_main.arg, bm_db.keys, t)
    BY <1>1, <2>2, <2>3, <2>5 DEF BmInv, CountsInv
  <2>7. QED
    BY <2>1, <2>5, <2>6, GoalIs
<1>4. DBLiveWhenUsed
  BY <1>1 DEF BmInv, PtrInv, DBLiveWhenUsed
<1>5. QED
  BY <1>1, <1>2, <1>3, <1>4 DEF BmInv, BenchmarksSound

\* Whatever benchmarks are asked for, with any number of threads and operations: what
\* RunBenchmark reports is the work of all threads, a fill leaves its own keys, shared is not
\* used after it went out of scope, ReadWhileWriting's writer outlasts the readers, and db_ is
\* live wherever a method other than OpenBench uses it.
THEOREM BenchmarksAreSound == BenchDriverInit /\ [][BenchDriverNext]_bm_vars => []BenchmarksSound
<1>1. BenchDriverInit /\ [][BenchDriverNext]_bm_vars => []BmInv
  BY BmInitInv, BmStep, PTL
<1>2. QED
  BY <1>1, BmInvSound, PTL

-----------------------------------------------------------------------------
(* FileLock *)

\* Stages between open and close, and stages with an entry in the table.
HasFile == {"opened", "inserted", "held", "unlocked", "removed"}
HasEntry == {"inserted", "held", "refused", "unlocked"}

LockTypeOK ==
    /\ fl_pc \in [Handles -> HasFile \cup HasEntry \cup {"idle", "unlink"}]
    /\ fl_fd \in [Handles -> 0 .. MaxInodes]
    /\ fl_op \in [Handles -> {"open", "destroy"}]
    /\ fl_name \in 0 .. MaxInodes /\ fl_inodes \in Nat
    /\ fl_fcntl \in [1 .. MaxInodes -> SUBSET Processes]
    /\ fl_table \in SUBSET Processes
    /\ fl_dropped \in BOOLEAN

\* A handle has a descriptor exactly between open and close.
DescriptorInv == \A h \in Handles : fl_fd[h] # 0 <=> fl_pc[h] \in HasFile

\* One attempt at a time per process is past the table.
EntryInv ==
    \A g, h \in Handles :
        fl_pc[g] \in HasEntry /\ fl_pc[h] \in HasEntry /\ ProcessOf[g] = ProcessOf[h] => g = h

\* A lock has one owner.
OwnerInv == \A i \in 1 .. MaxInodes : \A p, q \in fl_fcntl[i] : p = q

\* Until a lock is dropped, every descriptor is of the file LOCK names, and the
\* kernel's lock on it is that of whoever holds it.
NotDroppedInv ==
    ~fl_dropped =>
        /\ \A h \in Handles : fl_fd[h] # 0 => fl_fd[h] = fl_name
        /\ \A h \in Handles : fl_pc[h] = "held" => ProcessOf[h] \in fl_fcntl[fl_fd[h]]

LockInv == /\ LockTypeOK /\ DescriptorInv /\ LockTableExact /\ EntryInv
           /\ OwnerInv /\ NotDroppedInv

-----------------------------------------------------------------------------
\* No handle, no file, no lock.
LEMMA LockInitInv == FileLockInit => LockInv
<1> SUFFICES ASSUME FileLockInit PROVE LockInv
  OBVIOUS
<1>1. LockTypeOK
  <2>1. fl_fcntl \in [1 .. MaxInodes -> SUBSET Processes]
    BY DEF FileLockInit
  <2>2. fl_table \in SUBSET Processes /\ fl_dropped \in BOOLEAN
    BY DEF FileLockInit
  <2>3. QED
    BY <2>1, <2>2, FileLockAssumption DEF FileLockInit, LockTypeOK, HasFile, HasEntry
<1>2. \A h \in Handles : fl_pc[h] = "idle" /\ fl_fd[h] = 0
  BY DEF FileLockInit
<1>3. DescriptorInv /\ LockTableExact /\ EntryInv /\ NotDroppedInv
  BY <1>2 DEF DescriptorInv, LockTableExact, EntryInv, NotDroppedInv, HasFile, HasEntry,
              FileLockInit
<1>4. OwnerInv
  BY DEF OwnerInv, FileLockInit
<1>5. QED
  BY <1>1, <1>3, <1>4 DEF LockInv

\* close(fd): the kernel drops the process's lock, and fl_dropped remembers if a holder
\* of the same process lost it.
LEMMA CloseEffect ==
    ASSUME LockInv, NEW h \in Handles, Close(h)
    PROVE  /\ fl_fcntl' \in [1 .. MaxInodes -> SUBSET Processes]
           /\ OwnerInv'
           /\ fl_dropped' \in BOOLEAN
           /\ \A i \in 1 .. MaxInodes : i # fl_fd[h] => fl_fcntl'[i] = fl_fcntl[i]
           /\ fl_fd[h] # 0 => fl_fcntl'[fl_fd[h]] = fl_fcntl[fl_fd[h]] \ {ProcessOf[h]}
           /\ ~fl_dropped' =>
                 /\ ~fl_dropped
                 /\ \A g \in Handles : g # h /\ fl_pc[g] = "held" /\ ProcessOf[g] = ProcessOf[h]
                                        => fl_fd[g] # fl_fd[h]
<1>1. fl_fcntl' \in [1 .. MaxInodes -> SUBSET Processes]
  BY DEF Close, LockInv, LockTypeOK
<1>2. /\ fl_dropped' \in BOOLEAN
      /\ ~fl_dropped' =>
            /\ ~fl_dropped
            /\ \A g \in Handles : g # h /\ fl_pc[g] = "held" /\ ProcessOf[g] = ProcessOf[h]
                                   => fl_fd[g] # fl_fd[h]
  BY Zenon DEF Close, Holding
<1>3. /\ \A i \in 1 .. MaxInodes : i # fl_fd[h] => fl_fcntl'[i] = fl_fcntl[i]
      /\ fl_fd[h] # 0 => fl_fcntl'[fl_fd[h]] = fl_fcntl[fl_fd[h]] \ {ProcessOf[h]}
  BY FileLockAssumption DEF Close, LockInv, LockTypeOK
<1>4. OwnerInv'
  <2>1. \A i \in 1 .. MaxInodes : fl_fcntl'[i] \subseteq fl_fcntl[i]
    BY DEF Close, LockInv, LockTypeOK
  <2>2. QED
    BY <2>1 DEF LockInv, OwnerInv
<1>5. QED
  BY <1>1, <1>2, <1>3, <1>4

\* Every step of every handle, and the end of a process, keep LockInv.
LEMMA LockStep == LockInv /\ [FileLockNext]_fl_vars => LockInv'
<1> SUFFICES ASSUME LockInv, [FileLockNext]_fl_vars
             PROVE  LockInv'
  OBVIOUS
<1> USE FileLockAssumption DEF LockInv
<1>1. ASSUME NEW h \in Handles, \E op \in {"open", "destroy"} : LockOpen(h, op)
      PROVE  LockInv'
  <2>0. PICK op \in {"open", "destroy"} : LockOpen(h, op)
    BY <1>1
  <2>1. LockTypeOK'
    BY <2>0 DEF LockTypeOK, HasFile, HasEntry, LockOpen, To
  <2>2. DescriptorInv'
    BY <2>0 DEF DescriptorInv, LockTypeOK, HasFile, LockOpen, To
  <2>3. LockTableExact'
    BY <2>0 DEF LockTableExact, LockTypeOK, HasEntry, HasFile, LockOpen, To
  <2>4. EntryInv'
    BY <2>0 DEF EntryInv, LockTypeOK, HasEntry, LockTableExact, HasFile, LockOpen, To
  <2>5. OwnerInv'
    BY <2>0 DEF OwnerInv, LockTypeOK, HasFile, LockOpen, To
  <2>6. NotDroppedInv'
    BY <2>0 DEF NotDroppedInv, LockTypeOK, DescriptorInv, EntryInv, OwnerInv, HasEntry,
           HasFile, LockOpen, To
  <2>7. QED
    BY <2>1, <2>2, <2>3, <2>4, <2>5, <2>6
<1>2. ASSUME NEW h \in Handles, LockInsert(h)
      PROVE  LockInv'
  <2>1. LockTypeOK'
    BY <1>2 DEF LockTypeOK, HasFile, HasEntry, LockInsert, To
  <2>2. DescriptorInv'
    BY <1>2 DEF DescriptorInv, LockTypeOK, HasFile, LockInsert, To
  <2>3. LockTableExact'
    BY <1>2 DEF LockTableExact, LockTypeOK, HasEntry, HasFile, LockInsert, To
  <2>4. EntryInv'
    BY <1>2 DEF EntryInv, LockTypeOK, HasEntry, LockTableExact, HasFile, LockInsert, To
  <2>5. OwnerInv'
    BY <1>2 DEF OwnerInv, LockTypeOK, HasFile, LockInsert, To
  <2>6. NotDroppedInv'
    BY <1>2 DEF NotDroppedInv, LockTypeOK, DescriptorInv, EntryInv, OwnerInv, HasEntry,
           HasFile, LockInsert, To
  <2>7. QED
    BY <2>1, <2>2, <2>3, <2>4, <2>5, <2>6
<1>3. ASSUME NEW h \in Handles, LockHeldByProcess(h)
      PROVE  LockInv'
  <2>0. Close(h)
    BY <1>3 DEF LockHeldByProcess
  <2>1. LockTypeOK'
    BY <1>3, <2>0, CloseEffect DEF LockTypeOK, HasFile, HasEntry, LockHeldByProcess, To
  <2>2. DescriptorInv'
    BY <1>3 DEF DescriptorInv, LockTypeOK, HasFile, LockHeldByProcess, To
  <2>3. LockTableExact'
    BY <1>3 DEF LockTableExact, LockTypeOK, HasEntry, HasFile, LockHeldByProcess, To
  <2>4. EntryInv'
    BY <1>3 DEF EntryInv, LockTypeOK, HasEntry, LockTableExact, HasFile, LockHeldByProcess, To
  <2>5. OwnerInv'
    BY <2>0, CloseEffect
  <2>6. NotDroppedInv'
    BY <1>3, <2>0, CloseEffect DEF NotDroppedInv, LockTypeOK, DescriptorInv, EntryInv, OwnerInv, HasEntry,
           HasFile, LockHeldByProcess, To
  <2>7. QED
    BY <2>1, <2>2, <2>3, <2>4, <2>5, <2>6
<1>4. ASSUME NEW h \in Handles, LockSet(h)
      PROVE  LockInv'
  <2>0. fl_fcntl' \in [1 .. MaxInodes -> SUBSET Processes]
    <3>1. {ProcessOf[h]} \in SUBSET Processes
      OBVIOUS
    <3>2. QED
      BY <1>4, <3>1 DEF LockSet, LockTypeOK
  <2>1. LockTypeOK'
    BY <1>4, <2>0 DEF LockTypeOK, HasFile, HasEntry, LockSet, Owners, To
  <2>2. DescriptorInv'
    BY <1>4 DEF DescriptorInv, LockTypeOK, HasFile, LockSet, Owners, To
  <2>3. LockTableExact'
    BY <1>4 DEF LockTableExact, LockTypeOK, HasEntry, HasFile, LockSet, Owners, To
  <2>4. EntryInv'
    BY <1>4 DEF EntryInv, LockTypeOK, HasEntry, LockTableExact, HasFile, LockSet, Owners, To
  <2>5. OwnerInv'
    BY <1>4 DEF OwnerInv, LockTypeOK, HasFile, LockSet, Owners, To
  <2>6. NotDroppedInv'
    BY <1>4 DEF NotDroppedInv, LockTypeOK, DescriptorInv, EntryInv, OwnerInv, HasEntry,
           HasFile, LockSet, Owners, To
  <2>7. QED
    BY <2>1, <2>2, <2>3, <2>4, <2>5, <2>6
<1>5. ASSUME NEW h \in Handles, LockRefused(h)
      PROVE  LockInv'
  <2>0. Close(h)
    BY <1>5 DEF LockRefused
  <2>1. LockTypeOK'
    BY <1>5, <2>0, CloseEffect DEF LockTypeOK, HasFile, HasEntry, LockRefused, Owners, To
  <2>2. DescriptorInv'
    BY <1>5 DEF DescriptorInv, LockTypeOK, HasFile, LockRefused, Owners, To
  <2>3. LockTableExact'
    BY <1>5 DEF LockTableExact, LockTypeOK, HasEntry, HasFile, LockRefused, Owners, To
  <2>4. EntryInv'
    BY <1>5 DEF EntryInv, LockTypeOK, HasEntry, LockTableExact, HasFile, LockRefused, Owners,
           To
  <2>5. OwnerInv'
    BY <2>0, CloseEffect
  <2>6. NotDroppedInv'
    BY <1>5, <2>0, CloseEffect DEF NotDroppedInv, LockTypeOK, DescriptorInv, EntryInv, OwnerInv, HasEntry,
           HasFile, LockRefused, Owners, To
  <2>7. QED
    BY <2>1, <2>2, <2>3, <2>4, <2>5, <2>6
<1>6. ASSUME NEW h \in Handles, LockRemove(h)
      PROVE  LockInv'
  <2>1. LockTypeOK'
    BY <1>6 DEF LockTypeOK, HasFile, HasEntry, LockRemove, LockTableRemove, To
  <2>2. DescriptorInv'
    BY <1>6 DEF DescriptorInv, LockTypeOK, HasFile, LockRemove, LockTableRemove, To
  <2>3. LockTableExact'
    BY <1>6 DEF EntryInv, LockTableExact, LockTypeOK, HasEntry, HasFile, LockRemove,
           LockTableRemove, To
  <2>4. EntryInv'
    BY <1>6 DEF EntryInv, LockTypeOK, HasEntry, LockTableExact, HasFile, LockRemove,
           LockTableRemove, To
  <2>5. OwnerInv'
    BY <1>6 DEF OwnerInv, LockTypeOK, HasFile, LockRemove, LockTableRemove, To
  <2>6. NotDroppedInv'
    BY <1>6 DEF NotDroppedInv, LockTypeOK, DescriptorInv, EntryInv, OwnerInv, HasEntry,
           HasFile, LockRemove, LockTableRemove, To
  <2>7. QED
    BY <2>1, <2>2, <2>3, <2>4, <2>5, <2>6
<1>7. ASSUME NEW h \in Handles, UnlockFcntl(h)
      PROVE  LockInv'
  <2>1. LockTypeOK'
    BY <1>7 DEF LockTypeOK, HasFile, HasEntry, UnlockFcntl, To
  <2>2. DescriptorInv'
    BY <1>7 DEF DescriptorInv, LockTypeOK, HasFile, UnlockFcntl, To
  <2>3. LockTableExact'
    BY <1>7 DEF LockTableExact, LockTypeOK, HasEntry, HasFile, UnlockFcntl, To
  <2>4. EntryInv'
    BY <1>7 DEF EntryInv, LockTypeOK, HasEntry, LockTableExact, HasFile, UnlockFcntl, To
  <2>5. OwnerInv'
    BY <1>7 DEF OwnerInv, LockTypeOK, HasFile, UnlockFcntl, To
  <2>6. NotDroppedInv'
    BY <1>7 DEF NotDroppedInv, LockTypeOK, DescriptorInv, EntryInv, OwnerInv, HasEntry,
           HasFile, UnlockFcntl, To
  <2>7. QED
    BY <2>1, <2>2, <2>3, <2>4, <2>5, <2>6
<1>8. ASSUME NEW h \in Handles, UnlockRemove(h)
      PROVE  LockInv'
  <2>1. LockTypeOK'
    BY <1>8 DEF LockTypeOK, HasFile, HasEntry, UnlockRemove, LockTableRemove, To
  <2>2. DescriptorInv'
    BY <1>8 DEF DescriptorInv, LockTypeOK, HasFile, UnlockRemove, LockTableRemove, To
  <2>3. LockTableExact'
    BY <1>8 DEF EntryInv, LockTableExact, LockTypeOK, HasEntry, HasFile, UnlockRemove,
           LockTableRemove, To
  <2>4. EntryInv'
    BY <1>8 DEF EntryInv, LockTypeOK, HasEntry, LockTableExact, HasFile, UnlockRemove,
           LockTableRemove, To
  <2>5. OwnerInv'
    BY <1>8 DEF OwnerInv, LockTypeOK, HasFile, UnlockRemove, LockTableRemove, To
  <2>6. NotDroppedInv'
    BY <1>8 DEF NotDroppedInv, LockTypeOK, DescriptorInv, EntryInv, OwnerInv, HasEntry,
           HasFile, UnlockRemove, LockTableRemove, To
  <2>7. QED
    BY <2>1, <2>2, <2>3, <2>4, <2>5, <2>6
<1>9. ASSUME NEW h \in Handles, UnlockClose(h)
      PROVE  LockInv'
  <2>0. Close(h)
    BY <1>9 DEF UnlockClose
  <2>1. LockTypeOK'
    BY <1>9, <2>0, CloseEffect DEF LockTypeOK, HasFile, HasEntry, UnlockClose, To
  <2>2. DescriptorInv'
    BY <1>9 DEF DescriptorInv, LockTypeOK, HasFile, UnlockClose, To
  <2>3. LockTableExact'
    BY <1>9 DEF LockTableExact, LockTypeOK, HasEntry, HasFile, UnlockClose, To
  <2>4. EntryInv'
    BY <1>9 DEF EntryInv, LockTypeOK, HasEntry, LockTableExact, HasFile, UnlockClose, To
  <2>5. OwnerInv'
    BY <2>0, CloseEffect
  <2>6. NotDroppedInv'
    BY <1>9, <2>0, CloseEffect DEF NotDroppedInv, LockTypeOK, DescriptorInv, EntryInv, OwnerInv, HasEntry,
           HasFile, UnlockClose, To
  <2>7. QED
    BY <2>1, <2>2, <2>3, <2>4, <2>5, <2>6
<1>10. ASSUME NEW h \in Handles, DestroyUnlink(h)
      PROVE  LockInv'
  <2>0. /\ fl_dropped' \in BOOLEAN
        /\ ~fl_dropped' => ~fl_dropped /\ \A g \in Handles : fl_fd[g] # 0 => fl_fd[g] # fl_name
    BY <1>10, Zenon DEF DestroyUnlink
  <2>1. LockTypeOK'
    BY <1>10, <2>0 DEF LockTypeOK, HasFile, HasEntry, DestroyUnlink, To
  <2>2. DescriptorInv'
    BY <1>10 DEF DescriptorInv, LockTypeOK, HasFile, DestroyUnlink, To
  <2>3. LockTableExact'
    BY <1>10 DEF LockTableExact, LockTypeOK, HasEntry, HasFile, DestroyUnlink, To
  <2>4. EntryInv'
    BY <1>10 DEF EntryInv, LockTypeOK, HasEntry, LockTableExact, HasFile, DestroyUnlink, To
  <2>5. OwnerInv'
    BY <1>10 DEF OwnerInv, LockTypeOK, HasFile, DestroyUnlink, To
  <2>6. NotDroppedInv'
    BY <1>10, <2>0 DEF NotDroppedInv, LockTypeOK, DescriptorInv, EntryInv, OwnerInv, HasEntry,
           HasFile, DestroyUnlink, To
  <2>7. QED
    BY <2>1, <2>2, <2>3, <2>4, <2>5, <2>6
<1>11. ASSUME NEW p \in Processes, ProcessExit(p)
       PROVE  LockInv'
  <2>1. LockTypeOK'
    BY <1>11 DEF LockTypeOK, HasFile, HasEntry, ProcessExit
  <2>2. DescriptorInv'
    BY <1>11 DEF DescriptorInv, LockTypeOK, HasFile, ProcessExit
  <2>3. LockTableExact'
    BY <1>11 DEF LockTableExact, LockTypeOK, HasEntry, HasFile, ProcessExit
  <2>4. EntryInv'
    BY <1>11 DEF EntryInv, LockTypeOK, HasEntry, HasFile, ProcessExit
  <2>5. OwnerInv'
    BY <1>11 DEF OwnerInv, LockTypeOK, HasFile, ProcessExit
  <2>6. NotDroppedInv'
    BY <1>11 DEF NotDroppedInv, LockTypeOK, DescriptorInv, HasFile, ProcessExit
  <2>7. QED
    BY <2>1, <2>2, <2>3, <2>4, <2>5, <2>6
<1>12. CASE UNCHANGED fl_vars
  BY <1>12 DEF fl_vars, LockTypeOK, DescriptorInv, LockTableExact, EntryInv, OwnerInv, NotDroppedInv
<1>13. QED
  BY <1>1, <1>2, <1>3, <1>4, <1>5, <1>6, <1>7, <1>8, <1>9, <1>10, <1>11, <1>12 DEF FileLockNext

\* What LockInv says about single handles is enough for LockSound.
LEMMA LockInvSound == LockInv => LockSound
<1> SUFFICES ASSUME LockInv
             PROVE  LockExclusive
  BY DEF LockInv, LockSound
<1> SUFFICES ASSUME NEW g \in Handles, NEW h \in Handles, g # h,
                    fl_pc[g] = "held", fl_pc[h] = "held"
             PROVE  ProcessOf[g] # ProcessOf[h] /\ fl_dropped
  BY DEF LockExclusive
<1>1. ProcessOf[g] # ProcessOf[h]
  BY DEF LockInv, EntryInv, HasEntry
<1>2. ASSUME ~fl_dropped
      PROVE  FALSE
  <2>1. fl_fd[g] = fl_name /\ fl_fd[h] = fl_name /\ fl_name # 0
    BY <1>2 DEF LockInv, DescriptorInv, NotDroppedInv, HasFile
  <2>2. ProcessOf[g] \in fl_fcntl[fl_name] /\ ProcessOf[h] \in fl_fcntl[fl_name]
    BY <1>2, <2>1 DEF LockInv, NotDroppedInv
  <2>3. fl_name \in 1 .. MaxInodes
    BY <2>1, FileLockAssumption DEF LockInv, LockTypeOK
  <2>4. QED
    BY <1>1, <2>2, <2>3 DEF LockInv, OwnerInv
<1>3. QED
  BY <1>1, <1>2 DEF LockInv, LockTypeOK

\* LockFile and UnlockFile keep a database to one user, with any of their steps failing
\* and any process dying: two holders are in different processes, and only after a lock
\* was dropped or the file unlinked under its holder; and no entry of the table of locks
\* outlives the attempt that made it.
THEOREM OneUser == FileLockSpec => []LockSound
<1>1. FileLockSpec => []LockInv
  BY LockInitInv, LockStep, PTL DEF FileLockSpec
<1>2. QED
  BY <1>1, LockInvSound, PTL

-----------------------------------------------------------------------------
(* Repair *)

RepairEntry == [k : RepairKeys, s : 0 .. Garbage]
RepairFile == [kind : {"log", "table"}, entries : SUBSET RepairEntry, bad : SUBSET RepairEntry]

\* The files: finitely many, and no table is empty.
RpFilesInv ==
    /\ rp_files \in [Numbers -> RepairFile] /\ Numbers \subseteq Nat
    /\ \E b \in Nat : \A n \in Numbers : n <= b
    /\ \A n \in Numbers : rp_files[n].kind = "table" => rp_files[n].entries # {}
    /\ rp_pc \in {"db", "find", "convert", "scan", "done"} /\ rp_clean \in BOOLEAN

\* The database before the repair.
RpDBInv ==
    rp_pc = "db" =>
        /\ rp_log \in Numbers /\ rp_files[rp_log].kind = "log" /\ rp_last \in 0 .. MaxWrites
        /\ \A n \in DOMAIN rp_level : n \in Numbers /\ rp_files[n].kind = "table"

\* A Repairer at work: its lists name files of the right kind, the numbers it will give are
\* unused, and max_sequence of a table is that of its entries.
RpFoundInv ==
    rp_pc \in {"convert", "scan"} =>
        /\ rp_next \in Nat /\ \A n \in Numbers : n < rp_next
        /\ \A n \in rp_logs : n \in Numbers /\ rp_files[n].kind = "log"
        /\ \A n \in rp_numbers : /\ n \in Numbers /\ rp_files[n].kind = "table"
                                 /\ n \notin DOMAIN rp_tables
        /\ \A n \in DOMAIN rp_tables :
              /\ n \in Numbers /\ rp_files[n].kind = "table" /\ rp_tables[n] \in 0 .. Garbage
              /\ \A e \in rp_files[n].entries : e.s <= rp_tables[n]
        /\ rp_pc = "scan" => rp_logs = {}

\* The files the Repairer has in its lists; between two runs, all there are.
Sources == IF rp_pc = "find" THEN Numbers ELSE rp_logs \cup rp_numbers \cup DOMAIN rp_tables

\* What could be read is in a file or under lost/ and, if nothing failed, readable in a file that
\* the Repairer has in its lists.
RpHadInv ==
    rp_pc \in {"find", "convert", "scan"} =>
        \A e \in rp_had :
            /\ e \in rp_lost \/ \E n \in Numbers : e \in rp_files[n].entries
            /\ rp_clean => \E n \in Sources : e \in Good(rp_files[n])

\* The inductive invariant.
RpInv == RpFilesInv /\ RpDBInv /\ RpFoundInv /\ RpHadInv /\ RepairSound

\* Max of a non-empty bounded set of naturals is its greatest element.
LEMMA GreatestIsMax ==
    ASSUME NEW T \in SUBSET Nat, T # {}, NEW b \in Nat, \A x \in T : x <= b
    PROVE  Max(T) \in T /\ \A x \in T : x <= Max(T)
<1>1. \E x \in T : \A y \in T : y <= x
  BY GreatestNat
<1>2. \E x : x \in T /\ \A y \in T : x >= y
  BY <1>1
<1>3. QED
  BY <1>2 DEF Max

\* What With and Without do to a map.
LEMMA WithFacts ==
    ASSUME NEW f, NEW n, NEW v
    PROVE  /\ DOMAIN With(f, n, v) = DOMAIN f \cup {n} /\ With(f, n, v)[n] = v
           /\ \A x \in DOMAIN f : x # n => With(f, n, v)[x] = f[x]
           /\ With(f, n, v) = [x \in DOMAIN With(f, n, v) |-> With(f, n, v)[x]]
BY DEF With

\* Without.
LEMMA WithoutFacts ==
    ASSUME NEW f, NEW S
    PROVE  /\ DOMAIN Without(f, S) = DOMAIN f \ S
           /\ \A x \in DOMAIN f \ S : Without(f, S)[x] = f[x]
           /\ Without(f, S) = [x \in DOMAIN Without(f, S) |-> Without(f, S)[x]]
BY DEF Without

\* A number that a database or a Repairer gives next is new.
LEMMA NextNumber ==
    ASSUME RpFilesInv
    PROVE  /\ NewNumber \in Nat /\ \A n \in Numbers : n < NewNumber
           /\ FindNext \in Nat /\ \A n \in Numbers : n < FindNext
<1>1. CASE Numbers = {}
  BY <1>1 DEF NewNumber, FindNext
<1>2. CASE Numbers # {}
  <2>1. PICK m : m = Max(Numbers)
    OBVIOUS
  <2>2. m \in Nat /\ \A n \in Numbers : n \in Nat /\ n <= m
    <3>1. PICK b \in Nat : \A n \in Numbers : n <= b
      BY DEF RpFilesInv
    <3>2. Max(Numbers) \in Numbers /\ \A n \in Numbers : n <= Max(Numbers)
      BY <1>2, <3>1, GreatestIsMax DEF RpFilesInv
    <3>3. QED
      BY <2>1, <3>2 DEF RpFilesInv
  <2>3. NewNumber = m + 1 /\ FindNext = m + 1
    BY <1>2, <2>1 DEF NewNumber, FindNext
  <2>4. QED
    BY <2>2, <2>3
<1>3. QED
  BY <1>1, <1>2

\* max_sequence of a table that is not empty.
LEMMA MaxSequence ==
    ASSUME NEW E \in SUBSET RepairEntry, E # {}
    PROVE  MaxSequenceOf(E) \in 0 .. Garbage /\ \A e \in E : e.s <= MaxSequenceOf(E)
<1> DEFINE T == {e.s : e \in E}
<1>1. Garbage \in Nat
  BY RepairAssumption
<1>2. T \in SUBSET (0 .. Garbage) /\ T # {}
  BY DEF RepairEntry
<1>3. T \in SUBSET Nat /\ \A x \in T : x <= Garbage
  BY <1>1, <1>2
<1>4. Max(T) \in T /\ \A x \in T : x <= Max(T)
  <2> HIDE DEF T
  <2>1. QED
    BY <1>1, <1>2, <1>3, GreatestIsMax
<1>5. MaxSequenceOf(E) = Max(T)
  BY DEF MaxSequenceOf
<1>6. QED
  BY <1>2, <1>4, <1>5

\* A step of the database keeps the invariant if it keeps the files sound.
LEMMA DatabaseFrame ==
    ASSUME RpInv, rp_pc = "db", rp_pc' = "db", UNCHANGED repairer, RpFilesInv', RpDBInv'
    PROVE  RpInv'
BY DEF RpInv, RpFoundInv, RpHadInv, RepairSound, RepairKeepsReadable, RepairNumbersFresh

\* A write goes to the log.
LEMMA RpWriteStep ==
    ASSUME RpInv, NEW k \in RepairKeys, RepairWrite(k)
    PROVE  RpInv'
<1>1. /\ rp_pc = "db" /\ rp_pc' = "db" /\ UNCHANGED repairer /\ rp_last < MaxWrites
      /\ rp_last' = rp_last + 1 /\ rp_level' = rp_level /\ rp_log' = rp_log
      /\ rp_clean' = rp_clean
      /\ rp_files' = [rp_files EXCEPT ![rp_log].entries = @ \cup {[k |-> k, s |-> rp_last + 1]}]
  BY DEF RepairWrite, repairer
<1>2. /\ rp_files \in [Numbers -> RepairFile] /\ rp_log \in Numbers /\ rp_files[rp_log].kind = "log"
      /\ rp_last \in 0 .. MaxWrites
  BY <1>1 DEF RpInv, RpFilesInv, RpDBInv
<1>3. PICK f, g : /\ f = rp_files[rp_log]
                  /\ g = [f EXCEPT !.entries = @ \cup {[k |-> k, s |-> rp_last + 1]}]
  OBVIOUS
<1>4. g \in RepairFile /\ g.kind = "log"
  <2>1. [k |-> k, s |-> rp_last + 1] \in RepairEntry
    BY <1>1, <1>2, RepairAssumption DEF RepairEntry
  <2>2. f \in RepairFile /\ f.kind = "log"
    BY <1>2, <1>3
  <2>3. QED
    BY <1>3, <2>1, <2>2 DEF RepairFile
<1>5. rp_files' = [rp_files EXCEPT ![rp_log] = g]
  BY <1>1, <1>3
<1>6. /\ Numbers' = Numbers /\ rp_files'[rp_log] = g
      /\ \A n \in Numbers : n # rp_log => rp_files'[n] = rp_files[n]
  BY <1>2, <1>5 DEF Numbers
<1>7. RpFilesInv'
  <2>1. rp_files' \in [Numbers' -> RepairFile]
    BY <1>2, <1>4, <1>5, <1>6
  <2>2. QED
    BY <1>1, <1>4, <1>6, <2>1 DEF RpInv, RpFilesInv
<1>8. RpDBInv'
  BY <1>1, <1>2, <1>4, <1>6, RepairAssumption DEF RpInv, RpDBInv
<1>9. QED
  BY <1>1, <1>7, <1>8, DatabaseFrame

\* Files that stay and one or two that are new.
LEMMA FilesGrow ==
    ASSUME RpFilesInv, NEW F, NEW a \in Nat, NEW b \in Nat,
           DOMAIN F \subseteq Numbers \cup {a, b}, F = [x \in DOMAIN F |-> F[x]],
           \A x \in DOMAIN F : /\ F[x] \in RepairFile
                               /\ F[x].kind = "table" => F[x].entries # {}
    PROVE  /\ F \in [DOMAIN F -> RepairFile] /\ DOMAIN F \subseteq Nat
           /\ \E m \in Nat : \A n \in DOMAIN F : n <= m
           /\ \A x \in DOMAIN F : F[x].kind = "table" => F[x].entries # {}
<1>1. PICK c \in Nat : \A n \in Numbers : n <= c
  BY DEF RpFilesInv
<1>2. Numbers \subseteq Nat
  BY DEF RpFilesInv
<1>3. c + a + b \in Nat /\ \A n \in DOMAIN F : n \in Nat /\ n <= c + a + b
  BY <1>1, <1>2
<1>4. QED
  BY <1>3

\* The log is switched and flushed.
LEMMA RpFlushStep ==
    ASSUME RpInv, RepairFlush
    PROVE  RpInv'
<1>0. PICK log, E : log = NewNumber /\ E = rp_files[rp_log].entries
  OBVIOUS
<1>1. /\ rp_pc = "db" /\ rp_pc' = "db" /\ UNCHANGED repairer /\ E # {}
      /\ rp_last' = rp_last /\ rp_log' = log /\ rp_clean' = rp_clean
      /\ rp_files' = With(With(Without(rp_files, {rp_log}), log, LogFile({})), log + 1,
                          RepairedTable(E))
      /\ rp_level' = With(rp_level, log + 1, 0)
  BY <1>0 DEF RepairFlush, repairer
<1>2. /\ rp_files \in [Numbers -> RepairFile] /\ rp_log \in Numbers
      /\ rp_last \in 0 .. MaxWrites /\ E \subseteq RepairEntry
      /\ rp_files[rp_log].kind = "log" /\ RpFilesInv
      /\ \A n \in Numbers : rp_files[n].kind = "table" => rp_files[n].entries # {}
  BY <1>0, <1>1 DEF RpInv, RpFilesInv, RpDBInv, RepairFile
<1>3. log \in Nat /\ \A n \in Numbers : n < log /\ n \in Nat
  BY <1>0, <1>2, NextNumber DEF RpFilesInv
<1>4. /\ DOMAIN rp_files' = (Numbers \ {rp_log}) \cup {log, log + 1}
      /\ rp_files' = [x \in DOMAIN rp_files' |-> rp_files'[x]]
      /\ rp_files'[log] = LogFile({}) /\ rp_files'[log + 1] = RepairedTable(E)
      /\ \A n \in Numbers \ {rp_log} : rp_files'[n] = rp_files[n]
  <2>1. PICK A, B : A = Without(rp_files, {rp_log}) /\ B = With(A, log, LogFile({}))
    OBVIOUS
  <2>2. DOMAIN A = Numbers \ {rp_log} /\ \A n \in Numbers \ {rp_log} : A[n] = rp_files[n]
    BY <2>1, WithoutFacts DEF Numbers
  <2>3. /\ DOMAIN B = DOMAIN A \cup {log} /\ B[log] = LogFile({})
        /\ \A x \in DOMAIN A : x # log => B[x] = A[x]
    BY <2>1 DEF With
  <2>4. rp_files' = With(B, log + 1, RepairedTable(E))
    BY <1>1, <2>1
  <2>5. /\ DOMAIN rp_files' = DOMAIN B \cup {log + 1} /\ rp_files'[log + 1] = RepairedTable(E)
        /\ \A x \in DOMAIN B : x # log + 1 => rp_files'[x] = B[x]
        /\ rp_files' = [x \in DOMAIN rp_files' |-> rp_files'[x]]
    BY <2>4 DEF With
  <2>6. log # log + 1 /\ \A n \in Numbers \ {rp_log} : n # log /\ n # log + 1
    BY <1>3
  <2>7. QED
    BY <2>2, <2>3, <2>5, <2>6
<1>5. /\ LogFile({}) \in RepairFile /\ LogFile({}).kind = "log"
      /\ RepairedTable(E) \in RepairFile /\ RepairedTable(E).kind = "table"
      /\ RepairedTable(E).entries = E
  BY <1>2 DEF LogFile, RepairedTable, RepairFile
<1>6. RpFilesInv'
  <2>1. \A x \in DOMAIN rp_files' : /\ rp_files'[x] \in RepairFile
                                    /\ rp_files'[x].kind = "table" => rp_files'[x].entries # {}
    <3>1. SUFFICES ASSUME NEW x \in DOMAIN rp_files'
                   PROVE  /\ rp_files'[x] \in RepairFile
                          /\ rp_files'[x].kind = "table" => rp_files'[x].entries # {}
      OBVIOUS
    <3>2. CASE x \in Numbers \ {rp_log}
      <4>1. rp_files'[x] = rp_files[x] /\ rp_files[x] \in RepairFile
        BY <1>2, <1>4, <3>2
      <4>2. QED
        BY <1>2, <3>2, <4>1
    <3>3. CASE rp_files'[x] = LogFile({})
      BY <1>5, <3>3
    <3>4. CASE rp_files'[x] = RepairedTable(E)
      BY <1>1, <1>5, <3>4
    <3>5. QED
      BY <1>4, <3>2, <3>3, <3>4
  <2>2. log + 1 \in Nat /\ DOMAIN rp_files' \subseteq Numbers \cup {log, log + 1}
    BY <1>3, <1>4
  <2>3. /\ rp_files' \in [DOMAIN rp_files' -> RepairFile] /\ DOMAIN rp_files' \subseteq Nat
        /\ \E m \in Nat : \A n \in DOMAIN rp_files' : n <= m
        /\ \A x \in DOMAIN rp_files' : rp_files'[x].kind = "table" => rp_files'[x].entries # {}
    BY <1>2, <1>3, <1>4, <2>1, <2>2, FilesGrow
  <2>4. QED
    BY <1>1, <1>2, <2>3 DEF RpFilesInv, Numbers
<1>7. RpDBInv'
  <2>1. DOMAIN rp_level' = DOMAIN rp_level \cup {log + 1}
    BY <1>1, WithFacts
  <2>2. \A n \in DOMAIN rp_level : n \in Numbers \ {rp_log} /\ rp_files[n].kind = "table"
    BY <1>1, <1>2 DEF RpInv, RpDBInv
  <2>3. \A n \in DOMAIN rp_level' : n \in DOMAIN rp_files' /\ rp_files'[n].kind = "table"
    BY <1>4, <1>5, <2>1, <2>2
  <2>4. QED
    BY <1>1, <1>2, <1>4, <1>5, <2>3 DEF RpDBInv, Numbers
<1>8. QED
  BY <1>1, <1>6, <1>7, DatabaseFrame

\* A compaction leaves a table with the newest entry of each key, and so at least one.
LEMMA RpCompactStep ==
    ASSUME RpInv, NEW l \in 0 .. 1, RepairCompact(l)
    PROVE  RpInv'
<1> DEFINE old == {n \in DOMAIN rp_level : rp_level[n] \in {l, l + 1}}
           all == UNION {rp_files[n].entries : n \in old}
           kept == {e \in all : \A f \in all : f.k = e.k => f.s <= e.s}
<1>0. PICK log : log = NewNumber
  OBVIOUS
<1>1. /\ rp_pc = "db" /\ rp_pc' = "db" /\ UNCHANGED repairer
      /\ l \in {rp_level[n] : n \in DOMAIN rp_level}
      /\ rp_last' = rp_last /\ rp_log' = rp_log /\ rp_clean' = rp_clean
      /\ rp_files' = With(Without(rp_files, old), log, RepairedTable(kept))
      /\ rp_level' = With(Without(rp_level, old), log, l + 1)
  BY <1>0 DEF RepairCompact, repairer
<1>2. /\ rp_files \in [Numbers -> RepairFile] /\ rp_log \in Numbers
      /\ rp_last \in 0 .. MaxWrites /\ rp_files[rp_log].kind = "log" /\ RpFilesInv
      /\ \A n \in Numbers : rp_files[n].kind = "table" => rp_files[n].entries # {}
      /\ \A n \in DOMAIN rp_level : n \in Numbers /\ rp_files[n].kind = "table"
  BY <1>1 DEF RpInv, RpFilesInv, RpDBInv
<1>3. log \in Nat /\ \A n \in Numbers : n < log /\ n \in Nat
  BY <1>0, <1>2, NextNumber DEF RpFilesInv
<1>4. all \subseteq RepairEntry /\ all # {}
  <2>1. \A n \in old : n \in Numbers /\ rp_files[n].entries \subseteq RepairEntry
    BY <1>2 DEF RepairFile
  <2>2. PICK n \in DOMAIN rp_level : rp_level[n] = l
    BY <1>1
  <2>3. n \in old /\ rp_files[n].entries # {}
    BY <1>2, <2>2
  <2>4. QED
    BY <2>1, <2>3
<1> HIDE DEF all
<1>5. kept \subseteq RepairEntry /\ kept # {}
  <2>1. PICK m : m = MaxSequenceOf(all)
    OBVIOUS
  <2>2. PICK e \in all : e.s = m
    <3> DEFINE T == {e.s : e \in all}
    <3>1. Garbage \in Nat /\ T \in SUBSET (0 .. Garbage) /\ T # {}
      BY <1>4, RepairAssumption DEF RepairEntry
    <3>2. Max(T) \in T
      <4>1. T \in SUBSET Nat /\ \A x \in T : x <= Garbage
        BY <3>1
      <4> HIDE DEF T
      <4>2. QED
        BY <3>1, <4>1, GreatestIsMax
    <3>3. QED
      BY <2>1, <3>2 DEF MaxSequenceOf
  <2>3. \A f \in all : f.s <= e.s
    BY <1>4, <2>1, <2>2, MaxSequence
  <2>4. QED
    BY <1>4, <2>3
<1> HIDE DEF kept, old
<1>6. /\ DOMAIN rp_files' = (Numbers \ old) \cup {log}
      /\ rp_files' = [x \in DOMAIN rp_files' |-> rp_files'[x]]
      /\ rp_files'[log] = RepairedTable(kept)
      /\ \A n \in Numbers \ old : rp_files'[n] = rp_files[n]
  <2>1. PICK A : A = Without(rp_files, old)
    OBVIOUS
  <2>2. DOMAIN A = Numbers \ old /\ \A n \in Numbers \ old : A[n] = rp_files[n]
    BY <2>1, WithoutFacts DEF Numbers
  <2>3. rp_files' = With(A, log, RepairedTable(kept))
    BY <1>1, <2>1
  <2>4. /\ DOMAIN rp_files' = DOMAIN A \cup {log} /\ rp_files'[log] = RepairedTable(kept)
        /\ \A x \in DOMAIN A : x # log => rp_files'[x] = A[x]
        /\ rp_files' = [x \in DOMAIN rp_files' |-> rp_files'[x]]
    BY <2>3 DEF With
  <2>5. \A n \in Numbers \ old : n # log
    BY <1>3
  <2>6. QED
    BY <2>2, <2>4, <2>5
<1>7. /\ RepairedTable(kept) \in RepairFile /\ RepairedTable(kept).kind = "table"
      /\ RepairedTable(kept).entries = kept
  BY <1>5 DEF RepairedTable, RepairFile
<1>8. RpFilesInv'
  <2>1. \A x \in DOMAIN rp_files' : /\ rp_files'[x] \in RepairFile
                                    /\ rp_files'[x].kind = "table" => rp_files'[x].entries # {}
    BY <1>2, <1>5, <1>6, <1>7
  <2>2. /\ rp_files' \in [DOMAIN rp_files' -> RepairFile] /\ DOMAIN rp_files' \subseteq Nat
        /\ \E m \in Nat : \A n \in DOMAIN rp_files' : n <= m
        /\ \A x \in DOMAIN rp_files' : rp_files'[x].kind = "table" => rp_files'[x].entries # {}
    BY <1>2, <1>3, <1>6, <2>1, FilesGrow
  <2>3. QED
    BY <1>1, <1>2, <2>2 DEF RpFilesInv, Numbers
<1>9. RpDBInv'
  <2>1. DOMAIN rp_level' = (DOMAIN rp_level \ old) \cup {log}
    BY <1>1 DEF With, Without
  <2>2. \A n \in DOMAIN rp_level' : n \in DOMAIN rp_files' /\ rp_files'[n].kind = "table"
    BY <1>2, <1>6, <1>7, <2>1
  <2>3. rp_log \in Numbers \ old
    BY <1>2 DEF old
  <2>4. QED
    BY <1>1, <1>2, <1>6, <2>2, <2>3 DEF RpDBInv, Numbers
<1>10. QED
  BY <1>1, <1>8, <1>9, DatabaseFrame

\* Damage to a record or block: the file stays, and a table stays non-empty.
LEMMA RpDamageStep ==
    ASSUME RpInv, NEW n \in Numbers, NEW e \in rp_files[n].entries, RepairDamage(n, e)
    PROVE  RpInv'
<1>0. PICK f : f = rp_files[n]
  OBVIOUS
<1>1. /\ rp_pc = "db" /\ rp_pc' = "db" /\ UNCHANGED repairer
      /\ rp_last' = rp_last /\ rp_log' = rp_log /\ rp_clean' = rp_clean /\ rp_level' = rp_level
  BY DEF RepairDamage, repairer
<1>2. /\ rp_files \in [Numbers -> RepairFile] /\ f \in RepairFile /\ e \in RepairEntry
      /\ f.kind = "table" => f.entries # {}
  BY <1>0 DEF RpInv, RpFilesInv, RepairFile
<1>3. PICK g \in RepairFile : /\ g.kind = f.kind /\ (f.kind = "table" => g.entries # {})
                              /\ rp_files' = [rp_files EXCEPT ![n] = g]
  <2>1. CASE rp_files' = [rp_files EXCEPT ![n].bad = @ \cup {e}]
    <3>1. PICK g : g = [f EXCEPT !.bad = @ \cup {e}]
      OBVIOUS
    <3>2. g \in RepairFile /\ g.kind = f.kind /\ g.entries = f.entries
      BY <1>2, <3>1 DEF RepairFile
    <3>3. rp_files' = [rp_files EXCEPT ![n] = g]
      BY <1>0, <2>1, <3>1
    <3>4. QED
      BY <1>2, <3>2, <3>3
  <2>2. ASSUME NEW s \in {0, Garbage},
               rp_files' = [rp_files EXCEPT ![n].entries = (@ \ {e}) \cup {[k |-> e.k, s |-> s]}]
        PROVE  \E g \in RepairFile : /\ g.kind = f.kind /\ (f.kind = "table" => g.entries # {})
                                     /\ rp_files' = [rp_files EXCEPT ![n] = g]
    <3>1. PICK g : g = [f EXCEPT !.entries = (@ \ {e}) \cup {[k |-> e.k, s |-> s]}]
      OBVIOUS
    <3>2. [k |-> e.k, s |-> s] \in RepairEntry
      BY <1>2, RepairAssumption DEF RepairEntry
    <3>3. g \in RepairFile /\ g.kind = f.kind /\ g.entries # {}
      BY <1>2, <3>1, <3>2 DEF RepairFile
    <3>4. rp_files' = [rp_files EXCEPT ![n] = g]
      BY <1>0, <2>2, <3>1
    <3>5. QED
      BY <3>3, <3>4
  <2>3. QED
    BY <2>1, <2>2 DEF RepairDamage
<1>4. /\ Numbers' = Numbers /\ rp_files'[n] = g /\ rp_files' \in [Numbers -> RepairFile]
      /\ \A m \in Numbers : m # n => rp_files'[m] = rp_files[m]
  BY <1>2, <1>3 DEF Numbers
<1>5. RpFilesInv'
  BY <1>0, <1>1, <1>3, <1>4 DEF RpInv, RpFilesInv
<1>6. RpDBInv'
  BY <1>0, <1>1, <1>3, <1>4 DEF RpInv, RpDBInv
<1>7. QED
  BY <1>1, <1>5, <1>6, DatabaseFrame

\* A Repairer's step: no database, and not done.
LEMMA RepairerFrame ==
    ASSUME rp_pc' \in {"find", "convert", "scan"}, RpFilesInv', RpFoundInv', RpHadInv'
    PROVE  RpInv'
BY DEF RpInv, RpDBInv, RepairSound, RepairKeepsReadable, RepairNumbersFresh

\* FindFiles lists every file there is.
LEMMA FindFilesStep ==
    ASSUME RpInv, FindFiles
    PROVE  RpInv'
<1>1. /\ rp_pc \in {"db", "find"} /\ rp_pc' = "convert" /\ rp_files' = rp_files
      /\ rp_logs' = {n \in Numbers : rp_files[n].kind = "log"}
      /\ rp_numbers' = {n \in Numbers : rp_files[n].kind = "table"}
      /\ rp_next' = FindNext /\ DOMAIN rp_tables' = {} /\ rp_lost' = rp_lost /\ rp_clean' = rp_clean
      /\ rp_pc = "db" => rp_had' = UNION {Good(rp_files[n]) : n \in Numbers}
      /\ rp_pc = "find" => rp_had' = rp_had
  BY DEF FindFiles
<1>2. RpFilesInv /\ Numbers' = Numbers /\ \A n \in Numbers : rp_files[n].kind \in {"log", "table"}
  BY <1>1 DEF RpInv, RpFilesInv, RepairFile, Numbers
<1>3. RpFilesInv'
  BY <1>1, <1>2 DEF RpFilesInv
<1>4. RpFoundInv'
  BY <1>1, <1>2, NextNumber DEF RpFoundInv
<1>5. Sources' = Numbers
  BY <1>1, <1>2 DEF Sources
<1>6. RpHadInv'
  <2>1. CASE rp_pc = "db"
    BY <1>1, <1>2, <1>5, <2>1 DEF RpHadInv, Good
  <2>2. CASE rp_pc = "find"
    <3>1. Sources = Numbers
      BY <2>2 DEF Sources
    <3>2. QED
      BY <1>1, <1>2, <1>5, <2>2, <3>1 DEF RpInv, RpHadInv, Good
  <2>3. QED
    BY <1>1, <2>1, <2>2
<1>7. QED
  BY <1>1, <1>3, <1>4, <1>6, RepairerFrame

\* What a log may be read as contains all that can be read of it.
LEMMA LogContentsFacts ==
    ASSUME NEW f \in RepairFile, NEW E \in LogContents(f)
    PROVE  E \subseteq RepairEntry /\ Good(f) \subseteq E
<1>1. PICK R \in SUBSET {[k |-> e.k, s |-> Garbage] : e \in f.bad} : E = Good(f) \cup R
  BY DEF LogContents
<1>2. \A e \in f.bad : [k |-> e.k, s |-> Garbage] \in RepairEntry
  BY RepairAssumption DEF RepairFile, RepairEntry
<1>3. R \subseteq RepairEntry
  BY <1>1, <1>2
<1>4. QED
  BY <1>1, <1>3 DEF Good, RepairFile

\* ConvertLogToTable and ArchiveFile.
LEMMA ConvertLogStep ==
    ASSUME RpInv, NEW log \in rp_logs, NEW E \in LogContents(rp_files[log]), NEW ok \in BOOLEAN,
           ConvertLog(log, E, ok)
    PROVE  RpInv'
<1>0. PICK f, A : f = rp_files[log] /\ A = Without(rp_files, {log})
  OBVIOUS
<1>1. /\ rp_pc = "convert" /\ rp_pc' = "convert" /\ log \in rp_logs /\ E \in LogContents(f)
      /\ rp_logs' = rp_logs \ {log} /\ rp_next' = rp_next + 1
      /\ rp_numbers' = IF ok THEN ConvertedNumbers(rp_next, E) ELSE rp_numbers
      /\ rp_files' = IF ok /\ E # {} THEN With(A, rp_next, RepairedTable(E)) ELSE A
      /\ rp_lost' = rp_lost \cup f.entries /\ rp_clean' = (rp_clean /\ ok)
      /\ rp_tables' = rp_tables /\ rp_had' = rp_had
  BY <1>0 DEF ConvertLog
<1>2. /\ RpFilesInv /\ rp_files \in [Numbers -> RepairFile] /\ log \in Numbers /\ f \in RepairFile
      /\ rp_next \in Nat /\ \A n \in Numbers : n < rp_next /\ n \in Nat
      /\ f.kind = "log"
      /\ \A n \in rp_logs : n \in Numbers /\ rp_files[n].kind = "log"
      /\ \A n \in rp_numbers : /\ n \in Numbers \ {log} /\ rp_files[n].kind = "table"
                               /\ n \notin DOMAIN rp_tables
      /\ \A n \in DOMAIN rp_tables :
            /\ n \in Numbers \ {log} /\ rp_files[n].kind = "table" /\ rp_tables[n] \in 0 .. Garbage
            /\ \A e \in rp_files[n].entries : e.s <= rp_tables[n]
  BY <1>0, <1>1 DEF RpInv, RpFilesInv, RpFoundInv
<1>3. E \subseteq RepairEntry /\ Good(f) \subseteq E
  BY <1>1, <1>2, LogContentsFacts
<1>4. /\ RepairedTable(E) \in RepairFile /\ RepairedTable(E).kind = "table"
      /\ RepairedTable(E).entries = E /\ Good(RepairedTable(E)) = E
  BY <1>3 DEF RepairedTable, RepairFile, Good
<1>5. /\ DOMAIN A = Numbers \ {log} /\ \A n \in Numbers \ {log} : A[n] = rp_files[n]
      /\ A = [x \in DOMAIN A |-> A[x]]
  BY <1>0 DEF Without, Numbers
<1>6. /\ \A n \in Numbers \ {log} : n \in DOMAIN rp_files' /\ rp_files'[n] = rp_files[n]
      /\ DOMAIN rp_files' \subseteq (Numbers \ {log}) \cup {rp_next}
      /\ rp_next \in DOMAIN rp_files' <=> ok /\ E # {}
      /\ ok /\ E # {} => rp_files'[rp_next] = RepairedTable(E)
      /\ rp_files' = [x \in DOMAIN rp_files' |-> rp_files'[x]]
  <2>1. rp_next \notin Numbers
    BY <1>2
  <2>2. CASE ok /\ E # {}
    <3>1. rp_files' = With(A, rp_next, RepairedTable(E))
      BY <1>1, <2>2
    <3>2. /\ DOMAIN rp_files' = DOMAIN A \cup {rp_next} /\ rp_files'[rp_next] = RepairedTable(E)
          /\ \A x \in DOMAIN A : x # rp_next => rp_files'[x] = A[x]
          /\ rp_files' = [x \in DOMAIN rp_files' |-> rp_files'[x]]
      BY <3>1 DEF With
    <3>3. QED
      BY <1>5, <2>1, <2>2, <3>2
  <2>3. CASE ~(ok /\ E # {})
    <3>1. rp_files' = A
      BY <1>1, <2>3
    <3>2. QED
      BY <1>5, <2>1, <2>3, <3>1
  <2>4. QED
    BY <2>2, <2>3
<1>7. RpFilesInv'
  <2>1. \A x \in DOMAIN rp_files' : /\ rp_files'[x] \in RepairFile
                                    /\ rp_files'[x].kind = "table" => rp_files'[x].entries # {}
    BY <1>2, <1>4, <1>6 DEF RpFilesInv
  <2>2. /\ rp_files' \in [DOMAIN rp_files' -> RepairFile] /\ DOMAIN rp_files' \subseteq Nat
        /\ \E m \in Nat : \A n \in DOMAIN rp_files' : n <= m
        /\ \A x \in DOMAIN rp_files' : rp_files'[x].kind = "table" => rp_files'[x].entries # {}
    BY <1>2, <1>6, <2>1, FilesGrow
  <2>3. rp_clean' \in BOOLEAN
    BY <1>1 DEF RpInv, RpFilesInv
  <2>4. QED
    BY <1>1, <2>2, <2>3 DEF RpFilesInv, Numbers
<1>8. /\ rp_numbers' \subseteq rp_numbers \cup {rp_next} /\ rp_numbers \subseteq rp_numbers'
      /\ rp_next \in rp_numbers' <=> ok /\ E # {}
  <2>1. rp_next \notin rp_numbers
    BY <1>2
  <2>2. QED
    BY <1>1, <2>1 DEF ConvertedNumbers
<1>9. RpFoundInv'
  <2>1. rp_next' \in Nat /\ \A n \in DOMAIN rp_files' : n < rp_next'
    BY <1>1, <1>2, <1>6
  <2>2. \A n \in rp_logs' : n \in DOMAIN rp_files' /\ rp_files'[n].kind = "log"
    BY <1>1, <1>2, <1>6
  <2>3. \A n \in rp_numbers' : /\ n \in DOMAIN rp_files' /\ rp_files'[n].kind = "table"
                               /\ n \notin DOMAIN rp_tables'
    <3>1. rp_next \notin DOMAIN rp_tables
      BY <1>2
    <3>2. QED
      BY <1>1, <1>2, <1>4, <1>6, <1>8, <3>1
  <2>4. \A n \in DOMAIN rp_tables' :
            /\ n \in DOMAIN rp_files' /\ rp_files'[n].kind = "table" /\ rp_tables'[n] \in 0 .. Garbage
            /\ \A e \in rp_files'[n].entries : e.s <= rp_tables'[n]
    BY <1>1, <1>2, <1>6
  <2>5. QED
    BY <1>1, <2>1, <2>2, <2>3, <2>4 DEF RpFoundInv, Numbers
<1>10. RpHadInv'
  <2> SUFFICES ASSUME NEW e \in rp_had
               PROVE  /\ e \in rp_lost' \/ \E n \in DOMAIN rp_files' : e \in rp_files'[n].entries
                      /\ rp_clean' => \E n \in Sources' : e \in Good(rp_files'[n])
    BY <1>1 DEF RpHadInv, Numbers
  <2>1. e \in rp_lost' \/ \E n \in DOMAIN rp_files' : e \in rp_files'[n].entries
    <3>1. e \in rp_lost \/ \E n \in Numbers : e \in rp_files[n].entries
      BY <1>1 DEF RpInv, RpHadInv
    <3>2. QED
      BY <1>0, <1>1, <1>6, <3>1
  <2>2. ASSUME rp_clean'
        PROVE  \E n \in Sources' : e \in Good(rp_files'[n])
    <3>1. ok /\ rp_clean /\ Sources = rp_logs \cup rp_numbers \cup DOMAIN rp_tables
          /\ Sources' = rp_logs' \cup rp_numbers' \cup DOMAIN rp_tables'
      BY <1>1, <2>2 DEF Sources
    <3>2. PICK n \in Sources : e \in Good(rp_files[n])
      BY <1>1, <3>1 DEF RpInv, RpHadInv
    <3>3. CASE n # log
      <4>1. n \in Sources' /\ n \in Numbers \ {log}
        BY <1>1, <1>2, <1>8, <3>1, <3>3
      <4>2. QED
        BY <1>6, <3>2, <4>1
    <3>4. CASE n = log
      <4>1. e \in E /\ E # {}
        BY <1>0, <1>3, <3>2, <3>4
      <4>2. rp_next \in Sources' /\ rp_files'[rp_next] = RepairedTable(E)
        BY <1>6, <1>8, <3>1, <4>1
      <4>3. QED
        BY <1>4, <4>1, <4>2
    <3>5. QED
      BY <3>3, <3>4
  <2>3. QED
    BY <2>1, <2>2
<1>11. QED
  BY <1>1, <1>7, <1>9, <1>10, RepairerFrame

\* The table of a log is there and the log too: both will be found.
LEMMA CrashBuiltStep ==
    ASSUME RpInv, NEW log \in rp_logs, NEW E \in LogContents(rp_files[log]),
           RepairCrashBuilt(log, E)
    PROVE  RpInv'
<1>1. /\ rp_pc = "convert" /\ rp_pc' = "find" /\ E # {}
      /\ rp_files' = With(rp_files, rp_next, RepairedTable(E))
      /\ rp_lost' = rp_lost /\ rp_clean' = rp_clean /\ rp_had' = rp_had
  BY DEF RepairCrashBuilt, repairer
<1>2. /\ RpFilesInv /\ rp_files \in [Numbers -> RepairFile] /\ rp_files[log] \in RepairFile
      /\ rp_next \in Nat /\ \A n \in Numbers : n < rp_next /\ n \in Nat
  BY <1>1 DEF RpInv, RpFilesInv, RpFoundInv
<1>3. E \subseteq RepairEntry
  BY <1>2, LogContentsFacts
<1>4. /\ RepairedTable(E) \in RepairFile /\ RepairedTable(E).kind = "table"
      /\ RepairedTable(E).entries = E
  BY <1>3 DEF RepairedTable, RepairFile
<1>5. /\ DOMAIN rp_files' = Numbers \cup {rp_next} /\ rp_files'[rp_next] = RepairedTable(E)
      /\ \A n \in Numbers : rp_files'[n] = rp_files[n]
      /\ rp_files' = [x \in DOMAIN rp_files' |-> rp_files'[x]]
  <2>1. rp_next \notin Numbers
    BY <1>2
  <2>2. QED
    BY <1>1, <2>1 DEF With, Numbers
<1>6. RpFilesInv'
  <2>1. \A x \in DOMAIN rp_files' : /\ rp_files'[x] \in RepairFile
                                    /\ rp_files'[x].kind = "table" => rp_files'[x].entries # {}
    BY <1>1, <1>2, <1>4, <1>5 DEF RpFilesInv
  <2>2. /\ rp_files' \in [DOMAIN rp_files' -> RepairFile] /\ DOMAIN rp_files' \subseteq Nat
        /\ \E m \in Nat : \A n \in DOMAIN rp_files' : n <= m
        /\ \A x \in DOMAIN rp_files' : rp_files'[x].kind = "table" => rp_files'[x].entries # {}
    BY <1>2, <1>5, <2>1, FilesGrow
  <2>3. QED
    BY <1>1, <1>2, <2>2 DEF RpFilesInv, Numbers
<1>7. RpFoundInv'
  BY <1>1 DEF RpFoundInv
<1>8. RpHadInv'
  <2>1. Sources \subseteq Numbers /\ Sources' = DOMAIN rp_files'
    BY <1>1 DEF Sources, RpInv, RpFoundInv, Numbers
  <2>2. QED
    BY <1>1, <1>5, <2>1 DEF RpInv, RpHadInv, Numbers, Good
<1>9. QED
  BY <1>1, <1>6, <1>7, <1>8, RepairerFrame

\* All logs are converted.
LEMMA LogsConvertedStep ==
    ASSUME RpInv, LogsConverted
    PROVE  RpInv'
<1>1. /\ rp_pc = "convert" /\ rp_logs = {} /\ rp_pc' = "scan" /\ rp_files' = rp_files
      /\ UNCHANGED <<rp_logs, rp_numbers, rp_tables, rp_next, rp_lost, rp_clean, rp_had>>
  BY DEF LogsConverted, repairer
<1>2. Numbers' = Numbers /\ Sources' = Sources
  BY <1>1 DEF Numbers, Sources
<1>3. RpFilesInv'
  BY <1>1, <1>2 DEF RpInv, RpFilesInv
<1>4. RpFoundInv'
  BY <1>1, <1>2 DEF RpInv, RpFoundInv
<1>5. RpHadInv'
  BY <1>1, <1>2 DEF RpInv, RpHadInv, Good
<1>6. QED
  BY <1>1, <1>3, <1>4, <1>5, RepairerFrame

\* ScanTable of a sound table lists it with the greatest number in it.
LEMMA ScanTableStep ==
    ASSUME RpInv, NEW n \in rp_numbers, ScanTable(n)
    PROVE  RpInv'
<1>0. PICK m : m = MaxSequenceOf(rp_files[n].entries)
  OBVIOUS
<1>1. /\ rp_pc = "scan" /\ rp_pc' = "scan" /\ rp_numbers' = rp_numbers \ {n}
      /\ rp_tables' = With(rp_tables, n, m)
      /\ UNCHANGED <<rp_files, rp_logs, rp_next, rp_lost, rp_clean, rp_had>>
  BY <1>0 DEF ScanTable
<1>2. n \in Numbers /\ rp_files[n].kind = "table" /\ n \notin DOMAIN rp_tables
  BY <1>1 DEF RpInv, RpFoundInv
<1>3. m \in 0 .. Garbage /\ \A e \in rp_files[n].entries : e.s <= m
  <2>1. rp_files[n].entries \in SUBSET RepairEntry /\ rp_files[n].entries # {}
    BY <1>2 DEF RpInv, RpFilesInv, RepairFile
  <2>2. QED
    BY <1>0, <2>1, MaxSequence
<1>4. /\ DOMAIN rp_tables' = DOMAIN rp_tables \cup {n} /\ rp_tables'[n] = m
      /\ \A x \in DOMAIN rp_tables : rp_tables'[x] = rp_tables[x]
  BY <1>1, <1>2 DEF With
<1>5. Numbers' = Numbers /\ Sources' = Sources
  BY <1>1, <1>4 DEF Numbers, Sources
<1>6. RpFilesInv'
  BY <1>1, <1>5 DEF RpInv, RpFilesInv
<1>7. RpFoundInv'
  BY <1>1, <1>2, <1>3, <1>4, <1>5 DEF RpInv, RpFoundInv
<1>8. RpHadInv'
  BY <1>1, <1>5 DEF RpInv, RpHadInv, Good
<1>9. QED
  BY <1>1, <1>6, <1>7, <1>8, RepairerFrame

\* A number below next_file_number stays below it.
LEMMA StaysAbove == \A a, b \in Nat : a + 1 \in Nat /\ (b < a => b < a + 1)
OBVIOUS

\* A table whose size cannot be had goes to lost/.
LEMMA DropTableStep ==
    ASSUME RpInv, NEW n \in rp_numbers, DropTable(n)
    PROVE  RpInv'
<1>0. PICK f : f = rp_files[n]
  OBVIOUS
<1>1. /\ rp_pc = "scan" /\ rp_pc' = "scan" /\ rp_numbers' = rp_numbers \ {n}
      /\ rp_next' = rp_next /\ rp_logs' = rp_logs /\ rp_had' = rp_had /\ rp_tables' = rp_tables
      /\ rp_lost' = rp_lost \cup f.entries /\ rp_files' = Without(rp_files, {n})
      /\ rp_clean' = FALSE
  BY <1>0 DEF DropTable
<1>2. RpFilesInv /\ RpFoundInv /\ n \notin DOMAIN rp_tables /\ n \notin rp_logs
  BY <1>1 DEF RpInv, RpFoundInv
<1>3. /\ DOMAIN rp_files' = Numbers \ {n} /\ \A x \in Numbers \ {n} : rp_files'[x] = rp_files[x]
      /\ rp_files' = [x \in DOMAIN rp_files' |-> rp_files'[x]]
  BY <1>1 DEF Without, Numbers
<1>4. RpFilesInv'
  <2>1. rp_files' \in [Numbers' -> RepairFile]
    BY <1>2, <1>3 DEF RpFilesInv, Numbers
  <2>2. QED
    BY <1>1, <1>2, <1>3, <2>1 DEF RpFilesInv, Numbers
<1>5. RpFoundInv'
  <2>1. \A x \in DOMAIN rp_tables : x \in Numbers \ {n}
    BY <1>1, <1>2 DEF RpFoundInv
  <2>2. QED
    BY <1>1, <1>2, <1>3, <2>1 DEF RpFoundInv, Numbers
<1>6. RpHadInv'
  <2> SUFFICES ASSUME NEW e \in rp_had
               PROVE  e \in rp_lost' \/ \E x \in DOMAIN rp_files' : e \in rp_files'[x].entries
    BY <1>1 DEF RpHadInv, Numbers
  <2>1. e \in rp_lost \/ \E x \in Numbers : e \in rp_files[x].entries
    BY <1>1 DEF RpInv, RpHadInv
  <2>2. QED
    BY <1>0, <1>1, <1>3, <2>1
<1>7. QED
  BY <1>1, <1>4, <1>5, <1>6, RepairerFrame

\* RepairTable copies what can be read of a damaged table, or loses it to lost/, or leaves it.
LEMMA RepairTableStep ==
    ASSUME RpInv, NEW n \in rp_numbers, NEW how \in {"ok", "copy fails", "no copy"},
           RepairTable(n, how)
    PROVE  RpInv'
<1>0. PICK f, g, m : f = rp_files[n] /\ g = RepairedTable(Good(f)) /\ m = MaxSequenceOf(Good(f))
  OBVIOUS
<1>1. /\ rp_pc = "scan" /\ rp_pc' = "scan" /\ rp_numbers' = rp_numbers \ {n}
      /\ rp_next' = rp_next + 1 /\ rp_logs' = rp_logs /\ rp_had' = rp_had
      /\ rp_lost' = IF how = "no copy" THEN rp_lost ELSE rp_lost \cup f.entries
      /\ rp_files' = IF how = "ok" /\ Good(f) # {} THEN With(rp_files, n, g)
                     ELSE IF how = "no copy" THEN rp_files ELSE Without(rp_files, {n})
      /\ rp_tables' = IF how = "ok" /\ Good(f) # {} THEN With(rp_tables, n, m) ELSE rp_tables
      /\ rp_clean' = (rp_clean /\ how = "ok")
  BY <1>0 DEF RepairTable
<1>2. /\ RpFilesInv /\ rp_files \in [Numbers -> RepairFile] /\ n \in Numbers /\ f \in RepairFile
      /\ f.kind = "table" /\ n \notin DOMAIN rp_tables /\ n \notin rp_logs
      /\ rp_next \in Nat /\ \A x \in Numbers : x < rp_next /\ x \in Nat
      /\ \A x \in rp_logs : x \in Numbers /\ rp_files[x].kind = "log"
      /\ \A x \in rp_numbers : /\ x \in Numbers /\ rp_files[x].kind = "table"
                               /\ x \notin DOMAIN rp_tables
      /\ \A x \in DOMAIN rp_tables :
            /\ x \in Numbers /\ rp_files[x].kind = "table" /\ rp_tables[x] \in 0 .. Garbage
            /\ \A e \in rp_files[x].entries : e.s <= rp_tables[x]
      /\ rp_logs = {}
  BY <1>0, <1>1 DEF RpInv, RpFilesInv, RpFoundInv
<1>3. /\ Good(f) \in SUBSET RepairEntry /\ Good(f) \subseteq f.entries
      /\ g \in RepairFile /\ g.kind = "table" /\ g.entries = Good(f) /\ Good(g) = Good(f)
  <2>1. Good(f) \in SUBSET RepairEntry /\ Good(f) \subseteq f.entries
    BY <1>2 DEF Good, RepairFile
  <2>2. PICK G : G = Good(f)
    OBVIOUS
  <2>3. g = [kind |-> "table", entries |-> G, bad |-> {}]
    BY <1>0, <2>2 DEF RepairedTable
  <2>4. g \in RepairFile /\ g.kind = "table" /\ g.entries = G /\ g.bad = {}
    BY <2>1, <2>2, <2>3 DEF RepairFile
  <2>5. g.entries \ g.bad = G
    BY <2>4
  <2>6. QED
    BY <2>1, <2>2, <2>4, <2>5 DEF Good
<1>4. Good(f) # {} => m \in 0 .. Garbage /\ \A e \in Good(f) : e.s <= m
  BY <1>0, <1>3, MaxSequence
<1>5. /\ DOMAIN rp_files' \subseteq Numbers /\ \A x \in Numbers \ {n} : x \in DOMAIN rp_files'
      /\ \A x \in Numbers \ {n} : rp_files'[x] = rp_files[x]
      /\ rp_files' = [x \in DOMAIN rp_files' |-> rp_files'[x]]
      /\ n \in DOMAIN rp_files' => (rp_files'[n] = g /\ Good(f) # {}) \/ rp_files'[n] = f
      /\ how = "ok" /\ Good(f) # {} => n \in DOMAIN rp_files' /\ rp_files'[n] = g
      /\ how = "no copy" => n \in DOMAIN rp_files' /\ rp_files'[n] = f
  <2>1. CASE how = "ok" /\ Good(f) # {}
    <3>1. rp_files' = With(rp_files, n, g)
      BY <1>1, <2>1
    <3>2. QED
      BY <1>2, <2>1, <3>1 DEF With, Numbers
  <2>2. CASE how = "no copy"
    <3>1. rp_files' = rp_files
      BY <1>1, <2>2
    <3>2. QED
      BY <1>0, <1>2, <2>2, <3>1 DEF Numbers
  <2>3. CASE ~(how = "ok" /\ Good(f) # {}) /\ how # "no copy"
    <3>1. rp_files' = Without(rp_files, {n})
      BY <1>1, <2>3
    <3>2. QED
      BY <2>3, <3>1 DEF Without, Numbers
  <2>4. QED
    BY <2>1, <2>2, <2>3
<1>6. /\ DOMAIN rp_tables \subseteq DOMAIN rp_tables'
      /\ \A x \in DOMAIN rp_tables : rp_tables'[x] = rp_tables[x]
      /\ \A x \in DOMAIN rp_tables' \ DOMAIN rp_tables :
            x = n /\ rp_tables'[n] = m /\ how = "ok" /\ Good(f) # {}
      /\ how = "ok" /\ Good(f) # {} => n \in DOMAIN rp_tables'
  <2>1. CASE how = "ok" /\ Good(f) # {}
    <3>1. rp_tables' = With(rp_tables, n, m)
      BY <1>1, <2>1
    <3>2. QED
      BY <1>2, <2>1, <3>1 DEF With
  <2>2. CASE ~(how = "ok" /\ Good(f) # {})
    BY <1>1, <2>2
  <2>3. QED
    BY <2>1, <2>2
<1>7. RpFilesInv'
  <2>1. \A x \in DOMAIN rp_files' : /\ rp_files'[x] \in RepairFile
                                    /\ rp_files'[x].kind = "table" => rp_files'[x].entries # {}
    <3>1. SUFFICES ASSUME NEW x \in DOMAIN rp_files'
                   PROVE  /\ rp_files'[x] \in RepairFile
                          /\ rp_files'[x].kind = "table" => rp_files'[x].entries # {}
      OBVIOUS
    <3>2. \A y \in Numbers : /\ rp_files[y] \in RepairFile
                             /\ rp_files[y].kind = "table" => rp_files[y].entries # {}
      BY <1>2 DEF RpFilesInv
    <3>3. CASE x # n
      <4>1. x \in Numbers /\ rp_files'[x] = rp_files[x]
        BY <1>5, <3>3
      <4>2. QED
        BY <3>2, <4>1
    <3>4. CASE x = n /\ rp_files'[x] = g /\ Good(f) # {}
      BY <1>3, <3>4
    <3>5. CASE x = n /\ rp_files'[x] = f
      BY <1>0, <1>2, <3>2, <3>5
    <3>6. QED
      BY <1>5, <3>3, <3>4, <3>5
  <2>2. /\ rp_files' \in [DOMAIN rp_files' -> RepairFile] /\ DOMAIN rp_files' \subseteq Nat
        /\ \E b \in Nat : \A x \in DOMAIN rp_files' : x <= b
        /\ \A x \in DOMAIN rp_files' : rp_files'[x].kind = "table" => rp_files'[x].entries # {}
    BY <1>2, <1>5, <2>1, FilesGrow
  <2>3. rp_clean' \in BOOLEAN
    BY <1>1 DEF RpInv, RpFilesInv
  <2>4. QED
    BY <1>1, <2>2, <2>3 DEF RpFilesInv, Numbers
<1>8. RpFoundInv'
  <2>1. rp_next' \in Nat /\ \A x \in DOMAIN rp_files' : x < rp_next'
    <3>1. rp_next \in Nat /\ rp_next' = rp_next + 1 /\ \A x \in Numbers : x < rp_next /\ x \in Nat
      BY <1>1, <1>2
    <3>2. DOMAIN rp_files' \subseteq Numbers
      BY <1>5
    <3>3. \A a, b \in Nat : a + 1 \in Nat /\ (b < a => b < a + 1)
      BY StaysAbove
    <3>4. rp_next' \in Nat
      BY <3>1, <3>3
    <3>5. ASSUME NEW x \in DOMAIN rp_files'
          PROVE  x < rp_next'
      <4>1. x \in Nat /\ x < rp_next
        BY <3>1, <3>2
      <4>2. x < rp_next + 1
        BY <3>1, <3>3, <4>1
      <4>3. QED
        BY <3>1, <4>2
    <3>6. QED
      BY <3>4, <3>5
  <2>2. \A x \in rp_numbers' : /\ x \in DOMAIN rp_files' /\ rp_files'[x].kind = "table"
                               /\ x \notin DOMAIN rp_tables'
    BY <1>1, <1>2, <1>5, <1>6
  <2>3. ASSUME NEW x \in DOMAIN rp_tables'
        PROVE  /\ x \in DOMAIN rp_files' /\ rp_files'[x].kind = "table"
               /\ rp_tables'[x] \in 0 .. Garbage
               /\ \A e \in rp_files'[x].entries : e.s <= rp_tables'[x]
    <3>1. CASE x \in DOMAIN rp_tables
      BY <1>2, <1>5, <1>6, <3>1
    <3>2. CASE x \notin DOMAIN rp_tables
      <4>1. x = n /\ rp_tables'[x] = m /\ how = "ok" /\ Good(f) # {}
        BY <1>6, <3>2
      <4>2. x \in DOMAIN rp_files' /\ rp_files'[x] = g
        BY <1>5, <4>1
      <4>3. QED
        BY <1>3, <1>4, <4>1, <4>2
    <3>3. QED
      BY <3>1, <3>2
  <2>4. QED
    BY <1>1, <1>2, <2>1, <2>2, <2>3 DEF RpFoundInv, Numbers
<1>9. RpHadInv'
  <2> SUFFICES ASSUME NEW e \in rp_had
               PROVE  /\ e \in rp_lost' \/ \E x \in DOMAIN rp_files' : e \in rp_files'[x].entries
                      /\ rp_clean' => \E x \in Sources' : e \in Good(rp_files'[x])
    BY <1>1 DEF RpHadInv, Numbers
  <2>1. e \in rp_lost' \/ \E x \in DOMAIN rp_files' : e \in rp_files'[x].entries
    <3>1. e \in rp_lost \/ \E x \in Numbers : e \in rp_files[x].entries
      BY <1>1 DEF RpInv, RpHadInv
    <3>2. CASE e \in rp_lost
      BY <1>1, <3>2
    <3>3. ASSUME NEW x \in Numbers, e \in rp_files[x].entries, x # n
          PROVE  \E y \in DOMAIN rp_files' : e \in rp_files'[y].entries
      BY <1>5, <3>3
    <3>4. CASE e \in f.entries
      BY <1>1, <1>5, <3>4
    <3>5. QED
      BY <1>0, <3>1, <3>2, <3>3, <3>4
  <2>2. ASSUME rp_clean'
        PROVE  \E x \in Sources' : e \in Good(rp_files'[x])
    <3>1. /\ how = "ok" /\ rp_clean /\ Sources = rp_logs \cup rp_numbers \cup DOMAIN rp_tables
          /\ Sources' = rp_logs' \cup rp_numbers' \cup DOMAIN rp_tables'
      BY <1>1, <2>2 DEF Sources
    <3>2. PICK x \in Sources : e \in Good(rp_files[x])
      BY <1>1, <3>1 DEF RpInv, RpHadInv
    <3>3. CASE x # n
      <4>1. x \in Sources' /\ x \in Numbers \ {n}
        BY <1>1, <1>2, <1>6, <3>1, <3>3
      <4>2. QED
        BY <1>5, <3>2, <4>1
    <3>4. CASE x = n
      <4>1. e \in Good(f) /\ Good(f) # {}
        BY <1>0, <3>2, <3>4
      <4>2. n \in Sources' /\ rp_files'[n] = g
        BY <1>5, <1>6, <3>1, <4>1
      <4>3. QED
        BY <1>3, <4>1, <4>2
    <3>5. QED
      BY <3>3, <3>4
  <2>3. QED
    BY <2>1, <2>2
<1>10. QED
  BY <1>1, <1>7, <1>8, <1>9, RepairerFrame

\* The process stops; a table whose copy was under way is under lost/.
LEMMA RpCrashStep ==
    ASSUME RpInv, NEW gone, RepairCrash(gone)
    PROVE  RpInv'
<1>1. /\ rp_pc \in {"convert", "scan"} /\ rp_pc' = "find" /\ rp_files' = Without(rp_files, gone)
      /\ rp_lost' = rp_lost \cup UNION {rp_files[n].entries : n \in gone}
      /\ rp_clean' = (rp_clean /\ gone = {}) /\ rp_had' = rp_had
  BY DEF RepairCrash
<1>2. /\ DOMAIN rp_files' = Numbers \ gone /\ \A n \in Numbers \ gone : rp_files'[n] = rp_files[n]
      /\ rp_files' = [x \in DOMAIN rp_files' |-> rp_files'[x]]
  BY <1>1 DEF Without, Numbers
<1>3. RpFilesInv'
  <2>1. \A x \in DOMAIN rp_files' : /\ rp_files'[x] \in RepairFile
                                    /\ rp_files'[x].kind = "table" => rp_files'[x].entries # {}
    BY <1>2 DEF RpInv, RpFilesInv
  <2>2. DOMAIN rp_files' \subseteq Numbers \cup {0, 0} /\ RpFilesInv
    BY <1>2 DEF RpInv
  <2>3. /\ rp_files' \in [DOMAIN rp_files' -> RepairFile] /\ DOMAIN rp_files' \subseteq Nat
        /\ \E b \in Nat : \A x \in DOMAIN rp_files' : x <= b
        /\ \A x \in DOMAIN rp_files' : rp_files'[x].kind = "table" => rp_files'[x].entries # {}
    BY <1>2, <2>1, <2>2, FilesGrow
  <2>4. rp_clean' \in BOOLEAN
    BY <1>1 DEF RpInv, RpFilesInv
  <2>5. QED
    BY <1>1, <2>3, <2>4 DEF RpFilesInv, Numbers
<1>4. RpFoundInv'
  BY <1>1 DEF RpFoundInv
<1>5. RpHadInv'
  <2>1. Sources \subseteq Numbers /\ Sources' = Numbers \ gone
    BY <1>1, <1>2 DEF Sources, RpInv, RpFoundInv, Numbers
  <2> SUFFICES ASSUME NEW e \in rp_had
               PROVE  /\ e \in rp_lost' \/ \E x \in DOMAIN rp_files' : e \in rp_files'[x].entries
                      /\ rp_clean' => \E x \in Sources' : e \in Good(rp_files'[x])
    BY <1>1 DEF RpHadInv, Numbers
  <2>2. e \in rp_lost' \/ \E x \in DOMAIN rp_files' : e \in rp_files'[x].entries
    <3>1. e \in rp_lost \/ \E x \in Numbers : e \in rp_files[x].entries
      BY <1>1 DEF RpInv, RpHadInv
    <3>2. ASSUME NEW x \in Numbers, e \in rp_files[x].entries
          PROVE  e \in rp_lost' \/ \E y \in DOMAIN rp_files' : e \in rp_files'[y].entries
      <4>1. CASE x \in gone
        BY <1>1, <3>2, <4>1
      <4>2. CASE x \notin gone
        BY <1>2, <3>2, <4>2
      <4>3. QED
        BY <4>1, <4>2
    <3>3. QED
      BY <1>1, <3>1, <3>2
  <2>3. ASSUME rp_clean'
        PROVE  \E x \in Sources' : e \in Good(rp_files'[x])
    <3>1. gone = {} /\ rp_clean
      BY <1>1, <2>3
    <3>2. PICK x \in Sources : e \in Good(rp_files[x])
      BY <1>1, <3>1 DEF RpInv, RpHadInv
    <3>3. x \in Numbers \ gone
      BY <2>1, <3>1
    <3>4. QED
      BY <1>2, <2>1, <3>2, <3>3
  <2>4. QED
    BY <2>2, <2>3
<1>6. QED
  BY <1>1, <1>3, <1>4, <1>5, RepairerFrame

\* WriteDescriptor lists the scanned tables: all that could be read is in them, and the numbers
\* that go on from the descriptor are above all that is in them.
LEMMA WriteDescriptorStep ==
    ASSUME RpInv, NEW ok \in BOOLEAN, WriteDescriptor(ok)
    PROVE  RpInv'
<1>1. /\ rp_pc = "scan" /\ rp_numbers = {} /\ rp_pc' = IF ok THEN "done" ELSE "find"
      /\ rp_desc' = IF ok THEN [tables |-> DOMAIN rp_tables, last |-> WriteDescriptorLast,
                                next |-> rp_next] ELSE rp_desc
      /\ UNCHANGED <<rp_files, rp_tables, rp_next, rp_lost, rp_clean, rp_had>>
  BY DEF WriteDescriptor
<1>2. /\ rp_next \in Nat /\ \A n \in Numbers : n < rp_next
      /\ \A n \in DOMAIN rp_tables : /\ n \in Numbers /\ rp_tables[n] \in 0 .. Garbage
                                     /\ \A e \in rp_files[n].entries : e.s <= rp_tables[n]
      /\ rp_logs = {} /\ Sources = DOMAIN rp_tables /\ Numbers' = Numbers
  BY <1>1 DEF RpInv, RpFoundInv, Sources, Numbers
<1>3. /\ RpFilesInv' /\ RpFoundInv' /\ RpDBInv'
  BY <1>1, <1>2 DEF RpInv, RpFilesInv, RpFoundInv, RpDBInv
<1>4. CASE ~ok
  <2>1. rp_pc' = "find" /\ Sources' = Numbers /\ Sources \subseteq Numbers
    BY <1>1, <1>2, <1>4 DEF Sources
  <2>2. RpHadInv'
    BY <1>1, <1>2, <2>1 DEF RpInv, RpHadInv, Good
  <2>3. QED
    BY <1>3, <2>1, <2>2, RepairerFrame
<1>5. CASE ok
  <2>1. rp_pc' = "done" /\ rp_desc'.tables = DOMAIN rp_tables /\ rp_desc'.next = rp_next
        /\ rp_desc'.last = WriteDescriptorLast
    BY <1>1, <1>5
  <2>2. Listed' = UNION {rp_files[n].entries : n \in DOMAIN rp_tables}
    BY <1>1, <2>1 DEF Listed
  <2>3. \A n \in DOMAIN rp_tables : rp_tables[n] <= WriteDescriptorLast /\ WriteDescriptorLast \in Nat
    <3> DEFINE T == {0} \cup {rp_tables[n] : n \in DOMAIN rp_tables}
    <3>1. Garbage \in Nat
      BY RepairAssumption
    <3>2. T \in SUBSET Nat /\ T # {} /\ \A x \in T : x <= Garbage
      BY <1>2, <3>1
    <3>3. \A n \in DOMAIN rp_tables : rp_tables[n] \in T
      OBVIOUS
    <3>4. Max(T) \in T /\ \A x \in T : x <= Max(T)
      <4> HIDE DEF T
      <4>1. QED
        BY <3>1, <3>2, GreatestIsMax
    <3>5. WriteDescriptorLast = Max(T)
      BY DEF WriteDescriptorLast
    <3> HIDE DEF T
    <3>6. QED
      BY <3>2, <3>3, <3>4, <3>5
  <2>4. RepairNumbersFresh'
    <3>1. ASSUME NEW n \in DOMAIN rp_tables, NEW e \in rp_files[n].entries
          PROVE  e.s <= WriteDescriptorLast
      <4>1. e.s \in Nat /\ rp_tables[n] \in Nat /\ WriteDescriptorLast \in Nat
        <5>1. rp_files[n] \in RepairFile
          BY <1>2 DEF RpInv, RpFilesInv
        <5>2. QED
          BY <1>2, <2>3, <3>1, <5>1 DEF RepairFile, RepairEntry
      <4>2. QED
        BY <1>2, <2>3, <4>1
    <3>2. QED
      BY <1>1, <1>2, <2>1, <2>2, <3>1 DEF RepairNumbersFresh
  <2>5. RepairKeepsReadable'
    <3>1. ASSUME NEW e \in rp_had, rp_clean
          PROVE  e \in Listed'
      BY <1>1, <1>2, <2>2, <3>1 DEF RpInv, RpHadInv, Good
    <3>2. ASSUME NEW e \in rp_had
          PROVE  e \in rp_lost \cup UNION {rp_files[n].entries : n \in Numbers}
      BY <1>1 DEF RpInv, RpHadInv
    <3>3. CASE rp_clean
      BY <1>1, <3>1, <3>3 DEF RepairKeepsReadable
    <3>4. CASE ~rp_clean
      BY <1>1, <1>2, <3>2, <3>4 DEF RepairKeepsReadable
    <3>5. QED
      BY <3>3, <3>4
  <2>6. RpHadInv'
    BY <2>1 DEF RpHadInv
  <2>7. QED
    BY <1>3, <2>4, <2>5, <2>6 DEF RpInv, RepairSound
<1>6. QED
  BY <1>4, <1>5

\* The initial state: one empty log.
LEMMA RpInit == RepairInit => RpInv
<1> SUFFICES ASSUME RepairInit
             PROVE  RpInv
  OBVIOUS
<1>1. /\ rp_files = With(<<>>, 1, LogFile({})) /\ DOMAIN rp_level = {} /\ rp_log = 1 /\ rp_last = 0
      /\ rp_pc = "db" /\ rp_clean = TRUE
  BY DEF RepairInit
<1>2. /\ DOMAIN rp_files = {1} /\ rp_files[1] = LogFile({})
      /\ rp_files = [x \in DOMAIN rp_files |-> rp_files[x]]
  BY <1>1 DEF With
<1>3. LogFile({}) \in RepairFile /\ LogFile({}).kind = "log"
  BY DEF LogFile, RepairFile
<1>4. RpFilesInv
  <2>1. rp_files \in [Numbers -> RepairFile] /\ Numbers = {1}
    BY <1>2, <1>3 DEF Numbers
  <2>2. QED
    BY <1>1, <1>2, <1>3, <2>1 DEF RpFilesInv
<1>5. RpDBInv
  BY <1>1, <1>2, <1>3, RepairAssumption DEF RpDBInv, Numbers
<1>6. QED
  BY <1>1, <1>4, <1>5 DEF RpInv, RpFoundInv, RpHadInv, RepairSound, RepairKeepsReadable,
     RepairNumbersFresh

\* RpInv is inductive.
LEMMA RpInductive == RpInv /\ [RepairNext]_rp_vars => RpInv'
<1> SUFFICES ASSUME RpInv, [RepairNext]_rp_vars
             PROVE  RpInv'
  OBVIOUS
<1>1. CASE UNCHANGED rp_vars
  BY <1>1 DEF rp_vars, RpInv, RpFilesInv, RpDBInv, RpFoundInv, RpHadInv, RepairSound,
     RepairKeepsReadable, RepairNumbersFresh, Listed, Numbers, Sources, Good
<1>2. CASE RepairNext
  BY <1>2, RpWriteStep, RpFlushStep, RpCompactStep, RpDamageStep, FindFilesStep, ConvertLogStep,
     CrashBuiltStep, LogsConvertedStep, DropTableStep, ScanTableStep, RepairTableStep, RpCrashStep,
     WriteDescriptorStep DEF RepairNext
<1>3. QED
  BY <1>1, <1>2

\* RepairDB of repair.cpp, over the files of any database and whatever of them is damaged, fails
\* or is interrupted: what could be read is in the tables of the new descriptor, or in lost/ when
\* something failed, and the database numbers on above it.
THEOREM RepairIsSound == RepairInit /\ [][RepairNext]_rp_vars => []RepairSound
<1>1. RpInv => RepairSound
  BY DEF RpInv
<1>2. QED
  BY <1>1, RpInit, RpInductive, PTL

-----------------------------------------------------------------------------
(* Arena *)

PieceType == [block : Nat, at : Nat, size : Nat, aligned : BOOLEAN]

ArenaTypeOK ==
    /\ ar_blocks \in Seq(Nat) /\ ar_pieces \in Seq(PieceType)
    /\ ar_block \in 0 .. Len(ar_blocks)
    /\ ar_ptr \in Nat /\ ar_remaining \in Nat

\* What is left of the current block lies behind alloc_ptr_ and inside the block;
\* without a block nothing is left.
RestInv ==
    IF ar_block = 0 THEN ar_remaining = 0
    ELSE ar_ptr + ar_remaining <= ar_blocks[ar_block]

\* The pieces of the current block are before alloc_ptr_.
BehindInv ==
    \A i \in DOMAIN ar_pieces :
        ar_pieces[i].block = ar_block => ar_pieces[i].at + ar_pieces[i].size <= ar_ptr

ArenaInv == ArenaTypeOK /\ RestInv /\ BehindInv /\ PiecesDisjoint

\* An allocation adds a piece; when it is behind all others of its block and inside the
\* block, the pieces stay disjoint.
LEMMA PieceAdded ==
    ASSUME ArenaInv, NEW p \in PieceType, ar_pieces' = Append(ar_pieces, p),
           p.aligned => p.at % Align = 0,
           \A i \in DOMAIN ar_pieces :
               ar_pieces[i].block = p.block => ar_pieces[i].at + ar_pieces[i].size <= p.at,
           ar_blocks' \in Seq(Nat), Len(ar_blocks) <= Len(ar_blocks'),
           \A b \in DOMAIN ar_blocks : ar_blocks'[b] = ar_blocks[b],
           p.block \in DOMAIN ar_blocks', p.at + p.size <= ar_blocks'[p.block]
    PROVE  /\ ar_pieces' \in Seq(PieceType)
           /\ PiecesDisjoint'
           /\ DOMAIN ar_pieces' = DOMAIN ar_pieces \cup {Len(ar_pieces) + 1}
           /\ \A i \in DOMAIN ar_pieces : ar_pieces'[i] = ar_pieces[i]
           /\ ar_pieces'[Len(ar_pieces) + 1] = p
<1> DEFINE n == Len(ar_pieces) + 1
<1>1. /\ ar_pieces' \in Seq(PieceType)
      /\ DOMAIN ar_pieces' = DOMAIN ar_pieces \cup {n}
      /\ ar_pieces'[n] = p
      /\ \A i \in DOMAIN ar_pieces : ar_pieces'[i] = ar_pieces[i] /\ ar_pieces[i] \in PieceType
  BY DEF ArenaInv, ArenaTypeOK
<1> HIDE DEF n
<1>2. ASSUME NEW i \in DOMAIN ar_pieces', NEW j \in DOMAIN ar_pieces',
             i # j, ar_pieces'[i].block = ar_pieces'[j].block
      PROVE  \/ ar_pieces'[i].at + ar_pieces'[i].size <= ar_pieces'[j].at
             \/ ar_pieces'[j].at + ar_pieces'[j].size <= ar_pieces'[i].at
  <2>1. CASE i # n /\ j # n
    BY <1>1, <1>2, <2>1 DEF ArenaInv, PiecesDisjoint
  <2>2. CASE i = n \/ j = n
    BY <1>1, <1>2, <2>2
  <2>3. QED
    BY <2>1, <2>2
<1>3. ASSUME NEW i \in DOMAIN ar_pieces'
      PROVE  /\ ar_pieces'[i].block \in DOMAIN ar_blocks'
             /\ ar_pieces'[i].at + ar_pieces'[i].size <= ar_blocks'[ar_pieces'[i].block]
             /\ ar_pieces'[i].aligned => ar_pieces'[i].at % Align = 0
  <2>1. CASE i = n
    BY <1>1, <2>1
  <2>2. CASE i # n
    <3>1. i \in DOMAIN ar_pieces /\ ar_pieces'[i] = ar_pieces[i]
      BY <1>1, <2>2
    <3>2. /\ ar_pieces[i].block \in DOMAIN ar_blocks
          /\ ar_pieces[i].at + ar_pieces[i].size <= ar_blocks[ar_pieces[i].block]
          /\ ar_pieces[i].aligned => ar_pieces[i].at % Align = 0
      BY <3>1 DEF ArenaInv, PiecesDisjoint
    <3>3. DOMAIN ar_blocks \subseteq DOMAIN ar_blocks'
      BY DEF ArenaInv, ArenaTypeOK
    <3>4. QED
      BY <3>1, <3>2, <3>3
  <2>3. QED
    BY <2>1, <2>2
<1>4. PiecesDisjoint'
  BY <1>2, <1>3 DEF PiecesDisjoint
<1>5. QED
  BY <1>1, <1>4 DEF n

\* The piece is cut from the current block.
LEMMA HereStep ==
    ASSUME ArenaInv, NEW bytes \in Nat \ {0}, NEW slop \in Nat, NEW aligned \in BOOLEAN,
           bytes + slop <= ar_remaining, aligned => (ar_ptr + slop) % Align = 0,
           AllocateHere(bytes, slop, aligned)
    PROVE  ArenaInv'
<1>1. ar_block # 0 /\ ar_block \in DOMAIN ar_blocks /\ ar_ptr + ar_remaining <= ar_blocks[ar_block]
  BY DEF ArenaInv, RestInv, ArenaTypeOK
<1>2. ar_blocks[ar_block] \in Nat
  BY <1>1 DEF ArenaInv, ArenaTypeOK
<1>3. ar_blocks' = ar_blocks /\ ar_block' = ar_block
  BY DEF AllocateHere
<1>4. \A i \in DOMAIN ar_pieces : ar_pieces[i] \in PieceType
  BY DEF ArenaInv, ArenaTypeOK
<1> DEFINE p == [block |-> ar_block, at |-> ar_ptr + slop, size |-> bytes, aligned |-> aligned]
<1>5. /\ p \in PieceType /\ p.block = ar_block /\ p.at = ar_ptr + slop /\ p.size = bytes
      /\ p.aligned => p.at % Align = 0
      /\ ar_pieces' = Append(ar_pieces, p)
  BY DEF PieceType, ArenaInv, ArenaTypeOK, AllocateHere, Piece
<1> HIDE DEF p
<1>10. /\ ar_pieces' \in Seq(PieceType) /\ PiecesDisjoint'
      /\ DOMAIN ar_pieces' = DOMAIN ar_pieces \cup {Len(ar_pieces) + 1}
      /\ \A i \in DOMAIN ar_pieces : ar_pieces'[i] = ar_pieces[i]
      /\ ar_pieces'[Len(ar_pieces) + 1] = p
  <2>1. \A i \in DOMAIN ar_pieces : ar_pieces[i].block = ar_block
            => ar_pieces[i].at + ar_pieces[i].size <= ar_ptr + slop
    BY <1>4, SMTT(30) DEF ArenaInv, ArenaTypeOK, BehindInv, PieceType
  <2>2. /\ ar_blocks \in Seq(Nat) /\ Len(ar_blocks) <= Len(ar_blocks)
        /\ ar_ptr + slop + bytes <= ar_blocks[ar_block]
    BY <1>1, <1>2 DEF ArenaInv, ArenaTypeOK
  <2>3. QED
    BY <1>1, <1>3, <1>5, <2>1, <2>2, PieceAdded
<1>6. ar_ptr' = ar_ptr + slop + bytes /\ ar_remaining' = ar_remaining - (slop + bytes)
  BY DEF AllocateHere
<1>7. ArenaTypeOK' /\ RestInv'
  <2>1. ar_blocks \in Seq(Nat) /\ ar_block \in 0 .. Len(ar_blocks) /\ ar_ptr \in Nat /\ ar_remaining \in Nat
    BY DEF ArenaInv, ArenaTypeOK
  <2>2. ar_ptr' \in Nat /\ ar_remaining' \in Nat
    BY <1>6, <2>1
  <2>3. ar_ptr' + ar_remaining' <= ar_blocks[ar_block]
    BY <1>1, <1>2, <1>6, <2>1
  <2>4. ArenaTypeOK'
    BY <1>3, <1>10, <2>1, <2>2 DEF ArenaTypeOK
  <2>5. RestInv'
    BY <1>1, <1>3, <2>3 DEF RestInv
  <2>6. QED
    BY <2>4, <2>5
<1>8. BehindInv'
  <2>1. ASSUME NEW i \in DOMAIN ar_pieces', ar_pieces'[i].block = ar_block
        PROVE  ar_pieces'[i].at + ar_pieces'[i].size <= ar_ptr + slop + bytes
    <3>1. CASE i \in DOMAIN ar_pieces
      <4>1. ar_pieces[i].at + ar_pieces[i].size <= ar_ptr /\ ar_pieces[i] \in PieceType
        BY <1>4, <1>10, <2>1, <3>1 DEF ArenaInv, BehindInv
      <4>2. QED
        BY <1>10, <3>1, <4>1 DEF ArenaInv, ArenaTypeOK, PieceType
    <3>2. CASE i = Len(ar_pieces) + 1
      BY <1>5, <1>10, <3>2 DEF ArenaInv, ArenaTypeOK
    <3>3. QED
      BY <1>10, <3>1, <3>2
  <2>2. QED
    BY <1>3, <1>6, <2>1 DEF BehindInv
<1>11. QED
  BY <1>10, <1>7, <1>8 DEF ArenaInv

\* The piece gets a new block, of its own or the new current one.
LEMMA FallbackStep ==
    ASSUME ArenaInv, NEW bytes \in Nat \ {0}, NEW aligned \in BOOLEAN, AllocateFallback(bytes, aligned)
    PROVE  ArenaInv'
<1> DEFINE new == Len(ar_blocks) + 1
           own == bytes > ArenaBlock \div 4
           size == IF own THEN bytes ELSE ArenaBlock
<1>1. size \in Nat /\ bytes <= size /\ ArenaBlock \in Nat
  BY ArenaAssumption
<1>2. /\ ar_blocks' = Append(ar_blocks, size)
      /\ Piece(new, 0, bytes, aligned)
      /\ \/ own /\ ar_block' = ar_block /\ ar_ptr' = ar_ptr /\ ar_remaining' = ar_remaining
         \/ ~own /\ ar_block' = new /\ ar_ptr' = bytes /\ ar_remaining' = ArenaBlock - bytes
  BY DEF AllocateFallback
<1>3. /\ ar_blocks' \in Seq(Nat) /\ Len(ar_blocks') = new /\ new \in DOMAIN ar_blocks'
      /\ ar_blocks'[new] = size
      /\ \A b \in DOMAIN ar_blocks : ar_blocks'[b] = ar_blocks[b]
      /\ Len(ar_blocks) \in Nat /\ DOMAIN ar_blocks = 1 .. Len(ar_blocks)
  BY <1>1, <1>2 DEF ArenaInv, ArenaTypeOK
<1> HIDE DEF size
<1>4. \A i \in DOMAIN ar_pieces : ar_pieces[i] \in PieceType /\ ar_pieces[i].block # new
  BY <1>3 DEF ArenaInv, ArenaTypeOK, PiecesDisjoint
<1> DEFINE p == [block |-> new, at |-> 0, size |-> bytes, aligned |-> aligned]
<1>5. /\ p \in PieceType /\ p.block = new /\ p.at = 0 /\ p.size = bytes
      /\ p.aligned => p.at % Align = 0
      /\ ar_pieces' = Append(ar_pieces, p)
  BY <1>2, <1>3, ArenaAssumption DEF PieceType, Piece
<1> HIDE DEF p
<1>10. /\ ar_pieces' \in Seq(PieceType) /\ PiecesDisjoint'
      /\ DOMAIN ar_pieces' = DOMAIN ar_pieces \cup {Len(ar_pieces) + 1}
      /\ \A i \in DOMAIN ar_pieces : ar_pieces'[i] = ar_pieces[i]
      /\ ar_pieces'[Len(ar_pieces) + 1] = p
  <2>1. Len(ar_blocks) <= Len(ar_blocks') /\ 0 + bytes <= ar_blocks'[new]
    BY <1>1, <1>3
  <2>2. QED
    BY <1>3, <1>4, <1>5, <2>1, PieceAdded
<1>6. ArenaTypeOK'
  BY <1>1, <1>2, <1>3, <1>10 DEF ArenaInv, ArenaTypeOK, size
<1>7. RestInv'
  BY <1>1, <1>2, <1>3 DEF ArenaInv, ArenaTypeOK, RestInv, size
<1>8. BehindInv'
  <2>1. ASSUME NEW i \in DOMAIN ar_pieces', ar_pieces'[i].block = ar_block'
        PROVE  ar_pieces'[i].at + ar_pieces'[i].size <= ar_ptr'
    <3>1. CASE i \in DOMAIN ar_pieces
      BY <1>2, <1>4, <1>10, <2>1, <3>1 DEF ArenaInv, BehindInv
    <3>2. CASE i = Len(ar_pieces) + 1
      BY <1>2, <1>3, <1>5, <1>10, <2>1, <3>2 DEF ArenaInv, ArenaTypeOK
    <3>3. QED
      BY <1>10, <3>1, <3>2
  <2>2. QED
    BY <2>1 DEF BehindInv
<1>11. QED
  BY <1>10, <1>6, <1>7, <1>8 DEF ArenaInv

\* Both kinds of allocation keep ArenaInv.
LEMMA ArenaStep == ArenaInv /\ [ArenaNext]_ar_vars => ArenaInv'
<1> SUFFICES ASSUME ArenaInv, [ArenaNext]_ar_vars
             PROVE  ArenaInv'
  OBVIOUS
<1>1. ASSUME NEW bytes \in PieceSizes, Allocate(bytes)
      PROVE  ArenaInv'
  <2>1. bytes \in Nat \ {0} /\ bytes + 0 = bytes /\ 0 \in Nat
    BY ArenaAssumption
  <2>2. CASE bytes <= ar_remaining /\ AllocateHere(bytes, 0, FALSE)
    BY <2>1, <2>2, HereStep
  <2>3. CASE AllocateFallback(bytes, FALSE)
    BY <2>1, <2>3, FallbackStep
  <2>4. QED
    BY <1>1, <2>2, <2>3 DEF Allocate
<1>2. ASSUME NEW bytes \in PieceSizes, AllocateAligned(bytes)
      PROVE  ArenaInv'
  <2> DEFINE slop == IF ar_ptr % Align = 0 THEN 0 ELSE Align - (ar_ptr % Align)
  <2>1. bytes \in Nat \ {0} /\ ar_ptr \in Nat /\ Align \in Nat \ {0}
    BY ArenaAssumption DEF ArenaInv, ArenaTypeOK
  <2>2. slop \in Nat /\ (ar_ptr + slop) % Align = 0
    <3>1. CASE ar_ptr % Align = 0
      BY <2>1, <3>1
    <3>2. CASE ar_ptr % Align # 0
      BY <2>1, <3>2, DivMod, RoundUp
    <3>3. QED
      BY <3>1, <3>2
  <2>3. \/ bytes + slop <= ar_remaining /\ AllocateHere(bytes, slop, TRUE)
        \/ AllocateFallback(bytes, TRUE)
    BY <1>2 DEF AllocateAligned
  <2> HIDE DEF slop
  <2>4. QED
    BY <2>1, <2>2, <2>3, HereStep, FallbackStep
<1>3. CASE UNCHANGED ar_vars
  BY <1>3 DEF ar_vars, ArenaInv, ArenaTypeOK, RestInv, BehindInv, PiecesDisjoint
<1>4. QED
  BY <1>1, <1>2, <1>3 DEF ArenaNext

\* The arena never hands out a byte twice, a byte outside its block or a misaligned node.
THEOREM ArenaPiecesDisjoint == ArenaSpec => []PiecesDisjoint
<1>1. ArenaInit => ArenaInv
  BY DEF ArenaInit, ArenaInv, ArenaTypeOK, RestInv, BehindInv, PiecesDisjoint
<1>2. ArenaInv => PiecesDisjoint
  BY DEF ArenaInv
<1>3. QED
  BY <1>1, <1>2, ArenaStep, PTL DEF ArenaSpec

-----------------------------------------------------------------------------
(* The skip list.                                                          *)

\* The entries that exist: the one being inserted is the newest.
Top == IF sl_insert.busy THEN sl_seq + 1 ELSE sl_seq

InsertType == [busy : BOOLEAN, x : Int, height : Nat, level : Nat, prev : [ListLevels -> Nat]]
ReaderType == [op : {"none", "get", "prev", "last", "next"}, target : Nat \X Nat, x : Nat,
               level : ListLevels, seen : SUBSET Nat, done : BOOLEAN, node : Int, reads : Nat]

ListTypeOK ==
    /\ sl_seq \in Nat /\ sl_key \in [1 .. Top -> UserKeys]
    /\ sl_next \in [0 .. Top -> [ListLevels -> (1 .. Top) \cup {NullNode, UnsetLink}]]
    /\ sl_height \in 1 .. kMaxHeight
    /\ sl_insert \in InsertType /\ sl_reader \in [MemReaders -> ReaderType]

\* The order of a level: the head, the entries by internal key, the null link.
Prec(a, b) ==
    \/ a = ListHead /\ b # ListHead
    \/ b = NullNode /\ a # NullNode
    \/ a \in Nodes /\ b \in Nodes /\ Before(a, KeyOf(b))

OnLevel(l) == Linked(l) \cup {ListHead}

\* Each level is a chain in order: a link leads to the next entry of the level, and only
\* entries that are not on the level have no link there.
ChainInv ==
    \A l \in ListLevels :
        /\ \A m \in OnLevel(l) : /\ sl_next[m][l] # UnsetLink
                                 /\ Prec(m, sl_next[m][l])
                                 /\ \A n \in Linked(l) : ~(Prec(m, n) /\ Prec(n, sl_next[m][l]))
        /\ \A m \in Nodes \ Linked(l) : sl_next[m][l] = UnsetLink

\* The levels are nested, the ones above max_height_ are empty, and every entry whose
\* Insert has returned is on the lowest.
NestInv ==
    /\ \A l \in ListLevels \ {0} : Linked(l) \subseteq Linked(l - 1)
    /\ \A l \in ListLevels : l >= sl_height => Linked(l) = {}
    /\ 1 .. sl_seq \subseteq Linked(0)

\* The node being inserted is linked at the levels below its own; at the others its place
\* is still the one that FindGreaterOrEqual found.
InsertInv ==
    sl_insert.busy =>
        /\ sl_insert.x = sl_seq + 1
        /\ sl_insert.height \in 1 .. sl_height /\ sl_insert.level \in 0 .. sl_insert.height - 1
        /\ \A l \in ListLevels : sl_insert.x \in Linked(l) <=> l < sl_insert.level
        /\ \A l \in sl_insert.level .. sl_insert.height - 1 :
              /\ sl_insert.prev[l] \in OnLevel(l)
              /\ Prec(sl_insert.prev[l], sl_insert.x)
              /\ Prec(sl_insert.x, sl_next[sl_insert.prev[l]][l])

\* A search is at a node of its level that is before its target, and what it returned is
\* right for the entries that were there when it began.
SearchInv(q) ==
    /\ q.x \in OnLevel(q.level) /\ q.node \in Linked(0) \cup {NullNode}
    /\ \E s \in 0 .. sl_seq : q.seen = 1 .. s /\ (q.op = "get" => q.target[2] <= s)
    /\ q.op \in {"get", "prev"} => q.x = ListHead \/ Before(q.x, q.target)
    /\ q.op = "none" => ~q.done
    /\ q.op = "next" => q.done
    /\ q.op = "get" /\ q.done =>
          /\ q.node = NullNode \/ ~Before(q.node, q.target)
          /\ \A n \in q.seen : ~Before(n, q.target) => n = q.node \/ Prec(q.node, n)
    /\ q.op = "prev" /\ q.done =>
          /\ q.node = NullNode \/ Before(q.node, q.target)
          /\ \A n \in q.seen : Before(n, q.target) => q.node # NullNode /\ ~Prec(q.node, n)
    /\ q.op = "last" /\ q.done => \A n \in q.seen : q.node # NullNode /\ ~Prec(q.node, n)
    /\ q.op = "next" /\ q.done => \A n \in q.seen : ~(Prec(q.x, n) /\ Prec(n, q.node))

ReaderInv == \A r \in MemReaders : SearchInv(sl_reader[r])

ListInv == ListTypeOK /\ ChainInv /\ NestInv /\ InsertInv /\ ReaderInv

\* Prec is a strict total order, which searches for an internal key respect.
LEMMA PrecOrder ==
    ASSUME ListTypeOK
    PROVE  /\ Nodes = 1 .. Top /\ Top \in Nat
           /\ \A a \in -1 .. Top : ~Prec(a, a)
           /\ \A a, b \in -1 .. Top : a # b => Prec(a, b) \/ Prec(b, a)
           /\ \A a, b, c \in -1 .. Top : Prec(a, b) /\ Prec(b, c) => Prec(a, c)
           /\ \A a, b \in 1 .. Top : Prec(a, b) <=> Before(a, KeyOf(b))
           /\ \A a, b \in 1 .. Top, k \in Nat \X Nat :
                 Prec(a, b) /\ Before(b, k) => Before(a, k)
<1>1. Nodes = 1 .. Top /\ Top \in Nat
  BY DEF ListTypeOK, Nodes, Top
<1>2. \A a \in 1 .. Top : sl_key[a] \in Nat
  BY MemTableAssumption DEF ListTypeOK
<1>3. \A a \in 1 .. Top, k \in Nat \X Nat :
          Before(a, k) <=> sl_key[a] < k[1] \/ (sl_key[a] = k[1] /\ a > k[2])
  BY DEF Before
<1>4. \A a, b \in 1 .. Top :
          Before(a, KeyOf(b)) <=> sl_key[a] < sl_key[b] \/ (sl_key[a] = sl_key[b] /\ a > b)
  BY DEF Before, KeyOf
<1>5. \A a, b \in -1 .. Top :
          Prec(a, b) <=> \/ a = 0 /\ b # 0
                         \/ b = -1 /\ a # -1
                         \/ a > 0 /\ b > 0 /\ (sl_key[a] < sl_key[b] \/ (sl_key[a] = sl_key[b] /\ a > b))
  BY <1>1, <1>4 DEF Prec, ListHead, NullNode
<1> DEFINE t == Top
           f(n) == sl_key[n]
<1>6. \A a \in -1 .. t : ~Prec(a, a)
  BY <1>1, <1>2, <1>5
<1>7. \A a, b \in -1 .. t : a # b => Prec(a, b) \/ Prec(b, a)
  BY <1>1, <1>2, <1>5
<1>8. ASSUME NEW a \in -1 .. Top, NEW b \in -1 .. Top, NEW c \in -1 .. Top, Prec(a, b), Prec(b, c)
      PROVE  Prec(a, c)
  BY <1>1, <1>2, <1>5, <1>8
<1>9. \A a, b \in 1 .. t : Prec(a, b) <=> Before(a, KeyOf(b))
  BY <1>1, <1>4, <1>5
<1>10. ASSUME NEW a \in 1 .. Top, NEW b \in 1 .. Top, NEW k \in Nat \X Nat, Prec(a, b), Before(b, k)
       PROVE  Before(a, k)
  BY <1>1, <1>2, <1>3, <1>5, <1>10
<1>11. QED
  BY <1>1, <1>6, <1>7, <1>8, <1>9, <1>10

\* Among the entries before a key there is a last one, so PrevNode's choice is defined.
LEMMA LastBefore ==
    ASSUME ListTypeOK, NEW k \in Nat \X Nat, NEW S \in SUBSET (1 .. Top), S # {},
           \A n \in S : Before(n, k)
    PROVE  \E n \in S : \A m \in S : m = n \/ Before(m, KeyOf(n))
<1>0. Top \in Nat
  BY PrecOrder
<1>1. Top \in Nat /\ \A a \in 1 .. Top : sl_key[a] \in Nat
  BY <1>0, MemTableAssumption DEF ListTypeOK
<1>1b. \A i \in S : i \in Nat
  BY <1>0
<1> DEFINE K == {sl_key[a] : a \in S}
<1>2. K \in SUBSET Nat /\ K # {}
  BY <1>1
<1>3. \A x \in K : x <= k[1]
  BY <1>1 DEF Before
<1>4. PICK x \in K : \A y \in K : y <= x
  BY <1>2, <1>3, GreatestNat
<1> DEFINE T == {a \in S : sl_key[a] = x}
<1>5. T \in SUBSET Nat /\ T # {}
  <2>1. PICK a \in S : x = sl_key[a]
    BY <1>4
  <2>2. a \in T
    BY <2>1
  <2>3. \A i \in T : i \in Nat
    BY <1>1b
  <2>4. QED
    BY <2>2, <2>3
<1>6. PICK n \in T : \A y \in T : n <= y
  BY <1>5, LeastNat
<1>7. ASSUME NEW m \in S, m # n
      PROVE  Before(m, KeyOf(n))
  <2>1. sl_key[m] \in K /\ sl_key[n] = x /\ m \in 1 .. Top /\ n \in 1 .. Top
    BY <1>6
  <2>2. sl_key[m] <= x
    BY <1>4, <2>1
  <2>3. CASE sl_key[m] = x
    <3>1. m \in T
      BY <2>3
    <3>2. n <= m
      BY <1>6, <3>1
    <3>3. QED
      BY <1>1, <1>7, <2>1, <2>3, <3>2 DEF Before, KeyOf
  <2>4. CASE sl_key[m] # x
    BY <1>1, <2>1, <2>2, <2>4 DEF Before, KeyOf
  <2>5. QED
    BY <2>3, <2>4
<1>8. QED
  BY <1>6, <1>7

\* What the invariant says of the links, without the definitions of its parts.
LEMMA LinkFacts ==
    ASSUME ListTypeOK, NEW l \in ListLevels
    PROVE  /\ Linked(l) \subseteq 1 .. Top
           /\ OnLevel(l) \subseteq 0 .. Top
           /\ \A m \in 0 .. Top : sl_next[m][l] \in 1 .. Top => sl_next[m][l] \in Linked(l)
           /\ \A m \in 0 .. Top : sl_next[m][l] \in (1 .. Top) \cup {NullNode, UnsetLink}
BY DEF ListTypeOK, Linked, OnLevel, Nodes, Top, ListHead

\* The invariant says what the run checks.
LEMMA ListInvImplies == ListInv => ListReadsExact
<1> SUFFICES ASSUME ListInv
             PROVE  ListReadsExact
  OBVIOUS
<1> USE DEF ListInv
<1>1. NoUnsetLink
  <2> SUFFICES ASSUME NEW r \in MemReaders, sl_reader[r].op # "none"
               PROVE  /\ sl_next[sl_reader[r].x][sl_reader[r].level] # UnsetLink
                      /\ sl_reader[r].node # UnsetLink
    BY DEF NoUnsetLink
  <2>1. SearchInv(sl_reader[r]) /\ sl_reader[r] \in ReaderType
    BY DEF ReaderInv, ListTypeOK
  <2>2. sl_reader[r].level \in ListLevels /\ sl_reader[r].x \in OnLevel(sl_reader[r].level)
    BY <2>1 DEF SearchInv, ReaderType
  <2>3. sl_next[sl_reader[r].x][sl_reader[r].level] # UnsetLink
    BY <2>2 DEF ChainInv
  <2>4. 0 \in ListLevels
    BY MemTableAssumption DEF ListLevels
  <2>5. Linked(0) \subseteq 1 .. Top
    BY <2>4, LinkFacts
  <2>6. sl_reader[r].node # UnsetLink
    BY <2>1, <2>5 DEF SearchInv, UnsetLink, NullNode
  <2>7. QED
    BY <2>3, <2>6
<1>2. LevelsNested
  <2>1. ASSUME NEW l \in ListLevels, NEW n \in Nodes, sl_next[n][l] \in Nodes
        PROVE  Before(n, KeyOf(sl_next[n][l]))
    <3>1. n \in 1 .. Top /\ sl_next[n][l] \in 1 .. Top /\ Top \in Nat
      BY <2>1, PrecOrder
    <3>2. n \in Linked(l)
      BY <2>1, <3>1 DEF ChainInv, UnsetLink
    <3>3. Prec(n, sl_next[n][l])
      BY <3>2 DEF ChainInv, OnLevel
    <3>4. QED
      BY <3>1, <3>3, PrecOrder
  <2>2. QED
    BY <2>1 DEF LevelsNested, NestInv
<1>3. ASSUME NEW r \in MemReaders
      PROVE  /\ sl_reader[r].seen \subseteq 1 .. Top
             /\ sl_reader[r].node \in 1 .. Top \/ sl_reader[r].node = NullNode
             /\ sl_reader[r].x \in 0 .. Top
             /\ sl_reader[r] \in ReaderType /\ SearchInv(sl_reader[r])
  <2>1. SearchInv(sl_reader[r]) /\ sl_reader[r] \in ReaderType
    BY DEF ReaderInv, ListTypeOK
  <2>2. 0 \in ListLevels
    BY MemTableAssumption DEF ListLevels
  <2>3. Linked(0) \subseteq 1 .. Top
    BY <2>2, LinkFacts
  <2>4. sl_reader[r].seen \subseteq 1 .. Top
    BY <2>1 DEF SearchInv, Top, ListTypeOK
  <2>5. sl_reader[r].level \in ListLevels /\ sl_reader[r].x \in OnLevel(sl_reader[r].level)
    BY <2>1 DEF SearchInv, ReaderType
  <2>6. OnLevel(sl_reader[r].level) \subseteq 0 .. Top
    BY <2>5, LinkFacts
  <2>7. QED
    BY <2>1, <2>3, <2>4, <2>5, <2>6 DEF SearchInv
<1>4. GetIsExact
  <2> SUFFICES ASSUME NEW r \in MemReaders, sl_reader[r].op = "get", sl_reader[r].done
               PROVE  LET q == sl_reader[r]
                          old == {n \in q.seen : sl_key[n] = q.target[1] /\ n <= q.target[2]}
                      IN IF old = {} THEN q.node = NullNode \/ sl_key[q.node] # q.target[1]
                         ELSE q.node \in old /\ \A n \in old : n <= q.node
    BY DEF GetIsExact
  <2> DEFINE q == sl_reader[r]
             old == {n \in q.seen : sl_key[n] = q.target[1] /\ n <= q.target[2]}
  <2>1. \A a \in 1 .. Top : sl_key[a] \in Nat
    BY MemTableAssumption DEF ListTypeOK
  <2>2. PICK s \in 0 .. sl_seq : q.seen = 1 .. s /\ q.target[2] <= s
    BY <1>3 DEF SearchInv
  <2>3. q.target[1] \in Nat /\ q.target[2] \in Nat /\ sl_seq \in Nat /\ Top \in Nat
    BY <1>3, PrecOrder DEF ReaderType, ListTypeOK
  <2>4. \A n \in 1 .. Top :
            Before(n, q.target) <=> \/ sl_key[n] < q.target[1]
                                    \/ sl_key[n] = q.target[1] /\ n > q.target[2]
    BY DEF Before
  <2>5. /\ q.node = NullNode \/ ~Before(q.node, q.target)
        /\ \A n \in q.seen : ~Before(n, q.target) => n = q.node \/ Prec(q.node, n)
    BY <1>3 DEF SearchInv
  <2>6. q.seen \subseteq 1 .. Top /\ (q.node \in 1 .. Top \/ q.node = NullNode)
    BY <1>3
  <2>6b. \A n \in 1 .. Top : ~Prec(NullNode, n)
    BY <2>3, PrecOrder DEF Prec, NullNode, ListHead
  <2>7. ASSUME NEW n \in old
        PROVE  q.node \in old /\ n <= q.node
    <3>1. n \in 1 .. Top /\ ~Before(n, q.target)
      BY <2>1, <2>3, <2>4, <2>6
    <3>2. n = q.node \/ (q.node \in 1 .. Top /\ Prec(q.node, n))
      BY <2>5, <2>6, <2>6b, <3>1
    <3>3. CASE n = q.node
      <4>1. q.node \in old
        BY <3>3
      <4>2. n <= q.node
        BY <3>1, <3>3, <2>3
      <4>3. QED
        BY <4>1, <4>2
    <3>4. CASE q.node \in 1 .. Top /\ Prec(q.node, n)
      <4>1. sl_key[q.node] < sl_key[n] \/ (sl_key[q.node] = sl_key[n] /\ q.node > n)
        BY <3>1, <3>4, PrecOrder DEF Before, KeyOf
      <4>2. ~Before(q.node, q.target)
        BY <2>5, <3>4 DEF NullNode
      <4>3. sl_key[q.node] = q.target[1] /\ q.node <= q.target[2] /\ q.node > n
        BY <2>1, <2>3, <2>4, <3>1, <3>4, <4>1, <4>2
      <4>4. q.node \in q.seen
        BY <2>2, <2>3, <3>4, <4>3
      <4>5. QED
        <5>1. q.node \in old
          BY <4>3, <4>4
        <5>2. n <= q.node
          BY <4>3, <3>1, <3>4, <2>3
        <5>3. QED
          BY <5>1, <5>2
    <3>5. QED
      BY <3>2, <3>3, <3>4
  <2>8. ASSUME old = {}, q.node # NullNode, sl_key[q.node] = q.target[1]
        PROVE  FALSE
    <3>1. q.node \in 1 .. Top /\ ~Before(q.node, q.target)
      BY <2>5, <2>6, <2>8
    <3>2. q.node <= q.target[2]
      BY <2>3, <2>4, <2>8, <3>1
    <3>3. q.node \in q.seen
      BY <2>2, <2>3, <3>1, <3>2
    <3>4. QED
      BY <2>8, <3>2, <3>3
  <2>9. QED
    BY <2>7, <2>8
<1>5. NothingSkipped
  <2> SUFFICES ASSUME NEW r \in MemReaders, sl_reader[r].done, NEW n \in sl_reader[r].seen
               PROVE  LET q == sl_reader[r] IN
            CASE q.op = "prev" -> /\ q.node # NullNode => Before(q.node, q.target)
                                  /\ ~(Before(n, q.target)
                                       /\ (q.node = NullNode \/ Before(q.node, KeyOf(n))))
              [] q.op = "last" -> q.node # NullNode /\ ~Before(q.node, KeyOf(n))
              [] q.op = "next" -> ~((q.x = ListHead \/ Before(q.x, KeyOf(n)))
                                    /\ (q.node = NullNode \/ Before(n, KeyOf(q.node))))
              [] OTHER -> TRUE
    BY DEF NothingSkipped
  <2> DEFINE q == sl_reader[r]
  <2>1. /\ n \in 1 .. Top /\ (q.node \in 1 .. Top \/ q.node = NullNode) /\ q.x \in 0 .. Top
        /\ SearchInv(q) /\ Top \in Nat
    BY <1>3, PrecOrder
  <2>2. CASE q.op = "prev"
    <3>1. /\ q.node = NullNode \/ Before(q.node, q.target)
          /\ Before(n, q.target) => q.node # NullNode /\ ~Prec(q.node, n)
      BY <2>1, <2>2 DEF SearchInv
    <3>2. q.node # NullNode => (Prec(q.node, n) <=> Before(q.node, KeyOf(n)))
      BY <2>1, PrecOrder
    <3>3. QED
      BY <2>2, <3>1, <3>2
  <2>3. CASE q.op = "last"
    <3>1. q.node # NullNode /\ ~Prec(q.node, n)
      BY <2>1, <2>3 DEF SearchInv
    <3>2. Prec(q.node, n) <=> Before(q.node, KeyOf(n))
      BY <2>1, <3>1, PrecOrder
    <3>3. QED
      BY <2>3, <3>1, <3>2
  <2>4. CASE q.op = "next"
    <3>1. ~(Prec(q.x, n) /\ Prec(n, q.node))
      BY <2>1, <2>4 DEF SearchInv
    <3>2. q.x = ListHead \/ Before(q.x, KeyOf(n)) => Prec(q.x, n)
      <4>1. CASE q.x = ListHead
        BY <4>1, <2>1 DEF Prec, ListHead
      <4>2. CASE q.x # ListHead
        BY <4>2, <2>1, PrecOrder DEF ListHead
      <4>3. QED
        BY <4>1, <4>2
    <3>3. q.node = NullNode \/ Before(n, KeyOf(q.node)) => Prec(n, q.node)
      <4>1. CASE q.node = NullNode
        BY <4>1, <2>1 DEF Prec, NullNode
      <4>2. CASE q.node # NullNode
        BY <4>2, <2>1, PrecOrder
      <4>3. QED
        BY <4>1, <4>2
    <3>4. QED
      BY <2>4, <3>1, <3>2, <3>3
  <2>5. QED
    BY <2>2, <2>3, <2>4
<1>6. QED
  BY <1>1, <1>2, <1>4, <1>5 DEF ListReadsExact

\* The empty list.
LEMMA ListInitInv == MemTableInit => ListInv
<1> SUFFICES ASSUME MemTableInit
             PROVE  ListInv
  OBVIOUS
<1>1. ListTypeOK
  <2>1. sl_insert \in InsertType
    BY DEF MemTableInit, InsertType, NullNode, ListHead
  <2>2. sl_reader \in [MemReaders -> ReaderType]
    <3>1. Idling \in ReaderType
      BY MemTableAssumption DEF Idling, ReaderType, ListLevels, ListHead, NullNode
    <3>2. QED
      BY <3>1 DEF MemTableInit
  <2>3. Top = 0
    BY DEF MemTableInit, Top
  <2>4. sl_height \in 1 .. kMaxHeight
    BY MemTableAssumption DEF MemTableInit
  <2>5. sl_key \in [1 .. Top -> UserKeys]
    BY <2>3 DEF MemTableInit
  <2>6. sl_next \in [0 .. Top -> [ListLevels -> (1 .. Top) \cup {NullNode, UnsetLink}]]
    BY <2>3 DEF MemTableInit, ListHead
  <2>7. QED
    BY <2>1, <2>2, <2>4, <2>5, <2>6 DEF ListTypeOK, MemTableInit
<1>2. \A l \in ListLevels : Linked(l) = {} /\ OnLevel(l) = {ListHead} /\ Nodes = {}
  BY DEF MemTableInit, Linked, OnLevel, Nodes
<1>3. \A l \in ListLevels : sl_next[ListHead][l] = NullNode
  BY DEF MemTableInit
<1>4. ChainInv
  BY <1>2, <1>3 DEF ChainInv, Prec, NullNode, UnsetLink, ListHead
<1>5. NestInv
  BY <1>2, MemTableAssumption DEF NestInv, MemTableInit, ListLevels
<1>6. InsertInv
  BY DEF InsertInv, MemTableInit
<1>7. ReaderInv
  <2>1. 0 \in ListLevels
    BY MemTableAssumption DEF ListLevels
  <2>2. \A r \in MemReaders : sl_reader[r] = Idling
    BY DEF MemTableInit
  <2>3. \E s \in 0 .. sl_seq : {} = 1 .. s
    BY DEF MemTableInit
  <2>4. SearchInv(Idling)
    BY <1>2, <2>1, <2>3 DEF SearchInv, Idling
  <2>5. QED
    BY <2>2, <2>4 DEF ReaderInv
<1>8. QED
  BY <1>1, <1>4, <1>5, <1>6, <1>7 DEF ListInv

\* A reader changes nothing but itself.
LEMMA ReaderFrame ==
    ASSUME ListInv, UNCHANGED <<sl_key, sl_next, sl_height, sl_insert, sl_seq>>,
           NEW r \in MemReaders, NEW q \in ReaderType, SearchInv(q),
           sl_reader' = [sl_reader EXCEPT ![r] = q]
    PROVE  ListInv'
<1>1. /\ Top' = Top /\ Nodes' = Nodes
      /\ \A l : Linked(l)' = Linked(l) /\ OnLevel(l)' = OnLevel(l)
      /\ \A a, b : Prec(a, b)' = Prec(a, b) /\ Before(a, b)' = Before(a, b)
  BY DEF Top, Nodes, Linked, OnLevel, Prec, Before, KeyOf
<1>2. ListTypeOK'
  BY <1>1 DEF ListInv, ListTypeOK
<1>3. ChainInv'
  BY <1>1 DEF ListInv, ChainInv
<1>4. NestInv'
  BY <1>1 DEF ListInv, NestInv
<1>5. InsertInv'
  BY <1>1 DEF ListInv, InsertInv
<1>6. ASSUME NEW p \in ReaderType, SearchInv(p)
      PROVE  SearchInv(p)'
  BY <1>1, <1>6 DEF SearchInv
<1>7. ReaderInv'
  <2> SUFFICES ASSUME NEW s \in MemReaders
               PROVE  SearchInv(sl_reader[s])'
    BY DEF ReaderInv
  <2>1. \E p \in ReaderType : SearchInv(p) /\ sl_reader'[s] = p
    BY DEF ListInv, ListTypeOK, ReaderInv
  <2>2. PICK p \in ReaderType : SearchInv(p) /\ sl_reader'[s] = p
    BY <2>1
  <2>3. SearchInv(p)'
    BY <1>6, <2>2
  <2>4. QED
    BY <2>2, <2>3 DEF SearchInv
<1>8. QED
  BY <1>2, <1>3, <1>4, <1>5, <1>7 DEF ListInv

\* Facts about one reader that every step of it starts from.
LEMMA ReaderFacts ==
    ASSUME ListInv, NEW r \in MemReaders
    PROVE  /\ sl_reader[r] \in ReaderType /\ SearchInv(sl_reader[r])
           /\ 0 \in ListLevels /\ Top \in Nat /\ sl_seq \in Nat
           /\ ListHead \in OnLevel(0)
           /\ sl_reader[r].x \in 0 .. Top
           /\ sl_reader[r].node \in Linked(0) \cup {NullNode}
           /\ Linked(0) \subseteq 1 .. Top /\ 1 .. sl_seq \subseteq Linked(0)
<1>1. 0 \in ListLevels
  BY MemTableAssumption DEF ListLevels
<1>2. sl_reader[r] \in ReaderType /\ SearchInv(sl_reader[r]) /\ ListTypeOK
  BY DEF ListInv, ListTypeOK, ReaderInv
<1>3. sl_reader[r].level \in ListLevels
  BY <1>2 DEF ReaderType
<1>4. OnLevel(sl_reader[r].level) \subseteq 0 .. Top /\ Linked(0) \subseteq 1 .. Top
  BY <1>1, <1>2, <1>3, LinkFacts
<1>5. QED
  BY <1>1, <1>2, <1>4, PrecOrder DEF SearchInv, OnLevel, ListInv, ListTypeOK, NestInv

\* A search begins at the head of a level, with a stale height or not.
LEMMA BeginStep ==
    ASSUME ListInv, NEW r \in MemReaders, NEW op \in {"get", "prev", "last"},
           NEW target \in Nat \X Nat, op = "get" => target[2] <= sl_seq,
           Begin(r, op, target)
    PROVE  ListInv'
<1>1. PICK height \in 1 .. sl_height :
          sl_reader' = [sl_reader EXCEPT ![r] =
              [sl_reader[r] EXCEPT !.op = op, !.target = target, !.x = ListHead,
                        !.level = height - 1, !.seen = 1 .. sl_seq, !.done = FALSE,
                        !.reads = @ + 1]]
  BY DEF Begin
<1> DEFINE q == [sl_reader[r] EXCEPT !.op = op, !.target = target, !.x = ListHead,
                        !.level = height - 1, !.seen = 1 .. sl_seq, !.done = FALSE,
                        !.reads = @ + 1]
<1>2. sl_reader' = [sl_reader EXCEPT ![r] = q]
  BY <1>1
<1>3. sl_reader[r] \in ReaderType /\ sl_seq \in Nat
  BY ReaderFacts
<1>4. height - 1 \in ListLevels
  BY <1>1, MemTableAssumption DEF ListInv, ListTypeOK, ListLevels
<1>5. q \in ReaderType
  <2>1. sl_reader[r].reads + 1 \in Nat /\ 1 .. sl_seq \in SUBSET Nat /\ ListHead \in Nat
    BY <1>3 DEF ReaderType, ListHead
  <2>2. QED
    BY <1>3, <1>4, <2>1 DEF ReaderType
<1>6. /\ q.op = op /\ q.target = target /\ q.x = ListHead /\ q.level = height - 1
      /\ q.seen = 1 .. sl_seq /\ q.done = FALSE /\ q.node = sl_reader[r].node
  BY <1>3 DEF ReaderType
<1> HIDE DEF q
<1>7. sl_reader[r].node \in Linked(0) \cup {NullNode}
  BY ReaderFacts
<1>8. ListHead \in OnLevel(height - 1)
  BY DEF OnLevel
<1>9. SearchInv(q)
  BY <1>3, <1>6, <1>7, <1>8 DEF SearchInv
<1>10. QED
  BY <1>2, <1>5, <1>9, ReaderFrame DEF Begin

\* Next and SeekToFirst load one link of the lowest level.
LEMMA StepLowestStep ==
    ASSUME ListInv, NEW r \in MemReaders, NEW from \in OnLevel(0), StepLowest(r, from)
    PROVE  ListInv'
<1> DEFINE q == [sl_reader[r] EXCEPT !.op = "next", !.x = from, !.level = 0, !.seen = 1 .. sl_seq,
                    !.done = TRUE, !.node = sl_next[from][0], !.reads = @ + 1]
<1>1. sl_reader' = [sl_reader EXCEPT ![r] = q]
  BY DEF StepLowest
<1>2. /\ sl_reader[r] \in ReaderType /\ 0 \in ListLevels /\ sl_seq \in Nat /\ Top \in Nat
      /\ 1 .. sl_seq \subseteq Linked(0) /\ ListTypeOK
  BY ReaderFacts DEF ListInv
<1>3. from \in 0 .. Top /\ sl_next[from][0] \in (1 .. Top) \cup {NullNode, UnsetLink}
  BY <1>2, LinkFacts
<1>4. sl_next[from][0] \in Linked(0) \cup {NullNode} /\ sl_next[from][0] \in Int
  <2>1. sl_next[from][0] # UnsetLink
    BY <1>2 DEF ListInv, ChainInv
  <2>2. QED
    BY <1>2, <1>3, <2>1, LinkFacts DEF NullNode
<1>5. q \in ReaderType
  <2>1. sl_reader[r].reads + 1 \in Nat /\ 1 .. sl_seq \in SUBSET Nat /\ from \in Nat
    BY <1>2, <1>3 DEF ReaderType
  <2>2. QED
    BY <1>2, <1>4, <2>1 DEF ReaderType
<1>6. /\ q.op = "next" /\ q.x = from /\ q.level = 0
      /\ q.seen = 1 .. sl_seq /\ q.done = TRUE /\ q.node = sl_next[from][0]
  BY <1>2 DEF ReaderType
<1> HIDE DEF q
<1>7. \A n \in q.seen : ~(Prec(q.x, n) /\ Prec(n, q.node))
  BY <1>2, <1>6 DEF ListInv, ChainInv
<1>8. SearchInv(q)
  BY <1>2, <1>4, <1>6, <1>7 DEF SearchInv
<1>9. QED
  BY <1>1, <1>5, <1>8, ReaderFrame DEF StepLowest

\* One turn of a search: on along the level, a level down, or the answer.
LEMMA SearchStep ==
    ASSUME ListInv, NEW r \in MemReaders, Search(r)
    PROVE  ListInv'
<1> DEFINE o == sl_reader[r]
           next == sl_next[o.x][o.level]
           found == IF o.op = "get" THEN next ELSE IF o.x = ListHead THEN NullNode ELSE o.x
           q == IF GoesOn(o, next) THEN [o EXCEPT !.x = next]
                ELSE IF o.level > 0 THEN [o EXCEPT !.level = @ - 1]
                ELSE [o EXCEPT !.done = TRUE, !.node = found]
<1>1. /\ sl_reader' = [sl_reader EXCEPT ![r] = q]
      /\ o.op \in {"get", "prev", "last"} /\ ~o.done /\ next # UnsetLink
      /\ UNCHANGED <<sl_key, sl_next, sl_height, sl_insert, sl_seq>>
  BY DEF Search
<1>2. /\ o \in ReaderType /\ SearchInv(o) /\ 0 \in ListLevels /\ Top \in Nat /\ ListTypeOK
      /\ o.x \in 0 .. Top /\ Linked(0) \subseteq 1 .. Top /\ 1 .. sl_seq \subseteq Linked(0)
      /\ sl_seq \in Nat
  BY ReaderFacts DEF ListInv
<1>3. o.level \in ListLevels /\ o.target \in Nat \X Nat
  BY <1>2 DEF ReaderType
<1>4. next \in 1 .. Top \/ next = NullNode
  BY <1>1, <1>2, <1>3, LinkFacts
<1>5. next \in 1 .. Top => next \in Linked(o.level)
  BY <1>2, <1>3, LinkFacts
<1>6. o.x \in OnLevel(o.level) /\ o.seen \subseteq Linked(0)
  BY <1>2 DEF SearchInv
<1>7. /\ Prec(o.x, next)
      /\ \A n \in Linked(o.level) : ~(Prec(o.x, n) /\ Prec(n, next))
  BY <1>3, <1>6 DEF ListInv, ChainInv
<1> HIDE DEF next
<1>8. SUFFICES q \in ReaderType /\ SearchInv(q)
  BY <1>1, <1>8, ReaderFrame
<1>9. CASE GoesOn(o, next)
  <2>1. next \in Linked(o.level) /\ next \in 1 .. Top
    BY <1>4, <1>5, <1>9 DEF GoesOn
  <2>2. q = [o EXCEPT !.x = next]
    BY <1>9
  <2>3. q \in ReaderType
    BY <1>2, <2>1, <2>2 DEF ReaderType
  <2>4. /\ q.x = next /\ q.op = o.op /\ q.level = o.level /\ q.node = o.node /\ q.seen = o.seen
        /\ q.target = o.target /\ q.done = o.done
    BY <1>2, <2>2 DEF ReaderType
  <2>5. q.op \in {"get", "prev"} => Before(q.x, q.target)
    BY <1>9, <2>4 DEF GoesOn
  <2> HIDE DEF q
  <2>6. SearchInv(q)
    BY <1>1, <1>2, <2>1, <2>4, <2>5 DEF SearchInv, OnLevel
  <2>7. QED
    BY <2>3, <2>6
<1>10. CASE ~GoesOn(o, next) /\ o.level > 0
  <2>1. q = [o EXCEPT !.level = @ - 1]
    BY <1>10
  <2>2. o.level - 1 \in ListLevels /\ OnLevel(o.level) \subseteq OnLevel(o.level - 1)
    BY <1>3, <1>10, MemTableAssumption DEF ListLevels, ListInv, NestInv, OnLevel
  <2>3. q \in ReaderType
    BY <1>2, <2>1, <2>2 DEF ReaderType
  <2>4. /\ q.x = o.x /\ q.op = o.op /\ q.level = o.level - 1 /\ q.node = o.node /\ q.seen = o.seen
        /\ q.target = o.target /\ q.done = o.done
    BY <1>2, <2>1 DEF ReaderType
  <2> HIDE DEF q
  <2>5. SearchInv(q)
    BY <1>1, <1>2, <1>6, <2>2, <2>4 DEF SearchInv
  <2>6. QED
    BY <2>3, <2>5
<1>11. CASE ~GoesOn(o, next) /\ ~(o.level > 0)
  <2>1. q = [o EXCEPT !.done = TRUE, !.node = found] /\ o.level = 0
    BY <1>3, <1>11, MemTableAssumption DEF ListLevels
  <2>2. found \in Linked(0) \cup {NullNode}
    BY <1>4, <1>5, <1>6, <2>1 DEF OnLevel
  <2>3. q \in ReaderType
    <3>1. found \in Int
      BY <1>2, <2>2 DEF NullNode
    <3> HIDE DEF found
    <3>2. QED
      BY <1>2, <2>1, <3>1 DEF ReaderType
  <2>4. /\ q.x = o.x /\ q.op = o.op /\ q.level = 0 /\ q.node = found /\ q.seen = o.seen
        /\ q.target = o.target /\ q.done = TRUE
    BY <1>2, <2>1 DEF ReaderType
  <2>5. \A n \in o.seen : n \in 1 .. Top /\ ~(Prec(o.x, n) /\ Prec(n, next))
    BY <1>2, <1>6, <1>7, <2>1
  <2>6. \A n \in o.seen : Prec(o.x, n) => n = next \/ (next \in 1 .. Top /\ Prec(next, n))
    <3>1. \A n \in 1 .. Top : ~Prec(NullNode, n)
      BY <1>2, PrecOrder DEF Prec, NullNode, ListHead
    <3>2. \A n \in o.seen : n \in -1 .. Top
      BY <1>2, <2>5
    <3>3. next \in -1 .. Top
      BY <1>2, <1>4 DEF NullNode
    <3>4. QED
      BY <1>2, <1>4, <2>5, <3>1, <3>2, <3>3, PrecOrder
  <2>7. CASE o.op = "get"
    <3>1. found = next /\ (next = NullNode \/ ~Before(next, o.target))
      BY <1>11, <2>7 DEF GoesOn
    <3>2. ASSUME NEW n \in o.seen, ~Before(n, o.target)
          PROVE  n = next \/ Prec(next, n)
      <4>1. CASE o.x = ListHead
        <5>1. Prec(o.x, n)
          BY <4>1, <2>5, <1>2 DEF Prec, ListHead
        <5>2. QED
          BY <2>6, <5>1
      <4>2. CASE o.x # ListHead
        <5>1. Before(o.x, o.target) /\ o.x \in 1 .. Top
          BY <1>2, <2>7, <4>2 DEF SearchInv, ListHead
        <5>2. n # o.x /\ ~Prec(n, o.x)
          BY <1>2, <1>3, <2>5, <3>2, <5>1, PrecOrder
        <5>3. n \in -1 .. Top /\ o.x \in -1 .. Top
          BY <1>2, <2>5
        <5>4. Prec(o.x, n)
          BY <1>2, <5>2, <5>3, PrecOrder
        <5>5. QED
          BY <2>6, <5>4
      <4>3. QED
        BY <4>1, <4>2
    <3>3. /\ q.node = NullNode \/ ~Before(q.node, q.target)
          /\ \A n \in q.seen : ~Before(n, q.target) => n = q.node \/ Prec(q.node, n)
      BY <2>4, <3>1, <3>2
    <3> HIDE DEF q
    <3>4. SearchInv(q)
      BY <1>2, <1>6, <2>1, <2>2, <2>4, <2>7, <3>3 DEF SearchInv
    <3>5. QED
      BY <2>3, <3>4
  <2>8. CASE o.op = "prev"
    <3>1. /\ found = IF o.x = ListHead THEN NullNode ELSE o.x
          /\ next = NullNode \/ ~Before(next, o.target)
      BY <1>11, <2>8 DEF GoesOn
    <3>2. ASSUME NEW n \in o.seen, Before(n, o.target)
          PROVE  ~Prec(o.x, n)
      <4>1. SUFFICES ASSUME Prec(o.x, n)
                     PROVE  FALSE
        OBVIOUS
      <4>2. next \in 1 .. Top
        BY <2>5, <2>6, <4>1
      <4>3. Before(next, o.target)
        BY <1>2, <1>3, <2>5, <2>6, <3>2, <4>1, <4>2, PrecOrder
      <4>4. QED
        BY <3>1, <4>2, <4>3 DEF NullNode
    <3>3. ASSUME NEW n \in o.seen, Before(n, o.target)
          PROVE  found # NullNode /\ ~Prec(found, n)
      <4>1. o.x # ListHead
        BY <3>2, <3>3, <2>5 DEF Prec, ListHead
      <4>2. QED
        BY <3>1, <3>2, <3>3, <4>1, <1>2 DEF NullNode
    <3>4. found = NullNode \/ Before(found, o.target)
      BY <1>2, <2>8, <3>1 DEF SearchInv
    <3>5. /\ q.node = NullNode \/ Before(q.node, q.target)
          /\ \A n \in q.seen : Before(n, q.target) => q.node # NullNode /\ ~Prec(q.node, n)
      BY <2>4, <3>3, <3>4
    <3> HIDE DEF q
    <3>6. SearchInv(q)
      BY <1>2, <1>6, <2>1, <2>2, <2>4, <2>8, <3>5 DEF SearchInv
    <3>7. QED
      BY <2>3, <3>6
  <2>9. CASE o.op = "last"
    <3>1. /\ found = IF o.x = ListHead THEN NullNode ELSE o.x
          /\ next = NullNode
      BY <1>11, <2>9 DEF GoesOn
    <3>2. \A n \in o.seen : ~Prec(o.x, n)
      BY <2>5, <2>6, <3>1, <1>2 DEF NullNode
    <3>3. ASSUME NEW n \in o.seen
          PROVE  found # NullNode /\ ~Prec(found, n)
      <4>1. o.x # ListHead
        BY <3>2, <3>3, <2>5 DEF Prec, ListHead
      <4>2. QED
        BY <3>1, <3>2, <3>3, <4>1, <1>2 DEF NullNode
    <3>4. \A n \in q.seen : q.node # NullNode /\ ~Prec(q.node, n)
      BY <2>4, <3>3
    <3> HIDE DEF q
    <3>5. SearchInv(q)
      BY <1>2, <1>6, <2>1, <2>2, <2>4, <2>9, <3>4 DEF SearchInv
    <3>6. QED
      BY <2>3, <3>5
  <2>10. QED
    BY <1>1, <2>7, <2>8, <2>9
<1>12. QED
  BY <1>9, <1>10, <1>11

\* The entries after a step.
LEMMA TopAfter ==
    ASSUME ListTypeOK'
    PROVE  Nodes' = 1 .. Top' /\ Top' \in Nat
<1>1. Nodes' = 1 .. Top'
  BY DEF ListTypeOK, Nodes
<1>2. sl_seq' \in Nat
  BY DEF ListTypeOK
<1>3. PICK s \in Nat : s = sl_seq'
  BY <1>2
<1>4. Top' = s + 1 \/ Top' = s
  BY <1>3 DEF Top
<1>5. s + 1 \in Nat
  OBVIOUS
<1>6. Top' \in Nat
  BY <1>4, <1>5
<1>7. QED
  BY <1>1, <1>6

\* What an insertion does to the readers: entries keep their keys and stay linked, so
\* nothing a search relied on changes.
LEMMA ReadersKept ==
    ASSUME ListInv, ListTypeOK', sl_reader' = sl_reader, Top <= Top', sl_seq <= sl_seq',
           \A a \in 1 .. Top : sl_key'[a] = sl_key[a],
           \A l \in ListLevels : Linked(l) \subseteq Linked(l)'
    PROVE  ReaderInv'
<1>1. Nodes = 1 .. Top /\ Nodes' = 1 .. Top' /\ Top \in Nat /\ Top' \in Nat
  <2>1. ListTypeOK
    BY DEF ListInv
  <2>2. Nodes' = 1 .. Top' /\ Top' \in Nat
    BY TopAfter
  <2>3. QED
    BY <2>1, <2>2, PrecOrder
<1>2. \A a, b \in -1 .. Top : Prec(a, b)' <=> Prec(a, b)
  BY <1>1 DEF Prec, Before, KeyOf, ListHead, NullNode
<1>3. \A a \in 1 .. Top : \A k : Before(a, k)' <=> Before(a, k)
  BY DEF Before
<1> SUFFICES ASSUME NEW r \in MemReaders
             PROVE  SearchInv(sl_reader[r])'
  BY DEF ReaderInv
<1>0. PICK q \in ReaderType : q = sl_reader[r]
  BY ReaderFacts
<1>4. /\ q \in ReaderType /\ SearchInv(q) /\ 0 \in ListLevels
      /\ q.x \in 0 .. Top /\ q.node \in Linked(0) \cup {NullNode}
      /\ Linked(0) \subseteq 1 .. Top /\ 1 .. sl_seq \subseteq Linked(0) /\ sl_seq \in Nat
  BY <1>0, ReaderFacts
<1>5. sl_reader'[r] = q
  BY <1>0
<1>6. q.seen \subseteq 1 .. Top /\ q.level \in ListLevels
  BY <1>4 DEF SearchInv, ReaderType
<1>7. sl_seq' \in Nat
  BY DEF ListTypeOK
<1>8. /\ q.x \in OnLevel(q.level)' /\ q.node \in Linked(0)' \cup {NullNode}
      /\ \E s \in 0 .. sl_seq' : q.seen = 1 .. s /\ (q.op = "get" => q.target[2] <= s)
      /\ q.op \in {"get", "prev"} => q.x = ListHead \/ Before(q.x, q.target)'
      /\ q.op = "none" => ~q.done
      /\ q.op = "next" => q.done
  <2>1. q.x \in OnLevel(q.level)' /\ q.node \in Linked(0)' \cup {NullNode}
    BY <1>4, <1>6 DEF SearchInv, OnLevel
  <2>2. PICK s \in 0 .. sl_seq : q.seen = 1 .. s /\ (q.op = "get" => q.target[2] <= s)
    BY <1>4 DEF SearchInv
  <2>3. s \in 0 .. sl_seq'
    BY <1>4, <1>7
  <2>4. q.op \in {"get", "prev"} => q.x = ListHead \/ Before(q.x, q.target)'
    BY <1>3, <1>4 DEF SearchInv, ListHead
  <2>5. QED
    BY <1>4, <2>1, <2>2, <2>3, <2>4 DEF SearchInv
<1>9. \A n \in q.seen : n \in -1 .. Top /\ n \in 1 .. Top
  BY <1>1, <1>6
<1>10. q.node \in -1 .. Top /\ q.x \in -1 .. Top /\ (q.node = NullNode \/ q.node \in 1 .. Top)
  BY <1>1, <1>4 DEF NullNode
<1>11. q.op = "get" /\ q.done =>
          /\ q.node = NullNode \/ ~Before(q.node, q.target)'
          /\ \A n \in q.seen : ~Before(n, q.target)' => n = q.node \/ Prec(q.node, n)'
  BY <1>2, <1>3, <1>4, <1>9, <1>10 DEF SearchInv
<1>12. q.op = "prev" /\ q.done =>
          /\ q.node = NullNode \/ Before(q.node, q.target)'
          /\ \A n \in q.seen : Before(n, q.target)' => q.node # NullNode /\ ~Prec(q.node, n)'
  BY <1>2, <1>3, <1>4, <1>9, <1>10 DEF SearchInv
<1>13. q.op = "last" /\ q.done => \A n \in q.seen : q.node # NullNode /\ ~Prec(q.node, n)'
  BY <1>2, <1>4, <1>9, <1>10 DEF SearchInv
<1>14. q.op = "next" /\ q.done => \A n \in q.seen : ~(Prec(q.x, n)' /\ Prec(n, q.node)')
  BY <1>2, <1>4, <1>9, <1>10 DEF SearchInv
<1>15. QED
  BY <1>5, <1>8, <1>11, <1>12, <1>13, <1>14 DEF SearchInv

\* PrevNode finds the place of a new key on a level.
LEMMA PlaceFound ==
    ASSUME ListInv, NEW l \in ListLevels, NEW k \in Nat \X Nat
    PROVE  LET p == PrevNode(k, l)
           IN  /\ p \in OnLevel(l) /\ p \in 0 .. Top
               /\ p = ListHead \/ Before(p, k)
               /\ sl_next[p][l] = NullNode \/ (sl_next[p][l] \in Linked(l) /\ ~Before(sl_next[p][l], k))
<1> DEFINE p == PrevNode(k, l)
           S == {n \in Linked(l) : Before(n, k)}
           next == sl_next[p][l]
<1>1. ListTypeOK /\ Linked(l) \subseteq 1 .. Top /\ Top \in Nat
  BY LinkFacts, PrecOrder DEF ListInv
<1>2. S = {} => p = ListHead
  BY DEF PrevNode
<1>3. S # {} => p \in S /\ \A m \in S : m = p \/ Before(m, KeyOf(p))
  <2>1. SUFFICES ASSUME S # {}
                 PROVE  p \in S /\ \A m \in S : m = p \/ Before(m, KeyOf(p))
    OBVIOUS
  <2>2. \E n \in S : \A m \in S : m = n \/ Before(m, KeyOf(n))
    BY <1>1, <2>1, LastBefore
  <2>3. p = CHOOSE n \in S : \A m \in S : m = n \/ Before(m, KeyOf(n))
    BY <2>1 DEF PrevNode
  <2> HIDE DEF p, S
  <2>4. QED
    BY <2>2, <2>3
<1> HIDE DEF p
<1>4. p \in OnLevel(l) /\ p \in 0 .. Top /\ (p = ListHead \/ Before(p, k))
  BY <1>1, <1>2, <1>3 DEF OnLevel, ListHead
<1>5. next # UnsetLink /\ Prec(p, next)
  BY <1>4 DEF ListInv, ChainInv
<1>6. next = NullNode \/ (next \in Linked(l) /\ next \in 1 .. Top)
  BY <1>1, <1>4, <1>5, LinkFacts
<1>7. ASSUME next \in Linked(l), next \in 1 .. Top, Before(next, k)
      PROVE  FALSE
  <2>1. next \in S
    BY <1>7
  <2>2. p \in S /\ (next = p \/ Before(next, KeyOf(p)))
    BY <1>3, <2>1
  <2>3. p \in 1 .. Top
    BY <1>1, <2>2
  <2>4. next = p \/ Prec(next, p)
    BY <1>1, <1>7, <2>2, <2>3, PrecOrder
  <2>5. p \in -1 .. Top /\ next \in -1 .. Top
    BY <1>1, <1>7, <2>3
  <2>6. Prec(p, p)
    BY <1>1, <1>5, <2>4, <2>5, PrecOrder
  <2>7. QED
    BY <1>1, <2>5, <2>6, PrecOrder
<1>8. QED
  BY <1>4, <1>6, <1>7 DEF p

\* The node is made and its place found on every level; nothing is linked yet.
LEMMA InsertBeginsStep ==
    ASSUME ListInv, NEW key \in UserKeys, NEW height \in 1 .. kMaxHeight,
           InsertBegins(key, height)
    PROVE  ListInv'
<1>0. PICK x \in Nat : x = sl_seq + 1
  BY DEF ListInv, ListTypeOK
<1> DEFINE k == <<key, x>>
<1>0b. PICK pr : pr = [l \in ListLevels |-> IF l < sl_height THEN PrevNode(k, l) ELSE ListHead]
  OBVIOUS
<1>1. /\ ~sl_insert.busy
      /\ sl_key' = [n \in Nodes \cup {x} |-> IF n = x THEN key ELSE sl_key[n]]
      /\ sl_next' = [n \in DOMAIN sl_next \cup {x} |->
                        IF n = x THEN [l \in ListLevels |-> UnsetLink] ELSE sl_next[n]]
      /\ sl_insert' = [busy |-> TRUE, x |-> x, height |-> height, level |-> 0, prev |-> pr]
      /\ sl_height' = IF height > sl_height THEN height ELSE sl_height
      /\ sl_seq' = sl_seq /\ sl_reader' = sl_reader
  BY <1>0, <1>0b DEF InsertBegins
<1>2. ListTypeOK /\ sl_seq \in Nat /\ sl_height \in 1 .. kMaxHeight /\ key \in Nat
  BY MemTableAssumption DEF ListInv, ListTypeOK
<1>3. Top = sl_seq /\ Top' = x /\ x \in Nat /\ x # 0 /\ x \notin 0 .. Top /\ 0 .. x = 0 .. Top \cup {x}
      /\ 1 .. x = 1 .. Top \cup {x}
  BY <1>0, <1>1, <1>2 DEF Top
<1>4. Nodes = 1 .. Top /\ DOMAIN sl_next = 0 .. Top /\ Nodes' = 1 .. x
  BY <1>1, <1>2, <1>3 DEF Nodes, ListTypeOK
<1>5. k \in Nat \X Nat
  BY <1>2, <1>3
<1>6. \A l \in ListLevels : /\ PrevNode(k, l) \in OnLevel(l) /\ PrevNode(k, l) \in 0 .. Top
                            /\ PrevNode(k, l) = ListHead \/ Before(PrevNode(k, l), k)
                            /\ \/ sl_next[PrevNode(k, l)][l] = NullNode
                               \/ /\ sl_next[PrevNode(k, l)][l] \in Linked(l)
                                  /\ ~Before(sl_next[PrevNode(k, l)][l], k)
  BY <1>5, PlaceFound
<1>7. \A l \in ListLevels : pr[l] = PrevNode(k, l)
  <2>1. ASSUME NEW l \in ListLevels, l >= sl_height
        PROVE  PrevNode(k, l) = ListHead
    BY <2>1 DEF PrevNode, ListInv, NestInv
  <2>2. \A l \in ListLevels : l \in Int
    BY MemTableAssumption DEF ListLevels
  <2>3. QED
    BY <1>0b, <1>2, <2>1, <2>2
<1>8. pr \in [ListLevels -> Nat]
  <2>1. \A l \in ListLevels : PrevNode(k, l) \in Nat
    BY <1>2, <1>3, <1>6
  <2>2. QED
    BY <1>0b, <2>1 DEF ListHead
<1>9. ListTypeOK'
  <2>1. sl_key' \in [1 .. x -> UserKeys]
    BY <1>1, <1>2, <1>3, <1>4 DEF ListTypeOK
  <2>2. sl_next' \in [0 .. x -> [ListLevels -> (1 .. x) \cup {NullNode, UnsetLink}]]
    <3>1. \A n \in 0 .. Top : sl_next[n] \in [ListLevels -> (1 .. x) \cup {NullNode, UnsetLink}]
      BY <1>2, <1>3 DEF ListTypeOK
    <3>2. [l \in ListLevels |-> UnsetLink] \in [ListLevels -> (1 .. x) \cup {NullNode, UnsetLink}]
      OBVIOUS
    <3>3. QED
      BY <1>1, <1>3, <1>4, <3>1, <3>2
  <2>3. sl_insert' \in InsertType
    BY <1>1, <1>2, <1>3, <1>8 DEF InsertType
  <2>4. sl_height' \in 1 .. kMaxHeight
    BY <1>1, <1>2
  <2>5. QED
    BY <1>1, <1>2, <1>3, <2>1, <2>2, <2>3, <2>4 DEF ListTypeOK
<1>10. /\ \A m \in 0 .. Top : sl_next'[m] = sl_next[m]
       /\ \A l \in ListLevels : sl_next'[x][l] = UnsetLink
       /\ \A a \in 1 .. Top : sl_key'[a] = sl_key[a]
       /\ sl_key'[x] = key
  BY <1>1, <1>3, <1>4
<1>11. \A l \in ListLevels : Linked(l)' = Linked(l) /\ OnLevel(l)' = OnLevel(l)
  <2>1. ASSUME NEW l \in ListLevels
        PROVE  Linked(l)' = Linked(l)
    <3>1. Nodes \cup {ListHead} = 0 .. Top /\ (Nodes \cup {ListHead})' = 0 .. Top \cup {x}
      BY <1>2, <1>3, <1>4 DEF ListHead
    <3>2. \A m \in 0 .. Top : sl_next[m][l] # x
      BY <1>2, <1>3, LinkFacts DEF NullNode, UnsetLink
    <3>3. UnsetLink \notin 1 .. x
      BY DEF UnsetLink
    <3>4. QED
      BY <1>3, <1>4, <1>10, <3>1, <3>2, <3>3 DEF Linked
  <2>2. QED
    BY <2>1 DEF OnLevel
<1>12. \A a, b \in -1 .. Top : Prec(a, b)' <=> Prec(a, b)
  BY <1>2, <1>3, <1>4, <1>10 DEF Prec, Before, KeyOf, ListHead, NullNode
<1>13. ReaderInv'
  BY <1>1, <1>2, <1>3, <1>9, <1>10, <1>11, ReadersKept
<1>14. \A l \in ListLevels : /\ Linked(l) \subseteq 1 .. Top /\ OnLevel(l) \subseteq 0 .. Top
                             /\ \A m \in OnLevel(l) : sl_next[m][l] \in -1 .. Top
  <2>1. ASSUME NEW l \in ListLevels
        PROVE  /\ Linked(l) \subseteq 1 .. Top /\ OnLevel(l) \subseteq 0 .. Top
               /\ \A m \in OnLevel(l) : sl_next[m][l] \in -1 .. Top
    <3>1. \A m \in OnLevel(l) : sl_next[m][l] # UnsetLink
      BY DEF ListInv, ChainInv
    <3>2. QED
      BY <1>2, <1>3, <3>1, LinkFacts DEF NullNode
  <2>2. QED
    BY <2>1
<1>15. ChainInv'
  <2> SUFFICES ASSUME NEW l \in ListLevels
               PROVE  (/\ \A m \in OnLevel(l) : /\ sl_next[m][l] # UnsetLink
                                 /\ Prec(m, sl_next[m][l])
                                 /\ \A n \in Linked(l) : ~(Prec(m, n) /\ Prec(n, sl_next[m][l]))
                       /\ \A m \in Nodes \ Linked(l) : sl_next[m][l] = UnsetLink)'
    BY DEF ChainInv
  <2>1. ASSUME NEW m \in OnLevel(l)
        PROVE  /\ sl_next'[m][l] # UnsetLink
               /\ Prec(m, sl_next[m][l])'
               /\ \A n \in Linked(l) : ~(Prec(m, n)' /\ Prec(n, sl_next[m][l])')
    <3>1. m \in 0 .. Top /\ sl_next'[m][l] = sl_next[m][l] /\ sl_next[m][l] \in -1 .. Top
          /\ Linked(l) \subseteq 1 .. Top
      BY <1>10, <1>14
    <3>1b. PICK next : next = sl_next[m][l]
      OBVIOUS
    <3>2. /\ next # UnsetLink /\ Prec(m, next)
          /\ \A n \in Linked(l) : ~(Prec(m, n) /\ Prec(n, next))
      BY <3>1b DEF ListInv, ChainInv
    <3>4. m \in -1 .. Top /\ \A n \in Linked(l) : n \in -1 .. Top
      BY <1>2, <1>3, <3>1
    <3>6. Prec(m, next)' /\ \A n \in Linked(l) : ~(Prec(m, n)' /\ Prec(n, next)')
      BY <1>12, <3>1, <3>1b, <3>2, <3>4
    <3>7. QED
      BY <3>1, <3>1b, <3>2, <3>6 DEF Prec
  <2>2. ASSUME NEW m \in 1 .. x, m \notin Linked(l)
        PROVE  sl_next'[m][l] = UnsetLink
    <3>1. CASE m = x
      BY <1>10, <3>1
    <3>2. CASE m # x
      <4>1. m \in 1 .. Top /\ m \in 0 .. Top
        BY <1>2, <1>3, <2>2, <3>2
      <4>2. QED
        BY <1>4, <1>10, <2>2, <4>1 DEF ListInv, ChainInv
    <3>3. QED
      BY <3>1, <3>2
  <2>3. QED
    BY <1>4, <1>11, <2>1, <2>2
<1>16. NestInv'
  <2>1. \A l \in ListLevels : l \in Int /\ (l >= sl_height' => l >= sl_height)
    BY <1>1, <1>2, MemTableAssumption DEF ListLevels
  <2>2. \A l \in ListLevels \ {0} : l - 1 \in ListLevels
    BY MemTableAssumption DEF ListLevels
  <2>3. 0 \in ListLevels
    BY MemTableAssumption DEF ListLevels
  <2>4. QED
    BY <1>1, <1>11, <2>1, <2>2, <2>3 DEF ListInv, NestInv
<1>17. InsertInv'
  <2>1. /\ sl_insert'.x = x /\ sl_insert'.height = height /\ sl_insert'.level = 0
        /\ sl_insert'.prev = pr /\ sl_insert'.busy
    BY <1>1
  <2>2. height \in 1 .. sl_height' /\ 0 \in 0 .. height - 1
    BY <1>1, <1>2
  <2>3. \A l \in ListLevels : x \notin Linked(l)' /\ ~(l < 0)
    BY <1>3, <1>11, <1>14, MemTableAssumption DEF ListLevels
  <2>4. ASSUME NEW l \in 0 .. height - 1
        PROVE  /\ pr[l] \in OnLevel(l)' /\ Prec(pr[l], x)' /\ Prec(x, sl_next[pr[l]][l])'
    <3>1. l \in ListLevels
      BY MemTableAssumption DEF ListLevels
    <3>1b. PICK p : p = PrevNode(k, l)
      OBVIOUS
    <3>1c. PICK next : next = sl_next[p][l]
      OBVIOUS
    <3>2. /\ p \in OnLevel(l) /\ p \in 0 .. Top
          /\ p = ListHead \/ Before(p, k)
          /\ next = NullNode \/ (next \in Linked(l) /\ ~Before(next, k))
      BY <1>6, <3>1, <3>1b, <3>1c
    <3>3. pr[l] = p /\ sl_next'[p][l] = next /\ Linked(l) \subseteq 1 .. Top
      BY <1>7, <1>10, <1>14, <3>1, <3>1b, <3>1c, <3>2
    <3>4. \A a \in 1 .. Top : Prec(a, x)' <=> Before(a, k)
      BY <1>2, <1>3, <1>4, <1>10 DEF Prec, Before, KeyOf, ListHead, NullNode
    <3>5. Prec(p, x)'
      <4>1. CASE p = ListHead
        BY <1>3, <4>1 DEF Prec, ListHead
      <4>2. CASE p # ListHead
        <5>1. p \in 1 .. Top
          BY <1>2, <1>3, <3>2, <4>2 DEF ListHead
        <5>2. QED
          BY <3>2, <3>4, <4>2, <5>1
      <4>3. QED
        BY <4>1, <4>2
    <3>6. \/ next = NullNode /\ Prec(x, NullNode)'
          \/ next \in 1 .. Top /\ Prec(x, next)'
      <4>1. CASE next = NullNode
        BY <1>3, <4>1 DEF Prec, NullNode
      <4>2. CASE next # NullNode
        <5>1. next \in 1 .. Top /\ ~Before(next, k)
          BY <3>2, <3>3, <4>2
        <5>2. key = sl_key'[x] /\ sl_key'[next] = sl_key[next] /\ sl_key[next] \in Nat
          BY <1>2, <1>10, <5>1, MemTableAssumption DEF ListTypeOK
        <5>3. key < sl_key[next] \/ (key = sl_key[next] /\ x > next)
          BY <1>2, <1>3, <5>1, <5>2 DEF Before
        <5>4. x \in Nodes' /\ next \in Nodes'
          BY <1>2, <1>3, <1>4, <5>1
        <5>5. Prec(x, next)'
          BY <5>2, <5>3, <5>4 DEF Prec, Before, KeyOf
        <5>6. QED
          BY <5>1, <5>5
      <4>3. QED
        BY <4>1, <4>2
    <3>7. Prec(x, sl_next[p][l])'
      BY <3>3, <3>6 DEF Prec
    <3>8. QED
      BY <1>11, <3>1, <3>2, <3>3, <3>5, <3>7
  <2>5. QED
    <3>1. (\A l \in sl_insert.level .. sl_insert.height - 1 :
              /\ sl_insert.prev[l] \in OnLevel(l)
              /\ Prec(sl_insert.prev[l], sl_insert.x)
              /\ Prec(sl_insert.x, sl_next[sl_insert.prev[l]][l]))'
      BY <2>1, <2>4 DEF Prec
    <3>2. (\A l \in ListLevels : sl_insert.x \in Linked(l) <=> l < sl_insert.level)'
      BY <2>1, <2>3
    <3>3. sl_insert'.x = sl_seq' + 1
      BY <1>0, <1>1, <2>1
    <3>4. QED
      BY <2>1, <2>2, <3>1, <3>2, <3>3 DEF InsertInv
<1>18. QED
  BY <1>9, <1>13, <1>15, <1>16, <1>17 DEF ListInv

\* A node is put on one level, between p and the entry after it: it was the place found
\* when the insertion began, and no other thread inserts.
LEMMA InsertLinksStep ==
    ASSUME ListInv, InsertLinks
    PROVE  ListInv'
<1> DEFINE ins == sl_insert
<1>1. PICK x \in Nat : x = ins.x /\ x = sl_seq + 1
  BY DEF InsertLinks, ListInv, ListTypeOK, InsertInv
<1>2. PICK lv \in Nat : lv = ins.level
  BY DEF ListInv, ListTypeOK, InsertType
<1>3. PICK ht \in Nat : ht = ins.height
  BY DEF ListInv, ListTypeOK, InsertType
<1>4. /\ ins.busy /\ sl_key' = sl_key /\ sl_height' = sl_height /\ sl_reader' = sl_reader
      /\ sl_next' = Link(x, lv, ins.prev[lv])
      /\ IF lv + 1 < ht
         THEN sl_insert' = [ins EXCEPT !.level = @ + 1] /\ sl_seq' = sl_seq
         ELSE sl_insert' = [ins EXCEPT !.busy = FALSE] /\ sl_seq' = x
  BY <1>1, <1>2, <1>3 DEF InsertLinks, LinkLevel
<1>5. /\ ListTypeOK /\ sl_seq \in Nat /\ sl_height \in 1 .. kMaxHeight /\ ins \in InsertType
      /\ ht \in 1 .. sl_height /\ lv \in 0 .. ht - 1
      /\ \A l \in ListLevels : x \in Linked(l) <=> l < lv
      /\ \A l \in lv .. ht - 1 : /\ ins.prev[l] \in OnLevel(l)
                                 /\ Prec(ins.prev[l], x)
                                 /\ Prec(x, sl_next[ins.prev[l]][l])
  BY <1>1, <1>2, <1>3, <1>4 DEF ListInv, ListTypeOK, InsertInv
<1>6. lv \in ListLevels /\ 0 \in ListLevels /\ \A l \in 0 .. ht - 1 : l \in ListLevels
  BY <1>5, MemTableAssumption DEF ListLevels
<1>7. PICK p : p = ins.prev[lv]
  OBVIOUS
<1>8. PICK nx : nx = sl_next[p][lv]
  OBVIOUS
<1>9. p \in OnLevel(lv) /\ Prec(p, x) /\ Prec(x, nx)
  BY <1>5, <1>7, <1>8
<1>10. Top = x /\ Nodes = 1 .. x
  BY <1>1, <1>4, <1>5, PrecOrder DEF Top
<1>11. Top' = x
  <2>1. CASE lv + 1 < ht
    BY <1>1, <1>4, <1>5, <2>1 DEF Top, InsertType
  <2>2. CASE ~(lv + 1 < ht)
    BY <1>1, <1>4, <1>5, <2>2 DEF Top, InsertType
  <2>3. QED
    BY <2>1, <2>2
<1>12. Nodes' = Nodes /\ x \in 1 .. x /\ x \in 0 .. x /\ p \in 0 .. x /\ x # ListHead
  BY <1>1, <1>4, <1>5, <1>6, <1>9, <1>10, LinkFacts DEF Nodes, ListHead
<1>13. x \notin Linked(lv) /\ p # x /\ sl_next[x][lv] = UnsetLink
  <2>1. x \notin Linked(lv)
    BY <1>5, <1>6
  <2>2. p # x
    BY <1>9, <1>12, <2>1 DEF OnLevel
  <2>3. QED
    BY <1>6, <1>10, <1>12, <2>1, <2>2 DEF ListInv, ChainInv
<1>14. nx # UnsetLink /\ Prec(p, nx) /\ \A n \in Linked(lv) : ~(Prec(p, n) /\ Prec(n, nx))
  BY <1>6, <1>8, <1>9 DEF ListInv, ChainInv
<1>15. nx \in (1 .. x) \cup {NullNode} /\ (nx \in 1 .. x => nx \in Linked(lv))
  BY <1>5, <1>6, <1>8, <1>10, <1>12, <1>14, LinkFacts
<1>16. /\ DOMAIN sl_next = 0 .. x
       /\ \A m \in 0 .. x : sl_next[m] \in [ListLevels -> (1 .. x) \cup {NullNode, UnsetLink}]
  BY <1>5, <1>10 DEF ListTypeOK
<1>17. /\ sl_next' \in [0 .. x -> [ListLevels -> (1 .. x) \cup {NullNode, UnsetLink}]]
       /\ sl_next'[x][lv] = nx /\ sl_next'[p][lv] = x
       /\ \A m \in 0 .. x, l \in ListLevels :
             m \notin {x, p} \/ l # lv => sl_next'[m][l] = sl_next[m][l]
  <2>1. sl_next' = [sl_next EXCEPT ![x][lv] = nx, ![p][lv] = x]
    BY <1>4, <1>7, <1>8 DEF Link
  <2>2. sl_next \in [0 .. x -> [ListLevels -> (1 .. x) \cup {NullNode, UnsetLink}]]
    BY <1>5, <1>10 DEF ListTypeOK
  <2>3. QED
    BY <1>6, <1>12, <1>13, <1>15, <2>1, <2>2
<1>18. ListTypeOK'
  <2>1. sl_insert' \in InsertType /\ sl_seq' \in Nat
    <3>1. CASE lv + 1 < ht
      BY <1>2, <1>4, <1>5, <3>1 DEF InsertType
    <3>2. CASE ~(lv + 1 < ht)
      BY <1>1, <1>4, <1>5, <3>2 DEF InsertType
    <3>3. QED
      BY <3>1, <3>2
  <2>2. QED
    BY <1>4, <1>5, <1>10, <1>11, <1>17, <2>1 DEF ListTypeOK
<1>19. \A a, b : Prec(a, b)' = Prec(a, b)
  BY <1>4 DEF Prec, Before, KeyOf, Nodes
<1>20. \A l \in ListLevels : l # lv => Linked(l)' = Linked(l)
  <2>1. Nodes \cup {ListHead} = 0 .. x
    BY <1>1, <1>10 DEF ListHead
  <2>2. ASSUME NEW l \in ListLevels, l # lv
        PROVE  Linked(l)' = Linked(l)
    <3>1. \A m \in 0 .. x : sl_next'[m][l] = sl_next[m][l]
      BY <1>17, <2>2
    <3>2. QED
      BY <1>12, <2>1, <3>1 DEF Linked
  <2>3. QED
    BY <2>2
<1>21. Linked(lv)' = Linked(lv) \cup {x}
  <2>1. Nodes \cup {ListHead} = 0 .. x /\ (Nodes \cup {ListHead})' = 0 .. x
    BY <1>1, <1>10, <1>12 DEF ListHead
  <2>2. ASSUME NEW n \in Linked(lv)
        PROVE  n \in Linked(lv)'
    <3>1. PICK m \in 0 .. x : sl_next[m][lv] = n
      BY <2>1 DEF Linked
    <3>2. n \in Nodes /\ n \in Nodes'
      BY <1>12 DEF Linked
    <3>3. m # x
      BY <1>10, <1>13, <3>1, <3>2 DEF UnsetLink
    <3>4. \E i \in 0 .. x : sl_next'[i][lv] = n
      <4>1. CASE m = p
        BY <1>8, <1>12, <1>17, <3>1, <4>1
      <4>2. CASE m # p
        BY <1>6, <1>17, <3>1, <3>3, <4>2
      <4>3. QED
        BY <4>1, <4>2
    <3>5. QED
      BY <2>1, <3>2, <3>4 DEF Linked
  <2>3. x \in Linked(lv)'
    BY <1>10, <1>12, <1>17, <2>1 DEF Linked
  <2>4. ASSUME NEW n \in Linked(lv)', n # x
        PROVE  n \in Linked(lv)
    <3>1. PICK m \in 0 .. x : sl_next'[m][lv] = n
      BY <2>1, <2>4 DEF Linked
    <3>2. n \in Nodes /\ n \in 1 .. x
      BY <1>10, <1>12, <2>4 DEF Linked
    <3>3. m # p
      BY <1>17, <2>4, <3>1
    <3>4. CASE m = x
      BY <1>15, <1>17, <3>1, <3>2, <3>4
    <3>5. CASE m # x
      <4>1. sl_next[m][lv] = n
        BY <1>6, <1>17, <3>1, <3>3, <3>5
      <4>2. QED
        BY <2>1, <3>2, <4>1 DEF Linked
    <3>6. QED
      BY <3>4, <3>5
  <2>5. QED
    BY <2>2, <2>3, <2>4
<1>22. ChainInv'
  <2>1. ASSUME NEW l \in ListLevels, l # lv
        PROVE  (/\ \A m \in OnLevel(l) : /\ sl_next[m][l] # UnsetLink
                                 /\ Prec(m, sl_next[m][l])
                                 /\ \A n \in Linked(l) : ~(Prec(m, n) /\ Prec(n, sl_next[m][l]))
                /\ \A m \in Nodes \ Linked(l) : sl_next[m][l] = UnsetLink)'
    <3>1. \A m \in 0 .. x : sl_next'[m][l] = sl_next[m][l]
      BY <1>17, <2>1
    <3>2. OnLevel(l)' = OnLevel(l) /\ OnLevel(l) \subseteq 0 .. x /\ Linked(l)' = Linked(l)
      BY <1>5, <1>10, <1>20, <2>1, LinkFacts DEF OnLevel
    <3>3. \A m \in Nodes : m \in 0 .. x
      BY <1>10
    <3>4. \A m \in OnLevel(l) : Prec(m, sl_next[m][l])' = Prec(m, sl_next[m][l])
      BY <1>19, <3>1, <3>2 DEF Prec
    <3>5. \A m \in OnLevel(l) : \A n : Prec(n, sl_next[m][l])' = Prec(n, sl_next[m][l])
      BY <1>19, <3>1, <3>2 DEF Prec
    <3>6. QED
      BY <1>12, <1>19, <3>1, <3>2, <3>3, <3>4, <3>5 DEF ListInv, ChainInv
  <2>2. /\ OnLevel(lv)' = OnLevel(lv) \cup {x} /\ OnLevel(lv) \subseteq 0 .. x
        /\ Linked(lv) \subseteq 1 .. x
    BY <1>5, <1>6, <1>10, <1>21, LinkFacts DEF OnLevel
  <2>3. ASSUME NEW m \in OnLevel(lv) \cup {x}
        PROVE  \E y \in (1 .. x) \cup {NullNode} :
                  /\ y = sl_next'[m][lv] /\ Prec(m, y)
                  /\ \A n \in Linked(lv) \cup {x} : ~(Prec(m, n) /\ Prec(n, y))
    <3>0. /\ \A a \in -1 .. x : ~Prec(a, a)
          /\ \A a, b \in -1 .. x : a # b => Prec(a, b) \/ Prec(b, a)
          /\ \A a, b, c \in -1 .. x : Prec(a, b) /\ Prec(b, c) => Prec(a, c)
      BY <1>5, <1>10, PrecOrder
    <3>0b. /\ x \in -1 .. x /\ p \in -1 .. x /\ m \in -1 .. x /\ nx \in -1 .. x
           /\ \A n \in Linked(lv) : n \in -1 .. x
      BY <1>1, <1>12, <1>15, <2>2 DEF NullNode
    <3>1. CASE m = x
      <4>1. \A n \in Linked(lv) : Prec(x, n) => Prec(p, n)
        BY <1>9, <3>0, <3>0b
      <4>2. \A n \in Linked(lv) \cup {x} : ~(Prec(x, n) /\ Prec(n, nx))
        BY <1>14, <3>0, <3>0b, <4>1
      <4>3. QED
        BY <1>9, <1>15, <1>17, <3>1, <4>2
    <3>2. CASE m = p
      <4>1. \A n \in Linked(lv) : Prec(n, x) => Prec(n, nx)
        BY <1>9, <3>0, <3>0b
      <4>2. \A n \in Linked(lv) \cup {x} : ~(Prec(p, n) /\ Prec(n, x))
        BY <1>14, <3>0, <3>0b, <4>1
      <4>3. QED
        BY <1>9, <1>12, <1>17, <3>2, <4>2
    <3>3. CASE m # x /\ m # p
      <4>1. m \in OnLevel(lv) /\ m \in 0 .. x
        BY <2>2, <3>3
      <4>2. PICK y : y = sl_next[m][lv]
        OBVIOUS
      <4>3. y # UnsetLink /\ Prec(m, y) /\ \A n \in Linked(lv) : ~(Prec(m, n) /\ Prec(n, y))
        BY <1>6, <4>1, <4>2 DEF ListInv, ChainInv
      <4>4. y \in (1 .. x) \cup {NullNode} /\ y = sl_next'[m][lv]
        BY <1>6, <1>16, <1>17, <3>3, <4>1, <4>2, <4>3
      <4>5. y \in -1 .. x
        BY <1>1, <4>4 DEF NullNode
      <4>6. ASSUME Prec(m, x), Prec(x, y)
            PROVE  FALSE
        <5>1. CASE Prec(p, m)
          <6>1. m \in Linked(lv)
            BY <1>10, <4>1, <5>1 DEF OnLevel, Prec, ListHead, NullNode
          <6>2. Prec(m, nx)
            BY <1>9, <3>0, <3>0b, <4>6
          <6>3. QED
            BY <1>14, <5>1, <6>1, <6>2
        <5>2. CASE Prec(m, p)
          <6>1. p \in Linked(lv)
            BY <1>9, <5>2, <1>10, <4>1 DEF OnLevel, Prec, ListHead, NullNode
          <6>2. Prec(p, y)
            BY <1>9, <3>0, <3>0b, <4>5, <4>6
          <6>3. QED
            BY <4>3, <5>2, <6>1, <6>2
        <5>3. QED
          BY <3>0, <3>0b, <3>3, <5>1, <5>2
      <4>7. QED
        BY <4>3, <4>4, <4>6
    <3>4. QED
      BY <3>1, <3>2, <3>3
  <2>4. ASSUME NEW m \in OnLevel(lv)'
        PROVE  (/\ sl_next[m][lv] # UnsetLink
                /\ Prec(m, sl_next[m][lv])
                /\ \A n \in Linked(lv) : ~(Prec(m, n) /\ Prec(n, sl_next[m][lv])))'
    <3>1. PICK y \in (1 .. x) \cup {NullNode} :
                  /\ y = sl_next'[m][lv] /\ Prec(m, y)
                  /\ \A n \in Linked(lv) \cup {x} : ~(Prec(m, n) /\ Prec(n, y))
      BY <2>2, <2>3, <2>4
    <3>2. y # UnsetLink
      BY <1>1 DEF UnsetLink, NullNode
    <3>3. Prec(m, y)' /\ \A n \in Linked(lv)' : ~(Prec(m, n)' /\ Prec(n, y)')
      BY <1>19, <1>21, <3>1
    <3>4. Prec(m, sl_next[m][lv])' = Prec(m, y)'
      BY <3>1 DEF Prec
    <3>5. \A n : Prec(n, sl_next[m][lv])' = Prec(n, y)'
      BY <3>1 DEF Prec
    <3>6. QED
      BY <3>1, <3>2, <3>3, <3>4, <3>5
  <2>5. ASSUME NEW m \in Nodes', m \notin Linked(lv)'
        PROVE  sl_next'[m][lv] = UnsetLink
    <3>1. m \in Nodes /\ m \in 0 .. x /\ m # x /\ m \notin Linked(lv) /\ m # ListHead
      BY <1>1, <1>10, <1>12, <1>21, <2>5 DEF ListHead
    <3>2. m # p
      BY <1>9, <3>1 DEF OnLevel
    <3>3. QED
      BY <1>6, <1>17, <3>1, <3>2 DEF ListInv, ChainInv
  <2>6. QED
    BY <1>6, <2>1, <2>4, <2>5 DEF ChainInv
<1>23. \A l \in ListLevels : Linked(l) \subseteq Linked(l)'
  BY <1>20, <1>21
<1>24. NestInv'
  <2>0. \A l \in ListLevels : l \in Nat /\ (l # 0 => l - 1 \in ListLevels)
    BY MemTableAssumption DEF ListLevels
  <2>1. ASSUME NEW l \in ListLevels \ {0}
        PROVE  Linked(l)' \subseteq Linked(l - 1)'
    <3>1. l - 1 \in ListLevels /\ l \in Nat /\ Linked(l) \subseteq Linked(l - 1)
      BY <2>0 DEF ListInv, NestInv
    <3>2. CASE l = lv
      <4>1. x \in Linked(l - 1)
        BY <1>5, <3>1, <3>2
      <4>2. QED
        BY <1>21, <1>23, <3>1, <3>2, <4>1
    <3>3. CASE l # lv
      BY <1>20, <1>23, <3>1, <3>3
    <3>4. QED
      BY <3>2, <3>3
  <2>2. ASSUME NEW l \in ListLevels, l >= sl_height'
        PROVE  Linked(l)' = {}
    <3>1. l # lv /\ l >= sl_height
      BY <1>4, <1>5, <2>0, <2>2
    <3>2. QED
      BY <1>20, <3>1 DEF ListInv, NestInv
  <2>3. 1 .. sl_seq' \subseteq Linked(0)'
    <3>1. x \in Linked(0)'
      <4>1. CASE lv = 0
        BY <1>21, <4>1
      <4>2. CASE lv # 0
        BY <1>2, <1>5, <1>6, <1>23, <4>2
      <4>3. QED
        BY <4>1, <4>2
    <3>2. 1 .. sl_seq \subseteq Linked(0)'
      BY <1>6, <1>23 DEF ListInv, NestInv
    <3>3. \A n \in 1 .. sl_seq' : n = x \/ n \in 1 .. sl_seq
      BY <1>1, <1>4, <1>5
    <3>4. QED
      BY <3>1, <3>2, <3>3
  <2>4. QED
    BY <2>1, <2>2, <2>3 DEF NestInv
<1>25. InsertInv'
  <2>1. CASE lv + 1 < ht
    <3>1. /\ sl_insert'.x = x /\ sl_insert'.height = ht /\ sl_insert'.level = lv + 1
          /\ sl_insert'.prev = ins.prev /\ sl_insert'.busy = TRUE /\ sl_seq' = sl_seq
      BY <1>1, <1>2, <1>3, <1>4, <1>5, <2>1 DEF InsertType
    <3>2. lv + 1 \in 0 .. ht - 1 /\ ht \in 1 .. sl_height'
      BY <1>4, <1>5, <2>1
    <3>3. \A l \in ListLevels : l \in Nat
      BY MemTableAssumption DEF ListLevels
    <3>4. ASSUME NEW l \in ListLevels
          PROVE  x \in Linked(l)' <=> l < lv + 1
      <4>1. CASE l = lv
        BY <1>21, <3>3, <4>1
      <4>2. CASE l # lv
        BY <1>5, <1>20, <3>3, <4>2
      <4>3. QED
        BY <4>1, <4>2
    <3>5. ASSUME NEW l \in lv + 1 .. ht - 1
          PROVE  (/\ sl_insert.prev[l] \in OnLevel(l)
                  /\ Prec(sl_insert.prev[l], sl_insert.x)
                  /\ Prec(sl_insert.x, sl_next[sl_insert.prev[l]][l]))'
      <4>1. l \in lv .. ht - 1 /\ l # lv /\ l \in ListLevels
        BY <1>5, <1>6
      <4>2. PICK pl : pl = ins.prev[l]
        OBVIOUS
      <4>3. pl \in OnLevel(l) /\ Prec(pl, x) /\ Prec(x, sl_next[pl][l])
        BY <1>5, <4>1, <4>2
      <4>4. pl \in OnLevel(l)' /\ pl \in 0 .. x
        BY <1>5, <1>10, <1>20, <4>1, <4>3, LinkFacts DEF OnLevel
      <4>5. sl_next'[pl][l] = sl_next[pl][l]
        BY <1>17, <4>1, <4>4
      <4>6. Prec(pl, x)' /\ Prec(x, sl_next[pl][l])'
        BY <1>4, <4>3, <4>5 DEF Prec, Before, KeyOf, Nodes
      <4>7. sl_insert'.prev[l] = pl /\ sl_insert'.x = x
        BY <3>1, <4>2
      <4>8. QED
        BY <4>4, <4>6, <4>7 DEF Prec
    <3>6. (\A l \in ListLevels : sl_insert.x \in Linked(l) <=> l < sl_insert.level)'
      BY <3>1, <3>4
    <3>7. sl_insert'.x = sl_seq' + 1
      BY <1>1, <3>1
    <3>8. QED
      BY <3>1, <3>2, <3>5, <3>6, <3>7 DEF InsertInv
  <2>2. CASE ~(lv + 1 < ht)
    <3>1. sl_insert'.busy = FALSE
      BY <1>4, <1>5, <2>2 DEF InsertType
    <3>2. QED
      BY <3>1 DEF InsertInv
  <2>3. QED
    BY <2>1, <2>2
<1>26. ReaderInv'
  <2>1. Top <= Top' /\ sl_seq <= sl_seq'
    BY <1>1, <1>4, <1>5, <1>10, <1>11
  <2>2. QED
    BY <1>4, <1>18, <1>23, <2>1, ReadersKept
<1>27. QED
  BY <1>18, <1>22, <1>24, <1>25, <1>26 DEF ListInv

\* Every step keeps the invariant of the skip list.
LEMMA ListStep == ListInv /\ [MemTableNext]_sl_vars => ListInv'
<1> SUFFICES ASSUME ListInv, [MemTableNext]_sl_vars
             PROVE  ListInv'
  OBVIOUS
<1>1. ASSUME NEW key \in UserKeys, NEW height \in 1 .. kMaxHeight, InsertBegins(key, height)
      PROVE  ListInv'
  BY <1>1, InsertBeginsStep
<1>2. CASE InsertLinks
  BY <1>2, InsertLinksStep
<1>3. ASSUME NEW r \in MemReaders, NEW key \in UserKeys, MemGet(r, key)
      PROVE  ListInv'
  <2>1. PICK s \in 0 .. sl_seq : Begin(r, "get", <<key, s>>)
    BY <1>3 DEF MemGet
  <2>2. sl_seq \in Nat
    BY DEF ListInv, ListTypeOK
  <2>3. <<key, s>> \in Nat \X Nat /\ <<key, s>>[2] <= sl_seq
    BY <2>2, MemTableAssumption
  <2>4. QED
    BY <2>1, <2>3, BeginStep
<1>4. ASSUME NEW r \in MemReaders, SeekToLast(r)
      PROVE  ListInv'
  <2>1. <<0, 0>> \in Nat \X Nat
    OBVIOUS
  <2>2. QED
    BY <1>4, <2>1, BeginStep DEF SeekToLast
<1>5. ASSUME NEW r \in MemReaders, MovePrev(r)
      PROVE  ListInv'
  <2>1. sl_reader[r].node \in 1 .. Top /\ Top \in Nat
    BY <1>5, ReaderFacts DEF MovePrev, ListHead, NullNode
  <2>2. KeyOf(sl_reader[r].node) \in Nat \X Nat
    <3>0. PICK n \in 1 .. Top : n = sl_reader[r].node
      BY <2>1
    <3>0b. \A a \in 1 .. Top : sl_key[a] \in UserKeys
      BY DEF ListInv, ListTypeOK
    <3>1. sl_key[sl_reader[r].node] \in Nat /\ sl_reader[r].node \in Nat
      BY <2>1, <3>0, <3>0b, MemTableAssumption
    <3>2. QED
      BY <3>1 DEF KeyOf
  <2>3. QED
    BY <1>5, <2>2, BeginStep DEF MovePrev
<1>6. ASSUME NEW r \in MemReaders, MoveNext(r)
      PROVE  ListInv'
  <2>1. sl_reader[r].node \in OnLevel(0)
    BY <1>6, ReaderFacts DEF MoveNext, ListHead, NullNode, OnLevel
  <2>2. QED
    BY <1>6, <2>1, StepLowestStep DEF MoveNext
<1>7. ASSUME NEW r \in MemReaders, SeekToFirst(r)
      PROVE  ListInv'
  BY <1>7, ReaderFacts, StepLowestStep DEF SeekToFirst
<1>8. ASSUME NEW r \in MemReaders, Search(r)
      PROVE  ListInv'
  BY <1>8, SearchStep
<1>9. CASE UNCHANGED sl_vars
  <2>1. CASE MemReaders = {}
    <3>1. /\ Top' = Top /\ Nodes' = Nodes
          /\ \A l : Linked(l)' = Linked(l) /\ OnLevel(l)' = OnLevel(l)
          /\ \A a, b : Prec(a, b)' = Prec(a, b)
      BY <1>9 DEF sl_vars, Top, Nodes, Linked, OnLevel, Prec, Before, KeyOf
    <3>2. ListTypeOK' /\ ChainInv'
      BY <1>9, <3>1 DEF sl_vars, ListInv, ListTypeOK, ChainInv
    <3>3. NestInv' /\ InsertInv'
      BY <1>9, <3>1 DEF sl_vars, ListInv, NestInv, InsertInv
    <3>4. QED
      BY <2>1, <3>2, <3>3 DEF ListInv, ReaderInv
  <2>2. CASE MemReaders # {}
    <3>1. PICK r \in MemReaders : TRUE
      BY <2>2
    <3>2. sl_reader[r] \in ReaderType /\ SearchInv(sl_reader[r])
      BY ReaderFacts
    <3>3. sl_reader' = [sl_reader EXCEPT ![r] = sl_reader[r]]
      BY <1>9 DEF sl_vars, ListInv, ListTypeOK
    <3>4. QED
      BY <1>9, <3>2, <3>3, ReaderFrame DEF sl_vars
  <2>3. QED
    BY <2>1, <2>2
<1>10. QED
  BY <1>1, <1>2, <1>3, <1>4, <1>5, <1>6, <1>7, <1>8, <1>9 DEF MemTableNext

\* For every number of entries, heights and readers, a reader that walks the skip list
\* without a lock while SkipList::Insert links a node level by level meets a list in order,
\* misses no entry that was there when it began, and MemTable::Get finds the newest one.
THEOREM ListReadsAreExact == MemTableSpec => []ListReadsExact
<1>1. MemTableInit => ListInv
  BY ListInitInv
<1>2. ListInv /\ [MemTableNext]_sl_vars => ListInv'
  BY ListStep
<1>3. ListInv => ListReadsExact
  BY ListInvImplies
<1>4. QED
  BY <1>1, <1>2, <1>3, PTL DEF MemTableSpec
=============================================================================
