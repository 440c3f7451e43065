---------------------------- MODULE BenchDriver ----------------------------
(***************************************************************************)
(* The driver of db_bench (db_bench.cpp): Benchmark::Run takes one name of *)
(* FLAGS_benchmarks after the other, sets the parameters of that benchmark *)
(* and reopens a fresh database where it asks for one; RunBenchmark starts *)
(* the threads, lets them go together, waits for all and merges their      *)
(* statistics; ThreadBody runs the benchmark's method.                     *)
(*                                                                         *)
(* SharedState lives on RunBenchmark's stack: mu and cv are modelled, and  *)
(* a thread's last critical section is two steps.  The database is a set   *)
(* of keys, and its calls are atomic: LPADBench, LSMTree and DBIter have   *)
(* their insides.  A read that the enclave verifies may never come back:   *)
(* lpad_verify loops for ever with g_mutex held (LPADVerifier has when).   *)
(* Times, bytes and messages are left out.                                 *)
(* Fault_... definitions are wrong variants that the specification does    *)
(* not use.                                                                *)
(***************************************************************************)
EXTENDS Integers, FiniteSets

CONSTANTS Names,           \* the benchmarks that may be asked for
          FLAGS_num, FLAGS_threads,
          FLAGS_reads,     \* negative: as many reads as FLAGS_num
          ReadThreads,     \* threads of "readrandom" (8 in the code)
          Thousand,        \* the divisor of num_ and reads_, and a batch (1000)
          SpinOps,         \* operations of "crc32c" and of "acquireload"
          MaxBenchmarks,   \* bound: names in FLAGS_benchmarks
          MaxExtraWrites   \* bound: writes of ReadWhileWriting's writer

ASSUME BenchDriverAssumption ==
    /\ FLAGS_num \in Nat \ {0} /\ FLAGS_threads \in Nat \ {0} /\ ReadThreads \in Nat \ {0}
    /\ FLAGS_reads \in Int /\ Thousand \in Nat \ {0} /\ SpinOps \in Nat
    /\ MaxBenchmarks \in Nat /\ MaxExtraWrites \in Nat

VARIABLES
    bm_existing,   \* FLAGS_use_existing_db
    bm_main,       \* Run and RunBenchmark: [pc, name, arg, spawned, ran]
    bm_shared,     \* SharedState: [alive, total, num_initialized, num_done, start, mu]
    bm_thread,     \* per tid: [pc, i, done, deleted]
    bm_db,         \* [ptr: db_ is "null", "live" or "freed", keys]
    bm_g_mutex,    \* the thread that holds the enclave's g_mutex for ever, or Nil
    bm_reported,   \* history: the last Report: [arg, done, keys]
    bm_misuse      \* history: the first use, delete or Open of a db_ that was not in the
                   \* state for it: "no", "open" (in OpenBench) or "other"
bm_vars == <<bm_existing, bm_main, bm_shared, bm_thread, bm_db, bm_g_mutex, bm_reported, bm_misuse>>

Nil == -1
AllThreads == 0 .. (IF FLAGS_threads > ReadThreads THEN FLAGS_threads ELSE ReadThreads)

-----------------------------------------------------------------------------
(* Run: the parameters of a benchmark *)

Reads == IF FLAGS_reads < 0 THEN FLAGS_num ELSE FLAGS_reads
Arg(body) == [body |-> body, seq |-> FALSE, fresh |-> FALSE, threads |-> FLAGS_threads,
              num |-> FLAGS_num, reads |-> Reads, entries_per_batch |-> 1]
Fill(seq) == [Arg("write") EXCEPT !.seq = seq, !.fresh = TRUE]
AtLeastOne(n) == IF n < 1 THEN 1 ELSE n

\* The dispatch on the name, parameters reset first.  fillsync and fill100K differ
\* in what a write costs only, and readreverse, readmissing and readhot in the keys
\* they touch.  The turns of a loop without a database are in reads: Snappy is not
\* built in (port_posix.h), so that snappycomp fails after one and snappyuncomp
\* before the first.
Parameters(name) ==
    CASE name = "open" -> [Arg("open") EXCEPT !.num = AtLeastOne(FLAGS_num \div (Thousand * 10))]
      [] name = "fillseq" -> Fill(TRUE)
      [] name = "fillbatch" -> [Fill(TRUE) EXCEPT !.entries_per_batch = Thousand]
      [] name = "fillrandom" -> Fill(FALSE)
      [] name = "overwrite" -> [Arg("write") EXCEPT !.fresh = FALSE]
      [] name \in {"fillsync", "fill100K"} -> [Fill(FALSE) EXCEPT !.num = @ \div Thousand]
      [] name \in {"readseq", "readreverse"} -> Arg("scan")
      [] name = "readrandom" -> [Arg("suget") EXCEPT !.threads = ReadThreads]
      [] name \in {"readmissing", "readhot"} -> Arg("get")
      [] name = "readrandomsmall" -> [Arg("suget") EXCEPT !.reads = @ \div Thousand]
      [] name = "seekrandom" -> Arg("seek")
      [] name \in {"deleteseq", "deleterandom"} -> [Arg("delete") EXCEPT !.seq = name = "deleteseq"]
      [] name = "readwhilewriting" -> [Arg("mixed") EXCEPT !.threads = @ + 1]
      [] name = "compact" -> Arg("compact")
      [] name \in {"crc32c", "acquireload"} -> [Arg("spin") EXCEPT !.reads = SpinOps]
      [] name = "snappycomp" -> [Arg("spin") EXCEPT !.reads = 1]
      [] name = "snappyuncomp" -> [Arg("spin") EXCEPT !.reads = 0]
      [] OTHER -> Arg("none")

MisusedIf(p) ==
    bm_misuse' = IF bm_misuse # "no" \/ ~p THEN bm_misuse
                 ELSE IF bm_main.arg.body = "open" THEN "open" ELSE "other"

Fault_FreshDB == [bm_db EXCEPT !.ptr = "live"]
Fault_NotReopened == [ptr |-> "freed", keys |-> {}]
FreshDB == [ptr |-> "live", keys |-> {}]

\* The part of Run in front of RunBenchmark: a benchmark that wants a fresh
\* database is skipped under --use_existing_db, and has it deleted, destroyed and
\* opened again otherwise.
RunOne(name) ==
    LET arg == Parameters(name)
        skip == arg.body = "none" \/ (arg.fresh /\ bm_existing)
    IN /\ bm_main.pc = "pick" /\ bm_main.ran < MaxBenchmarks
       /\ bm_main' = [bm_main EXCEPT !.name = name, !.arg = arg, !.ran = @ + 1, !.spawned = 0,
                                     !.pc = IF skip THEN "pick" ELSE "spawn"]
       /\ IF arg.fresh /\ ~skip
          THEN /\ bm_db' = FreshDB
               /\ MisusedIf(bm_db.ptr = "freed")
          ELSE UNCHANGED <<bm_db, bm_misuse>>
       /\ IF skip THEN UNCHANGED bm_shared
          ELSE bm_shared' = [alive |-> TRUE, total |-> arg.threads, num_initialized |-> 0,
                             num_done |-> 0, start |-> FALSE, mu |-> Nil]
       /\ UNCHANGED <<bm_existing, bm_thread, bm_g_mutex, bm_reported>>

\* The names are used up: ~Benchmark deletes db_.
RunEnds ==
    /\ bm_main.pc = "pick"
    /\ bm_main' = [bm_main EXCEPT !.pc = "over"]
    /\ bm_db' = [bm_db EXCEPT !.ptr = "null"]
    /\ MisusedIf(bm_db.ptr = "freed")
    /\ UNCHANGED <<bm_existing, bm_shared, bm_thread, bm_g_mutex, bm_reported>>

-----------------------------------------------------------------------------
(* RunBenchmark *)

Fault_Free == TRUE
Free == bm_shared.mu = Nil

StartThread ==
    /\ bm_main.pc = "spawn"
    /\ IF bm_main.spawned < bm_main.arg.threads
       THEN /\ bm_thread' = [bm_thread EXCEPT ![bm_main.spawned] =
                                [pc |-> "init", i |-> 0, done |-> 0, deleted |-> FALSE]]
            /\ bm_main' = [bm_main EXCEPT !.spawned = @ + 1]
       ELSE bm_main' = [bm_main EXCEPT !.pc = "initializing"] /\ UNCHANGED bm_thread
    /\ UNCHANGED <<bm_existing, bm_shared, bm_db, bm_g_mutex, bm_reported, bm_misuse>>

\* cv.SignalAll on the threads' part and on main's.
Fault_WakeMain(pc) == IF \E t \in AllThreads : bm_thread[t].pc = "asleep" THEN pc
                      ELSE IF pc = "asleep1" THEN "initializing"
                      ELSE IF pc = "asleep2" THEN "finishing" ELSE pc
WakeMain(pc) == IF pc = "asleep1" THEN "initializing"
                ELSE IF pc = "asleep2" THEN "finishing" ELSE pc
WakeThreads == [t \in AllThreads |-> [bm_thread[t] EXCEPT !.pc = IF @ = "asleep" THEN "ready" ELSE @]]

\* The first loop of RunBenchmark; when all are there, start is set.
AwaitInitialized ==
    /\ bm_main.pc = "initializing" /\ Free
    /\ IF bm_shared.num_initialized < bm_main.arg.threads
       THEN /\ bm_main' = [bm_main EXCEPT !.pc = "asleep1"]
            /\ UNCHANGED <<bm_shared, bm_thread>>
       ELSE /\ bm_main' = [bm_main EXCEPT !.pc = "finishing"]
            /\ bm_shared' = [bm_shared EXCEPT !.start = TRUE]
            /\ bm_thread' = WakeThreads
    /\ UNCHANGED <<bm_existing, bm_db, bm_g_mutex, bm_reported, bm_misuse>>

Fault_AllDone == bm_shared.num_done + 1 >= bm_main.arg.threads
AllDone == bm_shared.num_done >= bm_main.arg.threads

Threads(n) == 0 .. n - 1

Fault_StatsMerge(n) ==
    LET merged[t \in Threads(n)] == IF t = 0 THEN 0 ELSE merged[t - 1] + bm_thread[t].done
    IN merged[n - 1]

\* StatsMerge adds the statistics of the other threads into those of the first.
StatsMerge(n) ==
    LET merged[t \in Threads(n)] == IF t = 0 THEN bm_thread[0].done
                                    ELSE merged[t - 1] + bm_thread[t].done
    IN merged[n - 1]

\* The second loop; then StatsMerge and Report, the ThreadStates are deleted and shared
\* goes out of scope.
AwaitDone ==
    /\ bm_main.pc = "finishing" /\ Free
    /\ IF ~AllDone
       THEN /\ bm_main' = [bm_main EXCEPT !.pc = "asleep2"]
            /\ UNCHANGED <<bm_shared, bm_reported>>
       ELSE /\ bm_main' = [bm_main EXCEPT !.pc = "pick"]
            /\ bm_shared' = [bm_shared EXCEPT !.alive = FALSE]
            /\ bm_reported' = [arg |-> bm_main.arg, keys |-> bm_db.keys,
                               done |-> AtLeastOne(StatsMerge(bm_main.arg.threads))]
    /\ UNCHANGED <<bm_existing, bm_thread, bm_db, bm_g_mutex, bm_misuse>>

-----------------------------------------------------------------------------
(* ThreadBody *)

Fault_Awaits(shared) == FALSE
Awaits(shared) == ~shared.start

\* The first critical section, up to the first wait.
ThreadInit(t) ==
    LET shared == [bm_shared EXCEPT !.num_initialized = @ + 1]
    IN /\ bm_thread[t].pc = "init" /\ Free
       /\ bm_shared' = shared
       /\ bm_main' = IF shared.num_initialized >= shared.total
                     THEN [bm_main EXCEPT !.pc = WakeMain(@)] ELSE bm_main
       /\ bm_thread' = [bm_thread EXCEPT ![t].pc = IF Awaits(shared) THEN "asleep" ELSE "run"]
       /\ UNCHANGED <<bm_existing, bm_db, bm_g_mutex, bm_reported, bm_misuse>>

\* The wait of the first critical section: shared->start decides.
ThreadReady(t) ==
    /\ bm_thread[t].pc = "ready" /\ Free
    /\ bm_thread' = [bm_thread EXCEPT ![t].pc = IF Awaits(bm_shared) THEN "asleep" ELSE "run"]
    /\ UNCHANGED <<bm_existing, bm_main, bm_shared, bm_db, bm_g_mutex, bm_reported, bm_misuse>>

\* The last critical section: num_done is counted, all are signalled...
ThreadDone(t) ==
    LET shared == [bm_shared EXCEPT !.num_done = @ + 1, !.mu = t]
    IN /\ bm_thread[t].pc = "stop" /\ Free
       /\ bm_shared' = shared
       /\ bm_main' = IF shared.num_done >= shared.total
                     THEN [bm_main EXCEPT !.pc = WakeMain(@)] ELSE bm_main
       /\ bm_thread' = [bm_thread EXCEPT ![t].pc = "leaving"]
       /\ UNCHANGED <<bm_existing, bm_db, bm_g_mutex, bm_reported, bm_misuse>>

\* ... and ~MutexLock unlocks.
ThreadLeaves(t) ==
    /\ bm_thread[t].pc = "leaving"
    /\ bm_shared' = [bm_shared EXCEPT !.mu = Nil]
    /\ bm_thread' = [bm_thread EXCEPT ![t].pc = "gone"]
    /\ UNCHANGED <<bm_existing, bm_main, bm_db, bm_g_mutex, bm_reported, bm_misuse>>

-----------------------------------------------------------------------------
(* The methods: one turn of the loop of thread t *)

Ops(n, t) == [bm_thread EXCEPT ![t].i = @ + n, ![t].done = @ + n]
UsesDB == MisusedIf(bm_db.ptr # "live")

\* A batch: entries_per_batch_ keys from i on, or random.
BatchKeys(t, key) ==
    IF bm_main.arg.seq THEN bm_thread[t].i .. bm_thread[t].i + bm_main.arg.entries_per_batch - 1
    ELSE {key}

DoWrite(t, key) ==
    /\ bm_main.arg.body = "write" /\ bm_thread[t].i < bm_main.arg.num
    /\ bm_db' = [bm_db EXCEPT !.keys = @ \cup BatchKeys(t, key)]
    /\ bm_thread' = Ops(bm_main.arg.entries_per_batch, t)
    /\ UsesDB

DoDelete(t, key) ==
    /\ bm_main.arg.body = "delete" /\ bm_thread[t].i < bm_main.arg.num
    /\ bm_db' = [bm_db EXCEPT !.keys = @ \ BatchKeys(t, key)]
    /\ bm_thread' = Ops(bm_main.arg.entries_per_batch, t)
    /\ UsesDB

\* ReadMissing, ReadHot and SeekRandom.
Read(t) ==
    /\ bm_main.arg.body \in {"get", "seek"} /\ bm_thread[t].i < bm_main.arg.reads
    /\ bm_thread' = Ops(1, t)
    /\ UsesDB /\ UNCHANGED bm_db

\* ReadRandom, which the readers of ReadWhileWriting run too: SUGet between
\* ecall_preget1 and ecall_postget1, which need g_mutex...
Verifies(t) == bm_main.arg.body = "suget" \/ (bm_main.arg.body = "mixed" /\ t > 0)
VerifiedRead(t) ==
    /\ Verifies(t) /\ bm_thread[t].i < bm_main.arg.reads
    /\ bm_g_mutex = Nil
    /\ bm_thread' = Ops(1, t)
    /\ UsesDB /\ UNCHANGED bm_db

\* ... and which may hang: the write read is not newer than the history that preget
\* saw, and lpad_verify's inner loop does not change what it tests.
ReadHangs(t) ==
    /\ bm_thread[t].pc = "run"
    /\ Verifies(t) /\ bm_thread[t].i < bm_main.arg.reads
    /\ bm_g_mutex = Nil
    /\ bm_g_mutex' = t
    /\ UsesDB
    /\ UNCHANGED <<bm_existing, bm_main, bm_shared, bm_thread, bm_db, bm_reported>>

\* ReadSequential and ReadReverse: the iterator is a snapshot, at most reads_ steps.
Scan(t) ==
    /\ bm_main.arg.body = "scan"
    /\ bm_thread[t].i < bm_main.arg.reads /\ bm_thread[t].i < Cardinality(bm_db.keys)
    /\ bm_thread' = Ops(1, t)
    /\ UsesDB /\ UNCHANGED bm_db

\* OpenBench: delete db_, which leaves the pointer as it is, and Open, which
\* asserts that it is NULL.
OpenBench(t) ==
    /\ bm_main.arg.body = "open" /\ bm_thread[t].i < bm_main.arg.num
    /\ IF bm_thread[t].deleted
       THEN /\ MisusedIf(bm_db.ptr # "null")
            /\ bm_db' = [bm_db EXCEPT !.ptr = "live"]
            /\ bm_thread' = [Ops(1, t) EXCEPT ![t].deleted = FALSE]
       ELSE /\ UsesDB
            /\ bm_db' = [bm_db EXCEPT !.ptr = "freed"]
            /\ bm_thread' = [bm_thread EXCEPT ![t].deleted = TRUE]

\* Crc32c, AcquireLoad, SnappyCompress and SnappyUncompress.  Compact is one call
\* without an operation.
Spin(t) ==
    /\ bm_main.arg.body = "spin" /\ bm_thread[t].i < bm_main.arg.reads
    /\ bm_thread' = Ops(1, t)
    /\ UNCHANGED <<bm_db, bm_misuse>>
CompactOnce(t) ==
    /\ bm_main.arg.body = "compact" /\ bm_thread[t].i < 1
    /\ bm_thread' = [bm_thread EXCEPT ![t].i = 1]
    /\ UsesDB /\ UNCHANGED bm_db

Fault_OthersFinished == bm_shared.num_done >= bm_shared.num_initialized
OthersFinished == bm_shared.num_done + 1 >= bm_shared.num_initialized

\* ReadWhileWriting's writer: looks at shared under mu, then writes; its work is
\* not counted.
WriteAlong(t, key) ==
    /\ bm_main.arg.body = "mixed" /\ t = 0 /\ Free
    /\ ~OthersFinished
    /\ bm_thread' = [bm_thread EXCEPT ![t].i = IF @ < MaxExtraWrites THEN @ + 1 ELSE @]
    /\ bm_db' = [bm_db EXCEPT !.keys = @ \cup {key}]
    /\ UsesDB

Operate(t) ==
    \/ \E key \in 0 .. FLAGS_num - 1 : DoWrite(t, key) \/ DoDelete(t, key) \/ WriteAlong(t, key)
    \/ Read(t) \/ VerifiedRead(t) \/ Scan(t) \/ OpenBench(t) \/ Spin(t) \/ CompactOnce(t)

\* The method returns.
LoopOver(t) ==
    LET a == bm_main.arg
        i == bm_thread[t].i
    IN CASE a.body \in {"write", "delete", "open"} -> i >= a.num
         [] a.body = "scan" -> i >= a.reads \/ i >= Cardinality(bm_db.keys)
         [] a.body = "compact" -> i >= 1
         [] a.body = "mixed" /\ t = 0 -> Free /\ OthersFinished
         [] OTHER -> i >= a.reads

ThreadRuns(t) ==
    /\ bm_thread[t].pc = "run"
    /\ \/ Operate(t)
       \/ /\ LoopOver(t)
          /\ bm_thread' = [bm_thread EXCEPT ![t].pc = "stop"]
          /\ UNCHANGED <<bm_db, bm_misuse>>
    /\ UNCHANGED <<bm_existing, bm_main, bm_shared, bm_g_mutex, bm_reported>>

-----------------------------------------------------------------------------

\* The constructor and Open: the database is destroyed unless it is to be kept.
BenchDriverInit ==
    /\ bm_existing \in BOOLEAN
    /\ bm_db \in {[ptr |-> "live", keys |-> keys] :
                     keys \in IF bm_existing THEN {{0}} ELSE {{}}}
    /\ bm_main = [pc |-> "pick", name |-> "", arg |-> Arg("none"), spawned |-> 0, ran |-> 0]
    /\ bm_shared = [alive |-> FALSE, total |-> 0, num_initialized |-> 0, num_done |-> 0,
                    start |-> FALSE, mu |-> Nil]
    /\ bm_thread = [t \in AllThreads |-> [pc |-> "gone", i |-> 0, done |-> 0, deleted |-> FALSE]]
    /\ bm_g_mutex = Nil
    /\ bm_reported = [arg |-> Arg("none"), keys |-> {}, done |-> 0]
    /\ bm_misuse = "no"

BenchThread(t) ==
    \/ ThreadInit(t) \/ ThreadReady(t) \/ ThreadRuns(t) \/ ReadHangs(t)
    \/ ThreadDone(t) \/ ThreadLeaves(t)
BenchMain == StartThread \/ AwaitInitialized \/ AwaitDone

BenchDriverNext ==
    \/ \E name \in Names : RunOne(name)
    \/ RunEnds
    \/ BenchMain
    \/ \E t \in AllThreads : BenchThread(t)

-----------------------------------------------------------------------------
(* Properties *)

WholeBatches(n, step) == ((n + step - 1) \div step) * step
Expected(a, keys) ==
    CASE a.body \in {"write", "delete"} -> a.threads * WholeBatches(a.num, a.entries_per_batch)
      [] a.body = "open" -> a.threads * a.num
      [] a.body \in {"get", "suget", "seek", "spin"} -> a.threads * a.reads
      [] a.body = "mixed" -> (a.threads - 1) * a.reads
      [] a.body = "scan" -> a.threads * (IF Cardinality(keys) < a.reads THEN Cardinality(keys)
                                        ELSE a.reads)
      [] OTHER -> 0

\* RunBenchmark reports once every thread has done all of its work: the count is
\* that of all threads' operations, without those of ReadWhileWriting's writer.
ReportCountsAll ==
    bm_reported.arg.body # "none" =>
        bm_reported.done = AtLeastOne(Expected(bm_reported.arg, bm_reported.keys))

\* A fill benchmark leaves the keys it wrote and no others, whatever ran before it.
FillLeavesOnlyItsKeys ==
    bm_reported.arg.fresh =>
        /\ bm_reported.keys \subseteq 0 .. WholeBatches(FLAGS_num, bm_reported.arg.entries_per_batch) - 1
        /\ IF bm_reported.arg.seq
           THEN bm_reported.keys = 0 .. WholeBatches(bm_reported.arg.num, bm_reported.arg.entries_per_batch) - 1
           ELSE Cardinality(bm_reported.keys) <= bm_reported.arg.threads * bm_reported.arg.num

\* SharedState is on the stack of RunBenchmark: it is there, and mu is not held,
\* until the last thread has unlocked mu for the last time.
SharedOutlivesThreads ==
    (\E t \in AllThreads : bm_thread[t].pc # "gone") => bm_shared.alive

\* ReadWhileWriting's writer keeps writing until every reader has read all it was
\* to: the readers it counts are all of them, because none runs before all have
\* initialized.
WriterOutlastsReaders ==
    bm_main.arg.body = "mixed" /\ bm_thread[0].pc = "stop" =>
        \A t \in 1 .. bm_main.arg.threads - 1 : bm_thread[t].done = bm_main.arg.reads

\* A benchmark ends unless one of its reads hangs in lpad_verify, under weak fairness
\* of all threads: no wakeup of cv is lost, and ReadWhileWriting's writer notices that
\* it is alone.
BenchmarksEnd == bm_main.pc = "spawn" ~> (bm_main.pc = "pick" \/ bm_g_mutex # Nil)

\* Whatever benchmarks ran before, db_ is live wherever a method uses it and Run
\* deletes it.  (OpenBench deletes db_ without clearing it and calls Open, which
\* asserts that it is NULL; with several threads it deletes it twice.)
DBLiveWhenUsed == bm_misuse # "other"

\* The driver's barriers: a benchmark reports when all threads are done, over the keys it
\* is meant to run on, with shared state and database alive as long as they are used.
BenchmarksSound ==
    /\ ReportCountsAll
    /\ FillLeavesOnlyItsKeys
    /\ SharedOutlivesThreads
    /\ WriterOutlastsReaders
    /\ DBLiveWhenUsed
=============================================================================
