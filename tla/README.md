# A TLA+ model of LPAD

LPAD is a fork of LevelDB whose clients run every put and get between two calls
into an SGX enclave, where a verifier checks that the store answered in an order
consistent with real time.  A build with `VERIFY` also moves the merge of a
compaction into the enclave.  This directory models the store from the enclave's
lists down to what a crash leaves on disk: the parts that carry LPAD's promise,
and the parts of LevelDB that they rest on.

Paths below are relative to the repository; `db_impl.cpp`, `version_set.cpp` and
the like are in `App/integration/`.

## 1. Inventory

| Component | State | Operations | Meets |
|---|---|---|---|
| Enclave verifier (`Enclave/cc.cpp`, `op.h`) | `g_timer`, `g_id`, `pending_list`, `completed_list`, `history`, three mutexes | `enclave_preput`, `_postput`, `_preget`, `_postget`, `truncate`, `check`, `try_merge`, `lpad_verify` | the benchmark clients, through the numbers the store reports |
| Benchmark driver (`db_bench.cpp`) | `db_`, `SharedState`, `ThreadState` | `Run`, `RunBenchmark`, `ThreadBody`, the benchmarks | brackets `SUWrite`/`SUGet` with enclave calls; opens and deletes databases |
| Write path (`db_impl.cpp`) | `writers_`, `mem_`, `imm_`, `logfile_`, `bg_error_`, `LastSequence` | `Write`, `SUWrite`, `MakeRoomForWrite`, `BuildBatchGroup`, `TEST_CompactMemTable` | the background thread through `bg_cv_`; the log |
| Background scheduling (`db_impl.cpp`, `env_posix.cpp`) | `bg_compaction_scheduled_`, `manual_compaction_`, `shutting_down_`, the queue of `PosixEnv` | `MaybeScheduleCompaction`, `BackgroundCall`, `TEST_CompactRange`, `Schedule`, `BGThread`, `~DBImpl` | flushes and compactions of all databases of the process |
| Log-structured merge tree (`db_impl.cpp`, `version_set.cpp`) | levels of the current `Version`, `compact_pointer_`, snapshots, the running `Compaction` | `CompactMemTable`, `PickLevelForMemTableOutput`, `PickCompaction`, `CompactRange`, `DoCompactionWork` (both builds), `SUGet`, `GetSnapshot` | memtables, enclave merge, descriptor |
| Versions and file references (`version_set.cpp`) | list of `Version`s, reference counts, `allowed_seeks`, scores | `Get`, `UpdateStats`, `RecordReadSample`, `LogAndApply`, `Builder`, `DeleteObsoleteFiles` | readers with `mutex_` released |
| Enclave merge (`Enclave/merge_sort_1c.cpp`, callbacks in `db_impl.cpp`) | `my_arg`: input and output buffers and their indices; `g_*` of the drop rules | `onec_EnclCompact`, `onec_readKV`, `onec_writeKV`, `do_reload_1c`, `do_flush_1c`, `SU_flush_data` | called by `DoCompactionWork`, calls back out |
| Recovery and file life cycle (`db_impl.cpp`, `version_set.cpp`, `filename.cpp`, `env_posix.cpp`) | logs, tables, descriptors, `CURRENT`, temporary files; stdio buffers, page cache, directory; `pending_outputs_`, file numbers | `DB::Open`, `NewDB`, `Recover`, `RecoverLogFile`, `LogAndApply`, `SetCurrentFile`, `SyncDirIfManifest`, `DeleteObsoleteFiles` | everything that creates a file |
| Database lock (`env_posix.cpp`, `db_impl.cpp`) | `locks_`, the kernel's fcntl locks, the LOCK file | `LockFile`, `UnlockFile`, `DestroyDB` | other threads and processes |
| Memtable, skip list, arena (`memtable.cpp`, `skiplist.h`, `arena.cpp`) | nodes with atomic next pointers, blocks | `Insert` by one writer, lock-free reads, `Allocate` | write path, reads |
| Iterators (`db_iter.cpp`, `merger.cpp`, `two_level_iterator.cpp`) | position, direction, references | `Seek`, `Next`, `Prev` | Versions, memtables, blocks |
| Table cache and block cache (`cache.cpp`, `table_cache.cpp`) | hash table, LRU list, reference counts, `MmapLimiter` | `Insert`, `Lookup`, `Release`, `Erase`, `FindTable`, `Evict` | table reads, file deletion |
| Log format (`log_writer.cpp`, `log_reader.cpp`) | block offset, fragments | `AddRecord`, `ReadRecord` | log and descriptor |
| Table format (`table*.cpp`, `block*.cpp`, `format.cpp`, `filter_block.cpp`, `bloom.cpp`) | blocks, restart points, filters | build, seek, iterate | tables |
| Encodings (`coding.cpp`, `version_edit.cpp`, `write_batch.cpp`, `logging.cpp`, `filename.cpp`) | none | encode, decode, parse | all of the above |
| Repair (`repair.cpp`) | lists of files and tables, the new descriptor | `RepairDB` | logs, tables, descriptor |
| Shell (C bindings, dump tool, statistics, SGX bridge, hashing) | none of the store's | wrappers and formatting | |

`App/untrusted`, `App/zerocpy` and `Enclave/zerocpy` are earlier prototypes of
the same files that the Makefile does not compile.

Hard in this code: the leader of a write group works with `mutex_` released; one
background thread serves all databases and flushes in the middle of a compaction;
readers use versions, tables and memtables without a lock; the enclave's
operations are stamped outside the mutex that orders them; group commit reports
numbers by position and not by entry; buffers and drop-rule state are globals
that survive a compaction; a crash can fall between any two file operations, and
what it leaves depends on which of three buffers a byte was in.  What makes each
part correct is stated in section 4.  `PROJECT.json` lists the hazards one by one
with the line where each bites and the property that would catch it.

## 2. Modules

| Module | Models | State and actions |
|---|---|---|
| `AtomicWrites` | what a write promises: it appears at one instant of its call, whole, or reports an error | abstract specification |
| `WriteQueue` | group commit, at the grain of `mutex_` | `mutex_`, the deque `writers_`, per-thread `pc` and leader's locals, condition variables as `signalled`; one action per stretch of code between lock operations |
| `LPADVerifier` | the verifier around an atomic store | the enclave's lists and counters under their code names; each mutex protects one action, `g_mutex` is explicit because some paths keep it |
| `LPADBench` | `LPADVerifier` and `WriteQueue` composed: the numbers passed to `ecall_postput1` are those `SUWrite` reports | both instances, joined in `CallStore` and `StoreReturns` |
| `Background` | the queue and thread of `PosixEnv`, several databases on it that are opened and deleted, waiting callers | what is scheduled, queued and running; a range has a number of pieces left |
| `BenchDriver` | `Run`, `RunBenchmark`, `ThreadBody`, `SharedState` and the benchmarks' loops | main thread, benchmark threads, `mu` and `cv`, `db_` as a set of keys, the enclave's `g_mutex` when a read hangs in it |
| `Records` | internal keys, the comparator's order and memcmp's order, the reference merge | operators |
| `EnclaveMerge` | `onec_EnclCompact` with its shared buffers, over several compactions | `in_index`, `data`, `out` as the previous compaction left them |
| `LSMTree` | memtables, levels, flushes, background and manual compactions of both builds, snapshots, `SUGet` | one compaction under way (`c`), `files` of the current Version; pick, flush, merge and install are separate actions |
| `VersionSet` | Versions and FileMetaData with their reference counts, readers and iterators outside `mutex_`, seek charges, scores, `LogAndApply` with its unlock | `vs_versions`, `vs_meta`, one record per reader, the job of the background thread |
| `Recovery` | files, `DB::Open`, descriptor edits, `DeleteObsoleteFiles`, crashes | the disk, the process (lost in a crash) and history variables for what must survive |
| `PosixFiles` | the file operations underneath: stdio buffers, page cache, directory, syncs and renames | the sequence of operations of `NewDB`, Open, `LogAndApply` and the collector, with a crash or power loss after any of them |
| `FileLock` | `LockFile`, `UnlockFile`, `DestroyDB` | one handle per attempt, inodes, fcntl locks per process |
| `MemTable` | the skip list, one load or store of a link per step | the insertion under way, one record per reader |
| `Arena` | where allocations go | blocks and pieces |
| `DBIter` | `NewInternalIterator`, `MergingIterator`, `DBIter` | runs (memtables and tables) with references, one iterator |
| `TableCache` | `HandleTable`, one shard of `LRUCache`, `FindTable`, `MmapLimiter` | entries, chains, LRU list, readers |
| `LogFormat` | `Writer` and `Reader` over small blocks | the file as cells, fragments, the reader's buffer |
| `TableFormat` | `TableBuilder`, `BlockBuilder`, `Block::Iter`, `FilterBlock`, `Table`, `TwoLevelIterator` | the builder and the file, an iterator on it |
| `Encodings` | varints, version edits, write batches, file names | what is encoded grows step by step, the decoders are operators |
| `Repair` | `Repairer` after a database has written, flushed and compacted, with damage and crashes | files, the repairer's lists, the descriptor |
| `...Proofs` | theorems about `WriteQueue`, `LPADVerifier` and their composition `LPADBench`, `Recovery`, `VersionSet`, `EnclaveMerge`; `ComponentProofs` about `Background`, `BenchDriver`, `FileLock`, `Repair`, `Arena` and `MemTable` | inductive invariants |
| `NatLemmas` | extrema, division, sums and loops over the naturals, for the proofs | lemmas |
| `MC...` | the instances TLC checks | |

Components that share nothing are checked in one run: `MCFormats`, `MCSharing`
and `MCProgress` choose a `component` in the initial state and only that one
moves, so the state space is the sum of the components' and not their product.
In the same way `LSMTree` takes a set of `Instances` and a behaviour keeps one.

Operators named `Fault_...` are wrong variants of the definition below them.  No
specification uses them; `PROJECT.json` names, for every property and for the
parts it is made of, variants that break it, so a property that could not fail
would be noticed.

How actions correspond to code.  An action is all the code between two points
where another thread can run, trailing calls included: `WriteQueue!Finish` pops
the group, signals, wakes the new head and returns; `Recovery!FlushInstall`
syncs, installs and hands over to `DeleteObsoleteFiles`, which runs with `mutex_`
held (`pc = "purge"` lets nothing but a crash in).  Abstractions:

- Keys are numbers, values are identified by sequence numbers.  Sizes in bytes
  are not kept in `LSMTree` and `Recovery`: where the code compares a size with a
  limit, both outcomes are allowed (an instance with `cut = FALSE` leaves out the
  cut of a compaction output, for compactions too small to fill a table).
- The tag of an internal key is its type byte and the digits of the sequence
  number in base `ByteBase`, least significant first, so that memcmp's order is
  modelled with small numbers (256 and 7 in the code).
- `LSMTree` keeps file numbers at level 0 only, where they order files.  The
  unlocked write of the descriptor in `LogAndApply` is one step with its install
  in `LSMTree`; `Recovery` and `VersionSet` split it.
- A spurious wake-up of a condition variable finds the loop condition false and
  waits again, so it is not a step.
- `Recovery` treats a Version as a set of table numbers and a compaction as the
  union of its inputs; levels and drop rules are `LSMTree`'s.  It takes a step of
  Open or of a flush as durable or not; `PosixFiles` has the appends, flushes and
  syncs each step is made of.
- In `Recovery` an append to the log that fails leaves the log `torn` and in use,
  as `Write` does.  Whether the reader returns a record appended behind it depends
  on the block it lies in (`LogFormat`, `Spared`), so it is returned or becomes one
  of `lost`, either way.  The failed record itself is never whole in the file:
  stdio drops its buffer when `fflush` fails, and the trailer, whose status the
  writer ignores, is at most six bytes into an empty buffer.
- `PosixFiles` assumes of the file system that directory operations survive a
  power loss in the order they were made, and that unsynced data is not written
  back ahead of the directory operations that came before it.
- Memory is sequentially consistent in `MemTable`, which is what the acquire and
  release accesses of `atomic_pointer.h` give the links; `max_height_`, stored
  without a barrier, may be read as any value it has had.
- A checksum is a mark that damage destroys, and a hash a constant function:
  `LogFormat` and `TableFormat` say what the code does when a checksum fails,
  never that it does.
- Widths are parameters: `Encodings` has varint groups of two bits and integers
  of five and nine, so that every boundary of 7, 32 and 64 has its counterpart.
- In `BenchDriver` a call of the database is atomic; `LPADBench`, `LSMTree` and
  `DBIter` have the insides.  A read between `ecall_preget1` and `ecall_postget1`
  (`ReadRandom`, and with it the readers of `ReadWhileWriting`) may never return:
  `ReadHangs` is the loop of `lpad_verify`, entered with `g_mutex` held, and every
  other verified read then waits for that mutex.  The enclave calls around a write
  return: no honest store is refused (`LPADVerifier`, `LPADBench`), and no benchmark
  has verified writes beside verified reads.  Benchmarks that differ only in the cost of a write
  or in the keys they touch are represented by one of them.

## 3. Runs

`tlc -config <cfg> <module>`; the passing ones take between half a minute and
about four minutes with two workers.

| Run | Instance | Result |
|---|---|---|
| `write_queue` | three clients, one call each out of a two-entry batch, a sync put and a NULL batch; memtable of one entry, a level 0 that opens empty or at the stop trigger, one I/O failure | all safety properties, the refinement of `AtomicWrites` and both liveness properties hold |
| `bench_writes` | three writers through the real write path | no accusation; at rest the history has every write |
| `lsm` | four instances: one `CompactRange` over new tables cut anywhere; two snapshots and a failure; the `VERIFY` build with a failure; background compactions of a tree with a gap while memtables are flushed into it | levels disjoint, newer above older, reads right, the call returns |
| `recovery` | two writes, two crashes of either kind at any step, two I/O failures (failed appends among them), one compaction or move, one reader | nothing lost but what Open had to go on without after a failure, no needed file deleted, numbers fresh, Open succeeds |
| `formats` | `LogFormat`: three records in blocks of seven bytes, one fault; `TableFormat`: every set of up to four of six keys, two block sizes, one damaged block, with and without filters; `Encodings`: edits of two fields, batches of four records, names of four digits; `Arena`: four pieces; `DBIter`: two keys, four writes, three runs | what is written is read back; iterators show one state |
| `sharing` | `LPADVerifier`: three threads, puts and gets; `VersionSet`: three flushes, three levels, one reader, one failure; `TableCache`: two readers, three tables, capacity two; `MemTable`: three entries of height up to two, one reader with two reads; `FileLock`: three attempts in two processes; `Repair`: three writes, seven files, two faults; `PosixFiles`: two tables, two crashes, one failure | all properties hold |
| `progress` | `Background`: two databases, three callers, one error; `BenchDriver`: any list of two benchmarks, two threads; `EnclaveMerge`: two compactions of all inputs of two channels, two keys and up to four records, buffers of two records | all properties hold; everything that waits or loops ends, a benchmark unless one of its verified reads hangs in the enclave |
| `verifier_get_hangs`, `lsm_verify_order`, `lsm_split_key`, `lsm_flush_in_gap`, `recovery_torn_log` | the smallest instance that shows it | violated: section 6 |

Why the bounds are enough to be interesting.  Three writers make a leader, a
follower and a writer outside the group; one more adds only followers.  A
two-entry batch exposes a partly inserted one.  In the verifier three threads
allow a gap in the timestamps, an operation behind it and one that closes it.
Four records through buffers of two force a refill and a flush in the middle of a
merge, and a second compaction starts from what the first left.  Three levels are
the least with a level that is neither level 0 nor the last; three records of two
keys are the least with a shadowed record, its shadow and a neighbour.  In
`recovery` two writes give two logs, or a table and a log, or a flush inside a
compaction; a second crash falls into the Open that repairs the first; two failures are a
failed append and a failure of the Open that reads the log it tore.  The
instance with three writes was searched for over six million states without a
violation but is too large for a regular run.  Blocks of seven bytes with headers
of three make every record size leave a different remainder, a trailer included.
Two databases on one background thread are the least for work queued behind
another's; two callers of one database take turns with `manual_compaction_`.
Three tables in a cache of two force an eviction, and a hash table that starts
with one bucket is resized under way.

## 4. Properties

A run checks the properties in bold; the others are the named parts of which a
bold one is the conjunction.

`WriteQueue`: **`SingleLogger`** (the claim of the comment that lets the leader
unlock), **`NoLostWakeup`** (signalled exactly when its wait is over),
**`EntriesExact`** (`TypeOK`, `SequencesDistinct`, `BatchesAtomic`),
**`AnswersHonest`** (`SyncedWhenAcknowledged`, `ErrorIsSticky`),
**`ImplementsAtomicWrites`**, and the liveness properties **`EveryCallReturns`**
and **`ImmIsFlushed`**.

`LPADVerifier`: **`TypeOK`**, **`HonestStoreAccepted`** (an atomic store is never
accused and no `postput` leaves `g_mutex` locked), **`HistoryIsPrefix`** (each
write is in exactly one of the history, `completed_list` and in flight, and
nothing appendable is left), **`PendingAreOpen`**.  `LPADBench`: the same for the
real write path, **`BenchAccepted`**, and **`HistoryCatchesUp`**.  These two are
the point of LPAD: group commit gives followers `sequence + i` and the leader the
last number, so numbers are permuted within a group, and the verifier accepts
that only because members of a group overlap in real time.

`EnclaveMerge`: **`OutputIsMerge`**, **`BuffersSound`** (`IndicesInRange`;
`BuffersLeftClean`, on which the next compaction relies because nothing resets
`my_arg`), **`MergeEnds`**.

`LSMTree`: **`SUGetAgrees`** against the history of writes, at the latest state
and every open snapshot; **`NewerAbove`** and **`TreeSound`** (`TypeOK`,
`LevelsDisjoint`, `TablesSorted`), which the search and the drop rules rely on;
**`ManualReturns`**.

`VersionSet`: **`VersionsKept`** (`VersionRefsExact`, `TablesKept`: nothing a
thread may still read is freed or deleted, and nothing leaks);
**`VersionReadsSound`** (`VersionReadsAgree`, `OffsetsAgree`,
`SeeksChargeOwnVersion`).

`Recovery`: **`NothingLost`** (options.h: a process crash loses no write, a power
loss no synced one; stronger, whatever an Open or a flush has put in a table also
survives).  It excepts two kinds of records, from the Open on that went on without
them: those of a log which that Open failed to replay, and those appended behind a
failed append that the reader dropped.  Without an I/O failure it excepts nothing.
**`AcknowledgedSurvive`** is the documented promise without the second exception;
the code breaks it (`recovery_torn_log`).  Further **`NeededTablesExist`**, **`NumbersFresh`** (`TypeOK`,
`NumbersNotReused`, `FileNumbersFresh`), **`OpensAgain`**.  `PosixFiles`:
**`CrashKeepsTables`**, the durability that `Recovery` takes for granted.

`FileLock`: **`LockSound`** (`LockExclusive`, `LockTableExact`).  `TableCache`:
**`CacheExact`** (`RefsExact`, `TableMatchesList`, `UsageBounded`,
`MappingsReturned`).  `MemTable`: **`ListReadsExact`** (`NoUnsetLink`,
`LevelsNested`, `GetIsExact`, `NothingSkipped`).  `Arena`: **`PiecesDisjoint`**.
`DBIter`: **`IteratorStable`** (`IteratorIsSnapshot`, `RunsHeld`).  `Repair`:
**`RepairSound`** (`RepairKeepsReadable`, `RepairNumbersFresh`).

`LogFormat`: **`LogReadExact`** (`ReadsOnlyRecords`, `SparedRecordsRead`,
`TornTailIsSilent`).  `TableFormat`: **`TableReadsExact`** (`TableGetExact`,
`TableIterExact`, `TableScanComplete`, `OffsetsMonotone`).  `Encodings`:
**`DecodersInvert`** (`EditRoundTrip`, `VarintRoundTrip`, `BatchRoundTrip`,
`BatchCutRefused`, `NamesParse`).

`Background`: **`BackgroundSound`** (`ScheduledIsExact`, `WaitersHaveAHope`,
`ManualCompacted`, `CancelledOnlyOnStop`), **`BackgroundProgress`**.
`BenchDriver`: **`BenchmarksSound`** (`ReportCountsAll`, `FillLeavesOnlyItsKeys`,
`SharedOutlivesThreads`, `WriterOutlastsReaders`, `DBLiveWhenUsed`),
**`BenchmarksEnd`** (a benchmark that has started ends, or one of its verified
reads hangs with `g_mutex` held; that this happens is `verifier_get_hangs`).

Fairness is weak and only of threads that can run: the background thread, the
clients inside a call, a destructor whose wait is over, the benchmark's threads
taken together, the enclave inside a call.  `mutex_` is not assumed fair: the
queue of writers, not the lock, decides who leads, and `MCProgress` asks only
that some caller runs while callers are awake.  Nothing makes a client call, and
no call has to fail.  In `LSMTree` the formula writes weak fairness out with
explicit enabling conditions, because computing `ENABLED` of those actions is
slow in TLC; each condition is the disjunction of the guards of its actions.

`formats`, `sharing` and `progress` do not check for deadlock: their components
are bounded and stop when the bounds are used up.  What must not be stuck before
that is stated as liveness, or as `WaitersHaveAHope`.

## 5. Proofs

`tlapm <module>` checks a proof.  Each theorem is about every value of the
constants; the run of section 3 that checks the same formula does so for one.
None of the properties is inductive, so each proof has an inductive invariant,
which TLC checked on an instance before it was proved, one lemma per action, and
under it one step per conjunct the action can disturb.

| Module | Theorem | Property |
|---|---|---|
| `LPADVerifierProofs` | `Invariance`, `TypeCorrect`, `HonestStoreNeverAccused`, `HistoryIsLongestPrefix`, `PendingNeverLeaks` | `IInv`, `TypeOK`, `HonestStoreAccepted`, `HistoryIsPrefix`, `PendingAreOpen` |
| `WriteQueueProofs` | `WriteQueueInvariant`, `OneLogger`, `WakeupsExact`, `AnswersAreHonest`, `EntriesAreExact` | `WInv`, `SingleLogger`, `NoLostWakeup`, `AnswersHonest`, `EntriesExact` |
| `WriteQueueProofs` | `WritesAreAtomic` | `ImplementsAtomicWrites` |
| `LPADBenchProofs` | `BenchmarkAccepted`, `BenchmarkCatchesUp` | `BenchAccepted`, `HistoryCatchesUp` |
| `RecoveryProofs` | `RecoveryInvariant`, `NoWriteLost`, `NoTableLost`, `NoNumberReused`, `AlwaysOpens` | `RecInv /\ FailInv`, `NothingLost`, `NeededTablesExist`, `NumbersFresh`, `OpensAgain` |
| `VersionSetProofs` | `VersionsAreKept` | `VersionsKept` |
| `EnclaveMergeProofs` | `BuffersAreSound` | `BuffersSound` |
| `ComponentProofs` | `BackgroundIsSound`, `BenchmarksAreSound`, `OneUser`, `RepairIsSound`, `ArenaPiecesDisjoint`, `ListReadsAreExact` | `BackgroundSound`, `BenchmarksSound`, `LockSound`, `RepairSound`, `PiecesDisjoint`, `ListReadsExact` |

**Verifier.**  For any set of threads and any number of operations; the
assumptions are those of `LPADVerifier`: `NoThread` is no thread, `Kinds` is a
subset of put and get, `MaxOps` is a natural number.  `IInv` adds
`IdsInv` (ids of open operations are distinct and index `pending_list`),
`KindInv` (a thread is in the second call of its own kind of operation),
`ClockInv` (no recorded time lies in the future), `PlaceInv` (where each number
the store has given out is) and `OrderInv`: an operation began before any
operation with a later timestamp ended, for every pair out of `history`,
`completed_list` and the operations in flight.  `OrderInv` is what makes `check`
and `try_merge` accept: an end time is drawn after the store's effect, which
comes after the start of everything numbered before it.  The step that needs work
is `enclave_postput`: `CompletedFacts` carries `OrderInv` over to the enlarged
`completed_list`, `TruncatedRun` says that `truncate` takes exactly the run up to
the next gap, and `PostPutEffect` puts them together.

**Write path.**  For any clients, requests, limits and failures.
`ConstantsAssumption` says that the requests are well-formed (a NULL batch has no
entries and is not sync, which is how `TEST_CompactMemTable` calls) and that the
limits are natural numbers in the order of `dbformat.h`.  `WInv` is needed because
everything rests on what a leader leaves behind when it releases `mutex_`:
`QueueInv` (a client is on `writers_` once, exactly when it leads or waits
undone, and the leader is first), `MutexInv`, `GroupInv` (while a leader commits,
its group is still the head of the queue; no sync writer follows a leader that
does not sync), `WakeInv`, `SyncInv` and `ErrInv` (what a completed follower may
be told), `SeqInv` (a group's numbers are above `LastSequence`, up to the one its
leader will store), `BatchInv` (what is published, and what a group will publish,
is closed under batches).  `BuildBatchGroup`'s sums and its cut are recursive
functions of the position in the queue (`SizeTo`, `CountTo`); the proofs need
only that they satisfy their recursion and grow (`SumExists` and `PartialSums` of
`NatLemmas`).

**Refinement.**  `AtomicWrites` has three actions: a client calls, a set of
pending batches takes effect together under the next free numbers, or a call
fails.  The mapping hides the queue and the tables: `RInv` adds to `WInv`
`PublishInv` (the entries above `LastSequence` are exactly those of the group
being committed, in consecutive runs, one per member) and `ReturnInv` (one answer
per finished call).  `Enter` is the abstract call.  The instant at which a write takes
effect is `Finish` of its group's leader, which stores `LastSequence`: by
`RangesFill` the runs fill the numbers up to it without a gap.  A group whose log
record failed, and a leader that gets no room, fail.  Each other action is shown
to stutter, which is where a half-inserted group has to be invisible.

**Verifier over the write path.**  The result LPAD rests on: `SUWrite` as it is,
with its groups, never looks dishonest to the enclave.  It is proved for any
threads, writes, group limits, memtables and level-0 limits.  `BenchAssumption` is
what `DoWrite` of `db_bench.cpp` does: batches of one entry, and an exit at the
first write that fails, so `MaxFaults` is 0.  (With several entries in a batch the
numbers `sequence + i` that a leader gives its followers are not those of their
entries.)
The proof maps the composition to `LPADVerifier`, for which the same is proved
with a store in which a put takes effect at one instant.  Here the instant is
`Finish` of the leader of the group: all calls of the group are `Committed` at
once, followers that still sleep included, and the mapped client has left the
store with the number that `Number` reads off the queue.  So one step of the
write path is a whole group of the mapped store's steps, which is `SUWriteGroup`
in `LPADVerifierProofs`; it keeps `IInv` as the single step does.  That needs
from `WriteQueueProofs` that the decided calls have numbers
`LastSequence + 1, ...` without a gap, each once, and that a client returns with
the number its leader wrote into its `Writer` (`UInv`, `ClientNumbers`,
`NumberReturned`).  `LinkInv` ties a client's place in the enclave protocol to
its place in `SUWrite`.

**Recovery.**  For any number of writes, crashes, failures (failed appends
included), compactions and readers; the assumption is only that the bounds are
natural numbers.  `NothingLost` is proved with its exceptions and with the bound on
them: `FailInv` says that while nothing has failed no log is torn and nothing was
skipped or dropped, so that the exceptions are empty.  A *view* is
what `VersionSet::Recover` makes of the descriptor `CURRENT` names, cut at any
edit behind its synced part: a power loss picks one of `Views`, a process crash
leaves all of it, `Full`.  The heart of `RecInv` is `ViewInv`: every view is good
(`GoodView`), that is, its tables exist and are complete, its file numbers lie
below its next one, no sequence number occurs twice in what an Open with it reads
(`Reach`: its tables and the logs from its log number on), and its tables with
the synced parts of its logs have every durable record; and what an Open with
`Full` reads has every acknowledged one.  The properties
alone are not inductive because they speak of an open database only: `ViewInv`
carries them over a crash, `OpenInv`, `ReplayInv` and `LaterInv` through the
stages of Open (the logs still to replay and the tables made of the others hold
what is acknowledged), and `UpInv` while it is open: `UpExact` says that until an
error the descriptor is what is installed and, while a flush or a compaction is
being logged, its edit, which is why `DeleteObsoleteFiles` must not run after an
error; `UpRecords` and `UpSequences` say where the records of `mem_` and `imm_`
are on disk and that `LastSequence` is past them all; `NumberInv` (every
descriptor but the first is older than some log) is what makes the number of the
next log new after Opens that failed half-way.  `ManifestViews` says how an
append, a sync and a cut change the views.

**Versions.**  For any readers, keys, memtables, levels and triggers, and any number
of reads, flushes, compactions and failures; the assumptions are that readers and
keys are finitely many and that the triggers and level sizes are positive.
`VsInv` counts on both sides of every release of `mutex_`: `RefState` says that
each table's count is the number of Versions that list it, with the one
`LogAndApply` has built and not yet installed; `Held`, that each Version's count is
the number of its holders (`current_`, readers, the flush, the compaction) and that
exactly the held ones are alive.  `Ref`, `Unref` with `~Version`, `UpdateStats`,
`Builder` and `AppendVersion` are one lemma each about these two, and every action
is a composition of them.  The rest of `VsInv` is what the holders rely on: the
table a reader charges belongs to the Version it read (`ReadersInv`), the table
being flushed is in `pending_outputs_` until the edit has it and no other table has
its number (`FlushInv`), and the inputs of the compaction are tables of the
Version it holds (`JobInv`).  `PickCompaction` needs that `Finalize`'s loop finds a
level (`BestExists`, with the scores as fractions multiplied out), that a level
which scores 1 has tables, and that `GetOverlappingInputs` only returns tables of
its level.

**Memtable.**  `ListReadsAreExact` is for any keys, `kMaxHeight`, readers and
number of reads.  The invariant says of each level that its links form a chain in
key order without holes (`ChainInv`), that levels are nested and the ones above
`max_height_` empty (`NestInv`), that `prev` of the insertion under way is still
the place found for it (`InsertInv`, which uses that there is one writer), and of
each search that it stands on a linked node before its target (`ReaderInv`).
`ArenaPiecesDisjoint` needs that the rest of the current block is behind all its
pieces; it assumes that block sizes are multiples of the alignment, as 4096 is.

**Background.**  For any databases, callers, pieces of a range, needed
compactions and errors.  The flag `bg_compaction_scheduled_` is tied to the one
item a database has in the queue or in the thread (`ItemInv`, `AwakeInv`), work
to do in a database without an error is scheduled (`WorkInv`), callers in a call
keep the database open (`CallerInv`), and `manual_compaction_` belongs to a caller
still in its loop (`ManualInv`, `CompactingInv`).  `MaybeScheduleCompaction` is one
lemma that every action uses.

**Benchmark driver.**  For any benchmarks, threads, operations, reads and batch
size, reads that hang in the enclave included; the assumptions are that the flags
but `FLAGS_reads` (any integer) are positive.  `BarrierInv` is the protocol of `mu`,
`cv` and the three fields of `SharedState`: the counters are the numbers of threads
past each barrier, `start` is set when all have initialized, so nobody runs before,
and `mu` is held by the thread that leaves.  Hence a main thread that finds
`num_done` complete and `mu` free is alone, and a writer that counts one less knows
that it is the last (`EveryThread`, `WriterIsLast`).  `CountsInv` says how far each
thread may be and where it stops (`Goal`), `FillInv` which keys a fill has written
by then (for random keys, that each is some operation's, which bounds their
number), and `PtrInv` that `db_` dangles only between the delete and the Open of
`OpenBench`.  `StatsMerge` is a recursive function of the thread; over threads with
equal work it is a product (`MergeAdds`).

**Enclave merge.**  For any number of channels, buffer sizes and inputs.  The
invariant says that an index is -1 or inside what the last reload put in the
buffer, and that channels not read yet, or not there, are as a finished merge
leaves them: nothing resets `my_arg`, so the second compaction needs that of the
first.

**Lock.**  For any processes, handles and LOCK files.  Until one of the events
recorded in `fl_dropped`, all descriptors are of the file LOCK names and its
kernel lock is the holder's (`NotDroppedInv`); one attempt per process is past
the table (`EntryInv`).

**Repair.**  For any keys, writes, files, damage and interruptions; the assumption
is that the number a damaged record may show is above all that were written.
`RpHadInv` is the core: each record that could be read when the repair began is
in a file of the Repairer's lists, readable, or something failed (a `GetFileSize`
that makes `ScanTable` drop the table too) and it is in a file or under `lost/`.
A key that does not parse is an entry without a sequence number, which the scan
passes over.  `RpFoundInv` says that the lists name files of their
kind, that the numbers still to be given are unused and that `max_sequence` of a
listed table is that of its entries, which `WriteDescriptor` takes the maximum of.

**Only model-checked.**  Liveness and `ENABLED` are out of the prover's reach, and
so is what recursion over data computes for every input: `OutputIsMerge`,
`DecodersInvert`, `TableReadsExact`, `LogReadExact`, `CacheExact` and
`IteratorStable` (their modules decode, merge or walk chains recursively).  The
invariants of `LSMTree` and `PosixFiles` are checked only as well, and so is
`VersionReadsSound`, which is about what the levels of a Version hold.

## 6. Disagreements met while modelling

Shown by a run (counterexamples come with it):

- `verifier_get_hangs`: the inner loop of `lpad_verify` (`Enclave/cc.cpp:59`)
  tests variables it does not change; a get of a version the history covers never
  returns and keeps `g_mutex`.  The benchmarks `readrandom`, `readrandomsmall` and
  `readwhilewriting` then do not end.
- `lsm_verify_order`: the enclave merges by memcmp, so rule (A) of
  `SU_flush_data` may drop the newer of two records.
- `lsm_split_key`: an output table may end between two versions of a user key;
  the tables are then compacted separately and the older version can end up
  above the newer one.
- `lsm_flush_in_gap`: a manual compaction of two level-1 tables with a gap between
  them may produce an output across the gap while the flush inside it places a
  table there at level 2, against "Make sure there is no overlap in levels > 0"
  (`version_set.cpp:853`).
- `recovery_torn_log`: a failed `AddRecord` (`db_impl.cpp:1714`) does not set
  `bg_error_`, and the log with the torn record stays in use.  Later writes in it
  are acknowledged, synced ones too, and the reader drops them with the rest of the
  block (`log_reader.cpp:236`), against "if it is just the process that crashes
  [...] no writes will be lost" (`options.h:176`).

Seen in the models or while writing them, not kept as runs:

- `Version::Get` reads `saver.state` before anything is stored in it when no table
  is searched (`version_set.cpp:436`), and may report an absent key as found, against
  `db.h:84`.  `VersionGet` has both answers; `VersionReadsAgree` says that a key some
  table holds is never answered so.
- A NULL batch that queues behind a leader joins its group
  (`db_impl.cpp:1791`), so `TEST_CompactMemTable` may return without a flush
  (`db_impl.h:59` says it forces one); and it shifts the numbers reported to the
  followers (`db_impl.cpp:1813`), which are then no longer distinct.
- The same cut as in `lsm_split_key` lets a deletion be dropped while an older
  value of the key sits in a neighbouring table of the output level.
- `g_current_user_key`, `g_has_current_user_key` and `g_last_sequence_for_key`
  (`db_impl.cpp:1062`) outlive a compaction: the first key of the next one may be
  taken for hidden and lose all its records.
- With snapshots the `VERIFY` build adds keys to a `TableBuilder` out of order
  (`table_builder.h:45`).
- The `VERIFY` build ignores the status of `SU_flush_data` (`db_impl.cpp:84`) and
  installs the table it failed to write.
- `TEST_CompactRange` clears `manual_compaction_` when it sees `bg_error_` or a
  shutdown (`db_impl.cpp:701`); a background thread in that compaction
  dereferences it afterwards (`db_impl.cpp:849`).  `CancelledOnlyOnStop` says
  that nothing else leads there.
- `DBImpl::Recover` overwrites the status of `RecoverLogFile` with that of the
  next log (`db_impl.cpp:453`), against "Reflect errors immediately so that
  conditions like full file-systems cause the DB::Open() to fail"
  (`db_impl.cpp:546`).  `Recovery` models it; the records of such a log are
  the first of the two kinds that `NothingLost` excepts (`skipped`; those behind a
  failed append are `dropped`).
- `NewDB` does not sync the descriptor that the synced `CURRENT` names; a power
  loss during the first Open leaves a database that cannot be opened.
  `OpensAgain` and `CrashKeepsTables` therefore except databases that were never
  open.  The rename of `CURRENT` in a later Open is not synced either, until the
  next sync of the descriptor syncs the directory; `CrashKeepsTables` shows that
  the old descriptor then still leads to every table.
- fcntl drops a process's lock when any descriptor of the file is closed
  (`env_posix.cpp:423`), so a second `LockFile` of the same process that fails
  takes the first one's lock away; and `DestroyDB` unlinks LOCK.  `LockExclusive`
  names the three events after which two processes may hold a lock.
- `OpenBench` deletes `db_` without setting it to NULL and calls `Open`, which
  asserts that it is NULL; with several threads it deletes it twice.
- `db_bench.cpp` says "fillsync -- write N/100 values"; the code divides by 1000.
  Its `fillbatch` issues one `postput` for a batch of 1000 entries.
- `RepairTable` returns early when the copy of a damaged table fails, and the
  table, in no descriptor, is deleted by the next Open.  All tables go to level 0,
  where their order is that of their numbers.  A comment (`repair.cpp:189`) lets
  `log::Reader` check checksums while the call passes false.

## 7. Not modelled

- `g_timer` and the 32-bit timestamps of `op.h` wrap after 2^32 operations; the
  model keeps times unbounded.
- Batches of several entries and plain `Put` calls mixed with verified ones: they
  advance `LastSequence` without a `postput`, and the history waits for the gap.
- In the enclave merge: internal keys above 32 bytes, values above 100 bytes and more than
  ten channels, which the fixed buffers do not hold; the digests, which nothing
  reads; `OpenCompactionOutputFile` failing in the `VERIFY` build.  The other merge
  routines of the enclave are not called.
- CRC32C, hashes, SHA and block compression: bit arithmetic without control.
- The C bindings, the dump tool, histograms, `GetProperty`, options, the SGX
  bridge and the launch token: wrappers and formatting, or generated code.
- Weaker memory orders than acquire and release in the skip list, and the block
  cache's sixteen shards, which share nothing.

## 8. Plan

Done: all components of section 1 but the shell, the composition `LPADBench`, the
refinement of `AtomicWrites` with its proof, and the proofs of section 5.
Theorems worth proving next, in this order:

1. `PosixFiles`: `CrashKeepsTables`.
2. `VersionSet`: `VersionReadsSound`, which needs that the tables of a level are
   disjoint and that newer records lie above older ones.
3. `LSMTree`: `TreeSound` and `NewerAbove`, for the instances without the two
   disagreements of section 6 that break them.
