# Specifications of LevelDB for Windows

TLA+ modules for the LevelDB port under `src/LevelDB`, the TLC configurations
that check them, and TLAPS proofs. `PROJECT.json` maps every definition that
models code to its lines and lists the hazards, findings, runs, mutants and
theorems.

Run a configuration with `tlc -config X.cfg M` and check the proofs of each of
`RecoveryInvariant` and the seven modules whose names end in `Proofs` with
`tlapm M.tla`. The longest, `RecoveryInvariant`, takes a quarter of an hour or
more.

## The system

| Part | State | Operations | What is hard |
| --- | --- | --- | --- |
| Write path (`db/db_impl.cc`) | `writers_`, `mem_`, `imm_`, the log, last sequence | `Write`, `BuildBatchGroup`, `MakeRoomForWrite`, `TEST_CompactMemTable` | the log and the memtable are written without the mutex; followers are committed by a leader; stalls |
| Background work (`db/db_impl.cc`) | `bg_compaction_scheduled_`, `bg_error_`, `manual_compaction_`, `shutting_down_` | `MaybeScheduleCompaction`, `BackgroundCall`, `CompactMemTable`, `DoCompactionWork`, `TEST_CompactRange`, `~DBImpl` | one job, rescheduled by whoever needs it; the mutex is released in the middle of everything |
| Levels (`db/version_set.cc`) | files per level, snapshots, the compaction at work | `Get`, `PickLevelForMemTableOutput`, `PickCompaction`, `CompactRange`, `SetupOtherInputs`, the drop rules | a flush lands in the middle of a compaction; entries are dropped under snapshots |
| Disk (`db_impl.cc`, `version_set.cc`, `filename.cc`) | logs, tables, MANIFEST files, CURRENT | `DB::Open`, `Recover`, `LogAndApply`, `SetCurrentFile`, `DeleteObsoleteFiles` | crashes between any two steps, partial records, failing I/O |
| Port (`port/port_chromium.cc`) | counters and semaphores | `CondVar`, `InitOnce` | a hand-made condition variable |
| Env (`port/env_win.cc`) | `queue_`, the background thread | `Schedule`, `BGThread` | a signal sent before the push |
| Memtable and skiplist (`db/skiplist.h`, `db/memtable.cc`, `util/arena.cc`) | linked nodes, arena | `Insert`, `Get`, iterators | readers without a lock |
| Caches (`util/cache.cc`, `db/table_cache.cc`) | hash table, LRU list, reference counts | `Insert`, `Lookup`, `Release`, `Erase`, `FindTable` | entries displaced while in use |
| Iterators (`db/db_iter.cc`, `table/merger.cc`, `two_level_iterator.cc`, `block.cc`) | direction, current entry, status | `Seek`, `Next`, `Prev` | changes of direction, parts that cannot be read |
| Formats (`log_*.cc`, `table/*.cc`, `coding.cc`, `version_edit.cc`) | bytes | writers and readers | boundaries, damage, failing appends |
| Repair (`db/repair.cc`) | files found, tables accepted | `RepairDB` | it moves files away as it goes |
| In-memory Env (`helpers/memenv/memenv.cc`) | names, counted files | `Env` and file methods | deletion and renaming under a reader |
| POSIX Env (`util/env_posix.cc`) | `locks_`, `allowed_` | `LockFile`, `NewRandomAccessFile` | locks that belong to processes |

Client threads call the write path and read through the levels. The write path
switches memtables and wakes the background thread through the Env. The
background thread moves entries from `imm_` into level 0 and down the levels,
and records each change in the MANIFEST. `DB::Open` puts everything together
again from the files. All of it stands on the port's mutex and condition
variable.

What must hold: an acknowledged write is readable from then on, at every
snapshot, across switches, flushes and compactions; it is there after a crash
as the documentation promises; nobody waits for ever; level 0 stays bounded;
files in use are not deleted.

## Modules

A step is one critical section of a mutex, or one piece of work done without
it. Definitions keep the names of the functions and fields they model. A name
ending in `_Bug` is a deliberately broken variant of the definition behind it;
each property has one that violates it, listed under `mutants`.

* **`WritePath`** is the core: `mutex_`, `writers_`, `bg_cv_` and the background
  thread. An entry is its sequence number, so memtables, logs and the set of
  tables are sets of numbers, and sizes count entries. A thread's `pc` says
  between which two critical sections it is (`queued` is `w.cv.Wait()`,
  `room_wait`, `mem_wait` and `range_wait` are waits on `bg_cv_`; `append`,
  `sync`, `insert` are the unlocked part of `Write`). `bg` says the same of the
  background thread. Level 0 is the only level whose score counts; a compaction
  takes at least one of its files when it is due, any number otherwise, since
  `seek` and manual compactions may be about other levels. `Faults` names the
  I/O that may fail. `MCWritePath` gives the calls of each run.
* **`WritePathProofs`** has the theorems about the background thread, and
  **`WriteQueueProofs`**, which builds on it, those about `writers_`, the log,
  the memtables and what is acknowledged.
* **`CondVar`** is the contract of `port_example.h`; **`PortCondVar`** is the
  semaphore construction of `port_chromium.cc` and implements it through a
  refinement mapping (a waiter is woken when it gets `sem1_`). `MaxAll` says
  with how many waiters `SignalAll` is called. **`PortOnce`** is `InitOnce`.
* **`EnvSchedule`** is `WinEnv::Schedule` and `BGThread`.
* **`PrimitivesProofs`** has the theorems about four parts that the rest stands
  on: the refinement of `PortCondVar`, and `EnvSchedule`, `MmapLimiter` and
  `Arena`.
* **`Entries`** has internal keys and the drop rules of `DoCompactionWork` as
  operators on sets of entries; **`LevelStore`** has the levels, flushes,
  compactions, snapshots and `Get`. Sizes are free choices: any level may be
  due, an output may be cut anywhere, every size limit may or may not be hit.
  A compaction is two steps, between which writes, snapshots and a flush come.
  **`LevelStoreProofs`** proves that the drop rules change no read and that newer
  entries stay above older ones while the files of a level are apart; **`LevelReadsProofs`** that `Get` is right
  then, and that the store's own compactions keep them apart.
* **`Recovery`** has the files and `DB::Open`, with process and machine crashes.
  A log record is a sequence number or `Torn`; an edit of the MANIFEST has the
  numbers and the tables added and deleted. A machine crash keeps of each file
  what was synced and any part of the rest. Creation, renaming and deletion of
  files are taken to reach the disk at once and in order. Which tables are
  merged is left open here; it is `LevelStore`'s subject. **`RecoveryInvariant`**
  has the inductive invariant and that the steps of a running database and of
  most of `DB::Open` keep it; **`RecoveryProofs`** has the reading of the MANIFEST
  and the logs, and the theorems.
* **`Repair`** is `RepairDB` on the files of `Recovery`, which it extends: find
  the files, convert each log into a table and archive it, scan each table and
  copy what can be read of a damaged one, write a MANIFEST. A step is a file
  operation; the process may end between any two, and the database be opened or
  repaired again. `MaxDamage` bounds the tables found unreadable, in part or
  as a whole. What a repair loses joins `exposed`, Recovery's set of writes that
  may be missing, at the step that loses it.
* **`SkipList`** has `Insert` store by store and every move of an iterator load
  by load. A plain store goes into a store buffer and may become visible at any
  time later; a release store waits for the buffer, as `AtomicPointer`
  promises. **`MemTable`** adds `Add`, `Get`, batches and the sequence number
  that `Write` publishes.
* **`LRUCache`** has one shard of the cache as operators: the hash table with
  its growth, the list, the counts. **`FileLifetime`** puts the table cache,
  versions, file metadata, memtables, `pending_outputs_` and
  `DeleteObsoleteFiles` together, with Gets, iterators, a flush and a
  compaction that hold references.
* **`MemEnv`** is the in-memory Env: counted `FileState`s, their blocks, the
  file objects and the names.
* **`DBLock`** is the LOCK file of `PosixEnv` and `WinEnv` as `DB::Open`,
  `~DBImpl` and `DestroyDB` use it, from several threads and processes; what
  the kernel does with `fcntl` locks and unshared files is external.
  **`MmapLimiter`** is the limit on mapped files. **`EnvFilesProofs`** has the
  theorems about `DBLock` and `MemEnv`.
* **`LogFormat`** has the log's blocks and fragments, `AddRecord` and
  `ReadRecord`; **`TableFormat`** has `TableBuilder`, blocks, index, filter and
  `Table`; **`Records`** has version edits, batches, varints and decimal
  numbers; **`Arena`** has the arena. Each writes something small, cuts,
  damages or extends it, and reads it back. A damaged log fragment has lost its
  checksum or payload, its type, its length or its whole header.
* **`Iterators`** has the five iterator classes as operators on records, and
  a cursor over what the iterator ought to yield beside it. `MCIterators`
  builds blocks, levels and databases for it.
* **`MCEnvironment`**, **`MCLifetime`** and **`MCFormats`** check several of
  these in one run: components that share no state, of which each behaviour
  moves one (`part`). **`MCLevels`** has two kinds of bounds for `LevelStore`.

## Runs

| Run | Module | Shows |
| --- | --- | --- |
| `WriteSafety` | `MCWritePath` | three calls in all, by up to three threads, with every I/O failure: no lost wakeup, one logger, no number given twice, sync is durable also for followers and nobody writes after a failed one, nothing acknowledged disappears, reads are stable, work is scheduled, one job, level 0 bounded |
| `WriteLive` | `MCWritePath` | writers and manual compactions with every I/O failure: calls and the destructor return, and a manual compaction is withdrawn under the background thread only after a background error |
| `Environment` | `MCEnvironment` | the Windows condition variable implements its contract and signals return; every scheduled item runs once, in order, and the thread never sleeps over one; one user of a database; mapped files bounded and no slot lost |
| `Levels` | `MCLevels` | `Get` and iterators return the newest entry at every live snapshot; newer entries are above older ones; levels are disjoint, also when outputs are cut into files and manual compactions take any range |
| `Recovery` | `Recovery` | process and machine crashes anywhere: the files CURRENT leads to hold what was promised, no table in use is deleted, `Open` succeeds and finds every acknowledged write, new numbers are fresh |
| `Repair` | `Repair` | failing appends and MANIFEST writes on Windows, a crash, damage and repairs: without a repair nothing is lost but what lies behind a partial log record; a repair loses what it cannot read or write, and the unfinished copy of a damaged table if it stops there, and nothing else wherever it stops; what it leaves opens; no table is written over |
| `Lifetime` | `MCLifetime` | readers of a memtable without a lock; counts of memtables, versions, files and cache entries; no file is deleted that somebody may open, none that is open; the in-memory Env's files |
| `Formats` | `MCFormats` | logs, tables, records and the arena's pieces are read back as written; damage to a log invents nothing, costs records of its block only, and is reported unless the header then looks unwritten or torn; what is damaged in a table is refused; every iterator is where it ought to be after any sequence of moves, or says that it is not |

A property of a run may be the conjunction of several that its module states
(`ReadsCorrect` is `GetCorrect` and `IteratorCorrect`). The modules' type
invariants describe the states; only `WritePath`'s `TypeOK` is part of a run,
because the proofs build on it. `QuietAfterClose` and `PortCondVar`'s
`Handshake` are proved instead of checked.

Four more runs end in a violation; each shows code of this port that does not
do what a document or comment of the repository says (`findings` in
`PROJECT.json`):

| Run | What happens |
| --- | --- |
| `SignalAllTwo` | `SignalAll` with two waiters never returns |
| `OnceTwice` | two threads run the initializer |
| `CurrentLost` | `RenameFile` leaves a moment without CURRENT; the next `Open` starts an empty database |
| `ManualGap` | a flush puts a table into the gap between two inputs of a manual compaction, whose output then overlaps it |

### Deviations without a run of their own

The modules also state these; the last column says how to see each with TLC.

| What happens | Code | Promise | To see it |
| --- | --- | --- | --- |
| a failed sync makes `TEST_CompactRange` withdraw its request under `BackgroundCompaction`, which dereferences NULL | `db_impl.cc:584`, `726` | `db.h:42`, safe for concurrent access | `WriteLive.cfg` with the invariant `ManualStillThere` |
| `TEST_CompactMemTable` is absorbed by another group and flushes nothing | `db_impl.cc:1263` | `db_impl.h:50`, "Force current memtable contents to be compacted" | `WriteSafety.cfg` with the property `MemTableForced` |
| a snapshot keeps two entries of a key, a cut separates them, and the newer one sinks below the older | `version_set.cc:1297` | `version_set.cc:337`, "entries never hop across levels" | module `LevelStore`, `Spec` and `NewerAbove` with the constants of `Levels.cfg` |
| writes behind a partially appended record are lost | `log_writer.cc:91` | `doc/index.html:118`, a process crash loses nothing | `Recovery.cfg` with `Faults = {"append"}`, `Crashes = {"process"}` and `Survives` |
| with `paranoid_checks` the error of a log that is not the last is overwritten | `db_impl.cc:343` | `options.h:51`, stops early | the same with `paranoid_checks = TRUE` and the invariant `ParanoidStops` |
| a write with sync survives a machine crash and earlier ones do not | `db_impl.cc:1333` | `doc/index.html:127`, restart after the last sync | `Recovery.cfg` with the invariant `RestartAfterMarker` |
| RepairDB archives a damaged table before the copy of its readable entries is finished; a crash or an error then loses them | `repair.cc:343` | `repair.cc:322`, "copy src contents to a new table and then rename the new table over the source" | `Repair.cfg` with the invariant `ReadableInDirectory` |
| after a failed MANIFEST write in a nested flush the database may not open | `db_impl.cc:890` | none | `Repair.cfg` with the invariant `Openable` |

What else the modules follow and the properties leave out, because the code
does not give it:

* `PosixEnv::LockFile`: the second opener of a process closes its descriptor of
  LOCK, which gives up the lock of the first (`env_posix.cc:423`);
  `UnlockFile` takes the name out of `locks_` before it closes (444);
  `DestroyDB` unlocks before it deletes LOCK (`db_impl.cc:1506`). Against other
  processes `env.h:97` then does not hold, so `OneOwner` claims exclusion among
  processes only where each has one user and nobody destroys the database.
* `RepairDB` takes no LOCK, reads log records without checking them (193,
  although the comment before it says otherwise), archives a log even if its
  table could not be built, and syncs neither the copy of a table nor the
  MANIFEST. A table whose copy cannot be created stays in the directory but not
  in the MANIFEST, and the next `Open` deletes it. Opening the database instead
  of repeating an interrupted repair loses the archived logs. Found tables all go
  to level 0, where their numbers decide which is newer, and an obsolete table
  that had not been deleted yet comes back.
* `log::Reader` believes a header's length and type before it has checked the
  checksum. A damaged length that reaches behind the end of the file, in a last
  block that is not full, is taken for a torn tail (`log_reader.cc:214`,
  `log_test.cc:374`), and a header of zeroes for a region allocated and not
  written (227); the rest of the block is dropped without a report, also with
  `paranoid_checks`. `LooksTorn` and `LooksUnwritten` are these two cases, and
  `CorruptionIsReported` fails without either.
* A varint with bits beyond its type is accepted and the bits are dropped
  (`coding.cc:112`, 143); only one with more bytes than its type may take is
  refused. `VarintReadBack` says so.
* `log::Reader` reports damage when `initial_offset` lies inside a fragmented
  record, and `LastRecordOffset` is wrong for a record behind a block's trailer
  (`log_reader.cc:75`).
* `MemEnv`: renaming a file to its own name loses it, `LockFile` never fails.

### Bounds

`WriteSafety` has three calls by up to three threads (`FewCalls`): a leader, a
follower and a new head of the queue, or a thread that calls again, with batches
of one and two operations, a NULL batch and both kinds of sync. `kSmallGroup` 2
lets a second small batch join and keeps a larger one out. With
`write_buffer_size` 1 every batch of two fills the memtable; level 0 is due,
slow and full at 1, so that a write is first delayed and then stopped, and every
branch of `MakeRoomForWrite` is taken. What TLC cannot afford here, more calls
and more threads, the theorems of `WriteQueueProofs` cover. The threads are symmetric; the runs of liveness use
no symmetry. `Levels` has two keys and three writes over four levels with
a deletion and a snapshot, or three keys and four writes, two of a key at most,
over three levels with cut outputs (`FewWrites`): enough for a key in two files
of a level, a gap between two files, and a deletion over a value two levels
down. `Recovery` has three writes and up
to two ends of the process, and nine file numbers, which is two incarnations
with a flush and a compaction each. `MaxMoves` bounds the tables moved down a
level per MANIFEST, which would otherwise grow for ever. `Repair` has two
writes, a crash, two repairs and one damaged table or failed copy.

`Lifetime` has a memtable with few nodes and lists, a reader and a writer; a
cache of capacity 1, which is always full, a hash table that grows, a client
whose Get or iterator outlives a flush and a compaction, with two open tables
between the client and the compaction (`FewTables`); and two threads of the
in-memory Env with two names, two files and blocks of two bytes, so that files
cross a block's border. `Formats` has blocks of a few bytes for the log, the
table and the arena, so that every border is met; varints of two bits a byte
for types of 9 and 19 bits, which take 5 and 10 bytes as 32 and 64 bits do with
seven, from one byte to eleven; and, for the iterators, blocks of up to four entries with restart intervals 1 to
3, every way to cut them into files and blocks, every history of three entries
on two keys over memtable, level 0 and level 1, and one unreadable entry, block
or file. `Environment` has up to four waiters, ten items, three users in two
processes and four openers for two mappings.

Some bounds stand for what the code does not get right. `MaxAll` is 1 in
`Environment`: with two waiters `SignalAll` hangs. `Levels` leaves outputs uncut
while a snapshot is held, and has three levels where they are cut, because of
the third row above and `ManualGap`. `Repair` has one crash: a second one may
hit the renaming of CURRENT, which is `CurrentLost`. `EverybodyReturns` says
nothing of a process that has dereferenced NULL (first row);
`CancelledOnlyAfterError` says when that can be.

### Fairness

`WritePath` assumes weak fairness of every thread inside a call, of the
background thread and of the destructor: the operating system runs every
runnable thread, and a lock that is released again and again is obtained. It
assumes nothing of callers, readers and faults. Waiters are runnable only when
signalled, so lost wakeups show. `PortCondVar` assumes it of threads inside
`Wait`, `Signal` and `SignalAll`; a thread that waits for a semaphore is not
runnable. `EnvSchedule` assumes it of the background thread and takes scheduled
functions to return. The other modules are checked for safety only. That a
search of the skiplist ends needs no fairness argument of its own: the lists are
sorted, finite and each within the one below.

`WritePath` uses the contract of condition variables, which the Windows port
keeps except for `SignalAll` with several waiters. The liveness results hold
for a port that keeps it.

## Proofs

Every theorem holds for all values of the constants that the named assumptions
of its component's module allow: any sets of threads, calls, faults, keys and
processes, any limits. TLC checks most of the same properties on small
instances; the last column of the table names them.

| Module | Theorem | States |
| --- | --- | --- |
| `WritePathProofs` | `Types`, `Scheduled`, `SingleJob`, `BoundedLevel0`, `Cancelled` | `TypeOK`, `WorkIsScheduled`, `OneJob`, `Level0Bounded`, `CancelledOnlyAfterError` |
| | `Quiet` | `QuietAfterClose` (proved only) |
| `WriteQueueProofs` | `Wakeups`, `SingleLogger` | `NoLostWakeup`, `OneLogger` |
| | `Numbered`, `Readable`, `SyncKept` | `FreshNumbers`, `AckedIsReadable`, `SyncHonoured` |
| | `Stable` | `StableReads`, an action property |
| `LevelStoreProofs` | `KeptReads` | the drop rules change no read |
| | `NewerWhileApart` | `NewerAbove`, while the files of a level are apart |
| `LevelReadsProofs` | `ReadsWhileApart` | `ReadsCorrect`, likewise |
| | `ReadsRight`, `NewerFirst`, `Disjoint` | `ReadsCorrect`, `NewerAbove`, `LevelsDisjoint`, given `NeverSplit` |
| `RecoveryProofs` | `AckedSurvive`, `NumbersFresh` | `Survives`, `FreshNumbers` |
| | `AckedStayOnDisk`, `AlwaysRecoverable` | `AckedOnDisk` and `LiveFilesKept`; `Recoverable` while MANIFEST writes do not fail |
| | `LostOnlyBehindTornAlways` | `LostOnlyBehindTorn`, with failing appends |
| `PrimitivesProofs` | `Refines` | `ImplementsContract` |
| | `Balanced` | `Handshake` (proved only) |
| | `Awake`, `InOrder`, `Bounded` | `NoSleepOverWork`, `RunsInOrder`, `MapsBounded` |
| | `PiecesApart` | `PiecesDisjoint` and `PiecesAligned`, which are `PiecesExact` of the run |
| `EnvFilesProofs` | `Locked` | `LockExact` |
| | `FilesLive` | `AliveIffReferred`, which is in `InMemoryFilesExact` of the run |

**Background thread** (`WritePathProofs`). `TypeOK` is inductive by itself. The
others rest on `BackgroundInv`, which adds what ties the background thread to
the rest: a flush at work has an `imm_`, the inputs of a compaction are still in
level 0, a manual compaction at work either has its caller waiting in
`TEST_CompactRange` or there is a background error, whoever registered
`manual_compaction_` waits for it, and the destructor runs only when no call is
in progress. Without these, `Install` could take more files from level 0 than
there are, and nothing would keep `manual_compaction_` from being withdrawn.
`ClientEffect` says all that a step of a client thread can do to the
background's variables; `ClientStep` and one lemma for each end of a background
step then show that `BackgroundInv` is kept.

**Group commit** (`WriteQueueProofs`). `QueueInv` says that nobody is in
`writers_` twice, that everybody in it is inside `Write` and not done, that only
its head makes room or writes, that the head is not asleep, and that the group
is a stretch of the queue. `Wakeups` and `SingleLogger` follow. `DataInv` adds,
for each point of the leader's unlocked part, where its group's numbers already
are (`GroupInv`); that a follower told "ok" finds its entries where the leader's
are; and that after a failed sync somebody was told of, no thread writes
(`SyncErrors`). The heart of it is that a leader with a sync writer in its group
is a sync leader, and that `last_sequence` moves only in `Commit`, together with
`done` of all followers. What a step of the background thread or of a thread
that is not at the head can do is one lemma each (`BackgroundEffect`,
`AsideData`).

**Levels** (`LevelStoreProofs`, `LevelReadsProofs`). `KeptReads`
is about sets: let `S` be what a compaction merges and `Other` the rest of the
store; then at every sequence number from `smallest_snapshot` on, a read gives
the same value, or none, whether `S` is there or only what the two drop rules
keep of it. Its hypothesis `NewerInBase` is what `IsBaseLevelForKey` is for: of
a key in `Base`, everything in `Other` is newer. A hidden entry is hidden by one
that is itself kept or dropped as a deletion; that there is such a last one
comes from the well-foundedness of `<`.

`Inv` of `LevelStoreProofs` gives it that hypothesis. It says that everything in
the store was written and is found newer first (`mem_`, `imm_`, level-0 files by
number, levels); that snapshots are sorted and no larger than `last_sequence`;
and, of the compaction at work (`Sound`), that its inputs are still in their
levels, that what was left in the upper level is newer than they are wherever it
shares a key, that what was left in the lower level is apart from them, and that
what a flush has put further down since the inputs were chosen is apart from
them too. The last is the case no test meets: `IsBaseLevelForKey` looks at the
version of when the compaction began, and a deletion dropped on its word would
uncover whatever came under it later; `PickLevelForMemTableOutput` goes below a
level only where nothing overlaps. The invariant needs that the files of a level
are apart before each step, so `NewerWhileApart` and `ReadsWhileApart` have
`[]LevelsApart` as a hypothesis. The step from "newer first" to `Get`, which
stops at the first entry it meets and searches one file per level, is `GetRight`:
the layers of a read are aged (`LayersAged`), the search inside a level finds
its newest (`Level0Right`, `LevelRight`), so the first hit is the newest of all.

`NeverSplit` (no manual compactions; and outputs not cut or no snapshots)
discharges the hypothesis. Then the inputs of a compaction have no gap
(`Gapless`: an interval that meets none of them lies on one side of all), because
`SetupOtherInputs` takes every file of the lower level that the range of the
upper ones touches; so a flush, which meets none of the inputs, lands outside
the range the output will have. And a merge leaves one entry of a key or one file, so a cut
cannot separate two entries of a key. Both parts of `NeverSplit` are needed:
`ManualGap` violates `LevelsDisjoint` with a manual compaction, and the third row
of the deviations violates `NewerAbove` with a cut under a snapshot.

**Condition variable** (`PrimitivesProofs`). `CondInv` says which of the two
critical sections each position holds, that between signals both semaphores are
empty and `waiting_` counts the sleepers, and that inside a signal exactly one
token is under way: in `sem1_`, with the thread that took it, or in `sem2_`.
`Refines` then follows step by step: taking `sem1_` is the contract's wakeup,
every other step of the construction stutters. It needs no bound on the waiters:
`SignalAll` with several hangs (`SignalAllTwo`), which is a matter of liveness.

**Env** (`PrimitivesProofs`, `EnvFilesProofs`). `ThreadInv` says that the
background thread exists exactly when it was started; without it the first
signal could go to nobody. `LockInv` ties the `PosixLockTable` of each process
to the one thread between `Insert` and `Remove`, and a file's lock to a
descriptor of it that is open; with one user per process and no `DestroyDB` it
adds that there is one LOCK file and nobody closes a second descriptor of it.
`LockAssumption` asks for more inodes than users, so that one is free for a new
file. `LimitInv` is that the free slots and those of the threads between
`Acquire` and `Release` make up the limit.

**In-memory Env** (`EnvFilesProofs`). `MemInv` says that `refs_` of a
`FileState` counts the names and file objects that refer to it (`Counted`), and
that one to which none refers any more has exactly one thread that will free it
(`Owned`): the thread whose `Unref` found 0, which it remembers outside the
mutex. `MemSets` asks that names and threads are finitely many, so that the
references can be counted.

**Arena** (`PrimitivesProofs`). `ArenaInv` says that `alloc_ptr_` is behind every
piece of its block and that what remains lies within the block. `ArenaSizes`
asks for a natural block size, a positive `align` and positive sizes, as
`arena.h` asserts.

**Recovery** (`RecoveryInvariant`, `RecoveryProofs`). The invariant has a part
about the files and parts about the process that works on them. The part about
files looks at every end of the MANIFEST that a reader can get to (`Ends`: the
last whole record, and after a crash any from the last synced one on): each
leads to tables that exist, to numbers above all in use, and to every write that must survive in one
of those tables or in a log that will be replayed (`Secure`). This is more than
`Recoverable` says, because a crash may make any of these ends the whole file,
and because `acked` and `durable` need different ends. `OpenInv` and
`NewFilesInv` tie what `DB::Open` has read and built so far to the files;
`MemoryInv`, `VersionInv`, `MergeInv`, `FlushInv` and `ApplyInv` do so for
`mem_` and `imm_`, the version, and a flush or compaction before and after its
record is written. The delicate case is a background error: the MANIFEST may
then be ahead of the version, or end in a partial record, and it is only safe
because nothing is deleted from then on. `Calm` (no partial record, nothing
exposed) gives `AckedSurvive`, `AckedStayOnDisk` and the first half of
`NumbersFresh`, for `PosixSpec`, in which log appends do not fail and renaming is
atomic; `AlwaysRecoverable` needs besides that MANIFEST writes do not fail;
`LostOnlyBehindTornAlways` holds with failing appends, with the POSIX
`RenameFile` and `paranoid_checks` off. `RecoveryAssumption` is all that is
assumed of the constants.

Only model-checked:

* liveness (`EverybodyReturns`, `SignalsReturn`, `RunsAll`): TLAPS does not
  reach liveness under fairness;
* `LevelStore` with manual compactions, or with cuts under snapshots, beyond
  what the theorems say under `[]LevelsApart`: outside the bounds of `Levels`
  the properties fail there, as the deviations show;
* the formats, the iterators, the skiplist with its memtable, and `LRUCache`
  with `FileLifetime` on it: their operators are recursive, and what a recursive
  definition computes for every input is an induction over data, out of the
  provers' reach; for the same reason what a read of `MemEnv` returns
  (`ReadExact`);
* `Repair`, and `LostOnlyBehindTorn` on Windows: a repair leaves a MANIFEST of
  one unsynced record, which Recovery's invariant does not allow.

## Not modelled

* Statistics, `GetProperty`, read sampling (a compaction that reads ask for may
  be due at any time in `WritePath` and `LevelStore`), `compact_pointer_` (any
  file of a level may be picked), byte sizes.
* `create_if_missing` off, `error_if_exists` on, more than one table per
  replayed log, `ReuseFileNumber`; numbers that overflow their 56 bits.
* The block cache in `Table::BlockReader`: it is another user of `LRUCache`,
  with blocks that are never erased or deleted under it.
* Compression, CRC and hashes are taken to do what they say: a checksum finds
  every damage of what it covers, which in a log is type and payload.
* `WinEnv::NowMicros` has static variables without a lock; times are used for
  statistics only.
* The file objects of `env_win.cc`, `env_posix.cc` and `file_misc.cpp` wrap
  system calls; what they promise is stated where `Recovery`, `Repair` and
  `TableFormat` use it.
* The C binding, `dumpfile`, logging, histograms, benchmarks and tests have no
  protocol to check.

## Plan

1. An invariant for `Repair` that joins Recovery's when the repaired database
   is opened.
2. `LevelsApart` with manual compactions that leave no gap.
3. `FileLifetime`'s counts, once `LRUCache` is written without recursion.
