# zidanedb in TLA+

zidanedb is an embedded key-value store in C++: a `Database` object over two
files, an append-only data log (`x.zdb`) and a persistent hash index
(`x.zdb.idx`). This directory models the library, its command line and its test
driver, checks them with TLC on small instances and proves the main invariants
with TLAPS for all instances.

## 1. The system

| Component | State | Operations | Hard part |
|---|---|---|---|
| `Database` (src/database.cpp) | data file, index file, `index_`, `closed_`, `open_recovery_report_` | constructor (create, load, recover), `put`, `get`, `erase`, `scan_records`, `recover_records`, `rebuild_index`, `close`, destructor | death between any two writes; failing writes; order of log, index, checkpoint and clean flag |
| `Index` (src/index.cpp) | header (`indexed_up_to_offset`, `index_clean`, `num_buckets`), bucket heads, entries | `find`, `set`, `erase`, `empty`, `stats`, `set_index_clean`, `set_indexed_up_to_offset`, `load`, `setup` | relinking chains in place; calls that throw half-way |
| record codec (src/record.cpp, src/utils.cpp) | none | `serialize_record`, `write_record`, `read_record`, integers, strings | telling an incomplete record from a corrupt one at every byte |
| staging directories (src/database.cpp) | entries next to the index | search for an unused name, build, rename, remove | collisions with others and with leftovers |
| `zidane` (apps/zidane) | none of its own | `put`, `get`, `del`: one session per run | what exit statuses mean after kills and failures |
| `matrix crash-test` (apps/matrix, src/failpoints.h) | a worker process, its wait status | fork, exec, poll with a deadline, kill, reap, reopen, compare | asynchronous signals; a deadline that races the stop |
| `matrix` workloads (apps/matrix) | files under a fixed path | clear, fill, reopen, verify, remove | what killed runs leave; files removed under an open object |
| fnv1a, constants | none | | |

Interaction: `Database` calls `Index` and the codec synchronously; there are no
threads. Most of what makes the system hard happens between two writes: the
process can be killed there, and the next session sees only the files. The
protocol is: the constructor clears `index_clean` last; `put` and `erase`
append to the log, update the index, then move `indexed_up_to_offset`; `close`
sets `index_clean` if the offset equals the file size. An open trusts the
index only if it is flagged clean *and* the offset equals the file size;
otherwise it truncates an incomplete tail and rebuilds the index from the log.
Processes meet in three places: several of them may open one database (nothing
locks it, opening writes even if only `get` follows, and files are found by
path again and again while renames replace them), rebuilds look for
directory names next to each other, and the crash test runs a worker on a
database that the parent used before and will use again.

What makes each part correct:

- Database: it is a durable map (KVStore); the header never vouches for an
  index that does not represent the log; recovery is exact, loses no complete
  record and terminates; an unclosed session is noticed; an open is refused
  only for a reason.
- Index: it is a map (IndexMap); chains are acyclic, stay in their bucket and
  hold a key once; `empty` and `stats` count the keys.
- Codec: a scan of a log cut at any byte returns exactly the complete records;
  a byte altered at rest hides nothing in front of it and is reported, unless
  it belongs to a length.
- Concurrent opens: readers never mislead the next session, and never each other
  as long as all indexes have one number of buckets.
- Staging: one directory per rebuild, removed on every way out.
- `zidane`: no report contradicts an earlier one.
- `matrix`: parent and worker never share the database; the test returns; it
  passes on correct code at every failpoint; workloads give no false alarms and
  clean up.

## 2. Modules

| Module | Models | Instantiated by |
|---|---|---|
| `KVStore` | abstract: a durable map with calls, crashes and refusals | `DatabaseProperties` (refinement) |
| `Database` | `Database` with both files; the index as a map | |
| `DatabaseProperties` | its properties, the inductive invariant, the refinement mapping | `MCDatabase` and its four `.cfg` files |
| `AcknowledgedWrites` | a history of the acknowledged writes beside `Database`, and what it says of answers and of the log | TLC directly; tlapm |
| `DatabaseProofs` | type correctness, safety, acknowledged writes, Database implements KVStore; sessions that nothing disturbs | tlapm |
| `IndexMap` | abstract: what `Database` relies on in the index | `HashIndex` (refinement) |
| `HashIndex` | buckets, entries and chains of `Index` | `MCHashIndex` |
| `HashIndexProofs` | chains, keys, statistics, refinement of `IndexMap` | tlapm |
| `Records` | the bytes of the data file, the codec and the scan | `MCRecords` |
| `RecordsProofs` | numbers, strings and records read back; what the scan returns | tlapm |
| `SharedReaders`, `SharedReadersProofs` | several processes that open, read and close one database | `MCSharedReaders`; tlapm |
| `TemporaryLocation`, `TemporaryLocationProofs` | `make_temporary_index_location`, staging, `TemporaryDirectory` | TLC directly; tlapm |
| `CommandLine`, `CommandLineContract`, `CommandLineProofs` | `zidane` over `Database`; what its user may rely on | TLC directly; tlapm |
| `CrashTest`, `CrashTestProofs` | `matrix crash-test` with `CommandLine` as its worker | TLC directly; tlapm |
| `Workload`, `WorkloadProofs` | the other subcommands of `matrix` over `Database` | TLC directly; tlapm |

The three detailed modules meet at stated interfaces. `Database` keeps its
index as the map of `IndexMap` (a `set` is one change, an `erase` first makes
the offset null and then removes the key), and `HashIndex` is shown to
implement `IndexMap`. `Database` takes records as units that read as Success,
or as fragments that read as one of three failures, and `Records` derives that
from the bytes. `CommandLine` and `Workload` extend `Database` and decide which
of its calls is made when; `CrashTest` extends `CommandLine`.

### Database

The variables are the two files (`dbFile`, `log`; `idxFile`, `idx`,
`indexedUpTo`, `indexClean`), the members of the object (`cachedUpTo` is
`Index::indexed_up_to_offset_`, `report` is `open_recovery_report_`), and the
locals of the running call with its position `pc`. `unfinished` is a history
variable: a session marked the index dirty and has not been closed since.
`AcknowledgedWrites` adds another one: `acked` holds, for each key, which record
of the log is its newest write that was acknowledged (`put` returned, `erase`
returned true). It is forgotten when that record is no longer in the log.

One action is one write, flush, resize or rename together with the control
flow up to it; reads need no step because nobody else writes.

| Code | Actions |
|---|---|
| constructor, no data file | `OpenNew`, `NewIndexCreate`, `NewIndexSetup`, `NewIndexLoad`, `NewIndexInvalid`, `NewIndexNotEmpty`, `NewDbCreate`, `NewDbSetup`, `NewCheckpoint`, `MarkDirty` |
| constructor, data file | `OpenExisting`, `LoadInvalidDb`, `LoadMissingIndex`, `LoadInvalidIndex`, `LoadCleanIndex`, `LoadUncleanIndex`, `MarkDirty` |
| `recover_records`, `rebuild_index(_impl)` | `recover_records`, `RecoverWhole`, `RecoverTruncate`, `RecoverCorrupt`, `rebuild_index`, `Replay`, `ReplayCorrupt`, `Install`, `RebuildCheckpointIn...` |
| `put` | `PutStart`, `PutRejected`, `PutAppend`, `PutIndex`, `PutCheckpoint` |
| `erase` | `EraseStart`, `EraseMissing`, `EraseAppend`, `EraseZero`, `EraseUnlink`, `EraseCheckpoint` |
| `close`, destructor | `CloseStart`, `CloseMark`, `CloseRefused`, `DestroyUnclean` |
| `get` | the operator `get`, read by the properties in every idle state |
| death of the process | `Kill` at every step, `KillInAppend` in the middle of a record |
| file operations that throw (`IOFaults`) | `FailAppend`, `FailIndexWrite`, `FailRebuild`, `FailReload`, `FailConstructor`, `FailClose` |
| the files between sessions (`EnvFaults`) | `RemoveIndexFile`, `DamageIndexFile`, `RemoveDbFile` |

Abstractions. Offsets count records: the header is at 0, the record at offset
i is `log[i]`. That keeps their order, which is all that the code compares,
and restricts `rebuild_index(start)` to offsets where a record starts, and an
out-of-date index offset to places where a record starts or the file has
ended (anywhere else the checksum rejects what is read, up to a collision). A
fragment that other bytes follow may read as Truncated, InvalidLength or
ChecksumMismatch, a choice made at each append. Left out is the coincidence
that following bytes complete a fragment which lacks only the end of its
checksum; `Records` shows that it exists (see there) and it needs a failed
append of all but the last bytes, then a matching next byte.

### HashIndex

`heads` is the bucket table, `entries` the entries in file order (entry
number instead of byte offset, 0 is null). A call walks its chain one entry
per step and then writes; `Throw` and `ThrowInAppend` end a call anywhere,
because the `Database` stays open after an exception and uses the file as it
is. Bytes of an entry whose append failed are shown as a whole entry that
nothing links to. Oversized keys are refused by `set` only.

### Records

The bytes after the header, over an alphabet of `Base` bytes, with the widths
of length prefix and checksum as constants. `LeaveFragment` is a failed append
of a process that lives on; `KillAndRecover` a crash followed by the scan and
truncation of `recover_records`; `Damage` alters one byte of a file at rest.

`crc32c` comes from a library and is a constant operator. Two facts are assumed
of it (`ChecksumAssumption`): its value fits the checksum field, and altering
one byte of what it covers alters it, which holds of every CRC of 32 bits.
Nothing is assumed about longer differences. So the model has the behaviours in
which a checksum agrees by coincidence, and the properties are stated for them:

- `RecordsBeforeFragmentAreFound` does not claim that a scan stops at a
  fragment: following bytes may complete it.
- `DamageIsReported` lets the scan go past the damaged record in one case, a
  length that is misread (`MisreadsLength`): then the checksum is looked for at
  another place and computed over other bytes. Whatever is returned there has
  other lengths than the record that was written. If the altered byte is not
  part of a length, the scan stops at that record with `InvalidType` or
  `ChecksumMismatch`, and recovery leaves the file alone. An altered length can
  also be too large (`InvalidLength`) or make the record look unfinished
  (`Truncated`): then recovery cuts the file there, the limitation that the
  notes describe.

### SharedReaders

Any number of processes run constructor, gets and destructor on existing files,
each in its own order with the others. The data file is its complete records
and whether a fragment follows. `files` is every index file there has been: a
rename appends one, the last one has the name, and `handle` is the one that a
process has open. A header write is two steps, because `set_index_clean` and
`set_indexed_up_to_offset` open the index by its path and write later; a write
to a file that was replaced is lost.

`Index::load` is three steps: it opens the path (`OpenToLoad`), reads the header
through that stream (`ReadHeader`), and asks the *path* for the file size that
the bucket table must fit in (`TableFits`, `TableTooLarge`). Another reader's
rename may come between any two of them. If the table does not fit, a first load
falls back to a rebuild; the load after the reader's own rename throws out of the
constructor. Sizes are numbers of buckets; entries behind a smaller table may
make up for the buckets that it lacks, so that both outcomes are possible then.

Every index file has its number of buckets, and so has every Index object
(`cached`): an index made where there was none, or in place of an invalid one,
gets `-b`, a recovery keeps the number it has loaded (`Scan`). The readers'
values of `-b` are part of the initial states, equal or different, and so are
all files that `IInv` allows between sessions. `began` remembers what there was.

The scan and the replay are one step each: the log only ever loses its fragment,
and the complete records that they read are the same for everyone.

What readers promise each other holds under `OneCount`: there was an index to
begin with (then every rebuild takes over its number of buckets, also when it
is dirty or stale) or all readers have the same `-b`. It cannot be dropped:
TLC refutes `ReadyReadersFind` and `OnlyLostIndexThrows` without it. Two readers
that start without an index and with different `-b` both rebuild, and the second
rename gives the first one a table in which it hashes with its own number, so
that `get` does not find what is there; or the first one, having read the header
of its larger index, holds it against the size of the smaller one and throws
`InvalidIndexError`. The clean flag (`CleanFlagIsTrue`) needs no such condition.

### TemporaryLocation

`owner` says who made the entry of each candidate name: a run of
`rebuild_index_impl`, a crash test, nobody, or someone else. `create_directory`
is a test and a set in one. `full` says that the staging index is inside, which
`remove()` of the success path cannot delete. The two searches (src/database.cpp
and apps/matrix/utils.cpp) are the same code and the same actions; their names
have different prefixes, so that letting them collide only adds behaviours.

### CommandLine and CommandLineContract

`stage` is how far `main()` is, `code` the exit status. The history variable
`may` holds, for each key, the contents that fit all reports so far; a report
that fits none empties the set.

### CrashTest

`tpc` is the position of the parent, `child` the worker as `waitpid` sees it
(running, stopped, ended, reaped). Parent and worker drive the one set of
`Database` variables, which `SoleUser` justifies. A failpoint is a step boundary
of `Database`, except the three inside `Index::set`: they lie before its last
`flush()`, so that the write is still in the stream's buffer and dies with the
worker (`FailpointsBefore`). Failing `fork`, `exec` and `waitpid`, failing file
operations, stops and kills from outside may come at any time; `disturbed`
remembers them. A SIGSTOP from outside is left out: the parent cannot tell it
from the failpoint's.

### Workload

The five workloads are one sequence of steps with three parameters: which
values they put, how often they overwrite, and whether the reopened object is
destroyed before its files are removed (only in `basic`). A run may be killed
anywhere and the same workload started again, with other pairs, on what is left.
Seen from the database `hash-collision` is `perf-basic`; its bucket count is
`NumBuckets` of `HashIndex`.

## 3. Runs

| Run | Instance | Shows |
|---|---|---|
| `database` | 2 keys + an oversized one, 2 values (the empty one included) + an oversized one, log of 4; crashes; index removed or damaged, or data file removed, between sessions; `FairSpec` | `ImplementsKVStore`, `CompleteRecordsAreKept`, `CleanIndexRepresentsLog`, `UnfinishedSessionIsRecovered`, `CheckpointIsTrue`, `RecoveredIndexIsExact`, `RefusalIsJustified`, the inductive invariant `IInv`, `TypeOK`; `CallsTerminate`, `ReadyOnceCrashesStop` |
| `io` | 2 keys, 2 values, log of 3; every file operation may throw; rebuilds may start inside the log; keys permuted by symmetry | what survives: `RecoveredIndexIsExact`, `AcknowledgedWriteIsVisible`, `EntriesBecomeNewest` |
| `hash_index` | 3 colliding keys, 1 in another bucket, 1 oversized; 3 entries; calls may throw | `ImplementsIndexMap`, `ChainInv` and its parts, `KeysAreLinkedOnce`, `StatsCountKeys`, `CallsTerminate` |
| `records` | 3 byte values, 3 keys of at most one byte, 7 values of at most two, lengths of one byte and checksums of two, 2 records | `ScanFindsCompleteRecords`, `RecordsBeforeFragmentAreFound`, `DamageIsReported` |
| `shared_readers` | 3 processes, 1 key, log of 2, 2 numbers of buckets in every combination, every initial state of the files; readers permuted by symmetry | `ReadyReadersFind`, `CleanFlagIsTrue`, `OnlyLostIndexThrows` |
| `staging` | 2 rebuilds, 1 test, 2 names, 2 attempts | `Exclusive`, `LeftoversAreExcused`, `ForeignIsUntouched`, `SearchEnds` |
| `command_line` | 2 keys, 2 values + an oversized one, log of 3; kills and failing file operations | `ReportsAgree` |
| `crash_test` | the test's own keys and values, all 9 failpoints, every fault | `SoleUser`, `WorkerMeetsFailpoint`, `ReachedMeansPass`, `TestReturns` |
| `workload` | 2 keys, 2 values + an oversized one, 1 overwriting pass; kills, failing file operations, repeated runs | `OnlyJustifiedFailures`, `SuccessLeavesNothing`, `RunsEnd` |
| `io_clean`, `io_truncate`, `disposable` | smallest instances | violations, section 4 |

Bounds. `MaxLog` limits only the start of `put` and `erase`. A log of three
records over two keys holds put, overwrite and erase of a key next to another
key's record, and a crash can follow each; four allows a second generation
after a recovery. `MaxEntries` = 3 gives chains with a head, a middle and a
tail. Two records in `records` put a fragment, or an altered byte, before and
after a complete record; a checksum that is as short as a value, and a sum of
the bytes, let other bytes pass for it when a length is misread. Three readers let two of them act between any two
steps of the third; the contents of the log matter to them only through
whether the index represents it, and numbers of buckets through which is larger. With two names and three runs, names collide,
run out, and are freed again; `MaxAttempts` = 2 (100 in the code) is reached.
Crashes, sessions, rebuilds, runs and failures are not bounded at all.

Deadlock is checked except in `records`, where the writer stops at its bound.

Fairness.

- `database`: the process runs a call it has begun (`WF_vars(Step)`: the code is
  a sequential loop without waiting) and a client opens its database again
  (`WF_vars(Open)`). Nothing is assumed about calls, crashes or the environment.
  `ReadyOnceCrashesStop` is conditional on crashes and losses of files ceasing,
  and says that then the database is ready again and again unless it has ended
  as one of the combinations of files that `Unopenable` lists.
- `hash_index`: `WF_vars(Step)`, the same assumption.
- `staging`: a run that began is executed, `WF_vars(Proceed(u))`.
- `workload`: a run that was started is executed, `WF_workVars(Proceed)`.
- `crash_test`: the parent runs, a SIGKILL that was sent arrives, and the clock
  reaches the deadline if the parent keeps looking at it
  (`SF_testVars(DeadlinePassed)`: the deadline is fixed when `wait_for_state`
  starts and the clock is steady). Nothing is assumed of the worker, which may
  hang or loop.

Each property has a mutant, an operator named after the definition it replaces
(`MarkDirty_forgotten`, `resize_file_short`, ...), with which TLC must find it
violated. One that does not break what one might expect: without the dirty mark
(`MarkDirty_forgotten`), `CleanIndexRepresentsLog` still holds as long as file
operations succeed, because a put or erase that was interrupted leaves a file
size other than `indexed_up_to_offset`. What the mark adds is
`UnfinishedSessionIsRecovered`; the crash test's expectation of
a recovery at `before_db_append` rests on it too (`ReachedMeansPass` breaks with
the same mutant).

## 4. Where code and text differ

- `io_clean`: `close()` promises to "only declare the database clean if the
  index represents the complete data log", but compares file size and cached
  offset. After a put whose index update threw, the next successful put moves
  the offset past the unindexed record, and the database is closed clean with a
  complete record in no chain (`CleanIndexAnswersWithContents`, which is about
  complete records only: a fragment in the log does not violate it). A recovery
  that fails in an open database after truncating the log ends the same way.
- `io_truncate`: a put that was appended behind the fragment of a failed put, and
  has returned, is cut off by the next recovery together with the fragment
  (`AcknowledgedWritesAreKept`).
- `disposable`: the index "can always be deleted and rebuilt", but the rebuild
  for a missing or invalid index does not truncate an incomplete tail, and the
  open is refused.

Two more differences have no run of their own:

- `rebuild_index(offset)` sets `indexed_up_to_offset` to the end of the file
  (src/database.cpp:493) for an index that lacks every record before `offset`,
  while the notes define the field as "known to correctly represent `.zdb`
  through this byte offset" (notes/07-api-design-and-basic-recovery.md:191). With
  `RebuildStarts = {0, 2}`, as in `io`, TLC refutes `CheckpointIsTrue` and
  `CleanIndexRepresentsLog` at once; `io` shows what still holds.
- The failpoints `after_modify_existing_entry` and `after_update_bucket_head`
  (src/index.cpp:143 and 168) stop the worker before `file.flush()`
  (src/index.cpp:170), so that the update they are named after never reaches the
  file, while the notes expect that "Index update partially/fully happens"
  (notes/08-testing-recovery.md:22). In `CrashTest` such a worker leaves the index
  as it was before the update.

## 5. Proofs

All theorems hold for all sets of keys and values and every log length
(`DatabaseAssumption`), for every hash function and number of buckets
(`HashIndexAssumption`), for every alphabet of at least three bytes, field width
and limit on sizes that its length field can hold (`RecordsAssumption`), and for
any number of readers and values of `-b`, of rebuilds, tests, names
and attempts (`SharedReadersAssumption`, `TemporaryLocationAssumption`). The
other assumptions on constants are that `nullopt` is no value
(`AbsentAssumption`), that the crash test's own keys and values can be stored
(`CrashTestAssumption`), and what Records relies on in the checksum
(`ChecksumAssumption`).

### DatabaseProofs

Without any restriction, that is with kills anywhere, failing file operations,
lost files and rebuilds from any offset:

- `TypeCorrect`. The two Boolean variables are proved by Zenon (`FlagsStep`),
  the rest by SMT, one step per action (`DataStep`).
- `UnfinishedSessionsAreRecovered`, from `UnfinishedInv`.
- `RecoveryIsExact`, from `RecoveryInv`: whatever the files have been through, the
  constructor's replay starts at the head of the log and gives up at the first
  fragment, so that the staging index represents the prefix it has read.
- `AcknowledgedWritesAreVisible`, from `WriteInv`: the record a running call
  appended is whole, and lies where the index points.
- `EntriesAlwaysBecomeNewest`, from `WriteInv` and `EntriesInv`. After failed
  operations an index entry may point anywhere, but it is only ever changed to
  lead to the newest complete record of its key. `EntriesInv` says why: the record
  of a running call ends the log (`RecordIsLast`), and a replay, from whatever
  offset it started, has passed no record of a key behind the one it keeps
  (`ReplayFindsNewest`).
- `AcknowledgedWritesAreNotUndone`, over `HistorySpec`: an answer is not older
  than the newest acknowledged write of its key (`AcknowledgedWriteIsNotUndone`).
  It rests on `AckInv`: `EntriesInv`, and that no entry lies in front of the key's
  acknowledged record (`EntriesAreNotOlder`), and that this record is whole and
  stays where it is (`AckedInLog`, `RecordsStayInPlace`). It is proved and has no
  run of its own.

Assuming that file operations do not fail (`~IOFaults`) and that rebuilds start
at the head of the log (`RebuildStarts \subseteq {0}`) -- the runs `io_clean` and
`io_truncate`, and the first remark after them in section 4, show that neither
assumption can be dropped -- but with crashes anywhere and files lost between
sessions: `InductiveInvariant`, and from it `CleanIndexIsTrustworthy`,
`CheckpointIsCorrect`, `CompleteRecordsSurvive` (an action property) and
`RefusalsAreJustified`.

`CleanIndexRepresentsLog` is not inductive: it must be known how far the index
is behind the log at each point of each call. `IInv` adds this: the files fit
the position of the process (`FilesMatchProgress`), a fragment is last in the
log and exists only while the index is marked dirty (`OnlyTheTailIsTorn`), the
index is dirty whenever anything is written (`DirtyWhileWriting`), the index
(or the staging index) represents a known prefix of the log (`IndexInStep`),
and the offset is the end of the file outside of calls (`CheckpointInStep`).
The argument rests on three lemmas about `Represents`: the empty index
represents nothing, only the prefix matters, and applying the next record
brings the index one record further (`RepresentsApply`), which is the common
core of a replay step, a put and an erase. The step itself (`InvStep`) is stated
for one faultless step rather than for a faultless specification, so that the
programs built on `Database` can use it for the sessions in which nothing fails
even where other sessions do.

`DatabaseImplementsKVStore`, under the same two assumptions: the initial states
agree, and each step of `Database` is a step of `KVStore` or leaves `storeBar`,
`statusBar`, `pendingBar` and `answersBar` alone. The instant at which a call
takes effect is its append (`AppendCommits`); truncation and fragments do not
change what the complete records say (`SameContents`); an idle database answers
with its contents because its index represents the log (`ExactIndexAnswers`,
`IdleAnswers`). Beyond `IInv` the simulation needs to know on whose behalf the
process is where it is (`CallerInv`).

### Programs over the database

These three hold with failing file operations and kills, without assumptions on
`IOFaults`.

- `CommandLineProofs`: `ReportsNeverDisagree`. `ContractInv` says that outside of
  calls the contents of the log are among those that fit the reports, and how
  far the key of a running call is (`MayInv`). It rests on `HealthInv`: with one
  call per process the database satisfies `IInv` although file operations fail;
  a call that fails half-way leaves an object that cannot be closed
  (`Halted`), so that its index stays dirty and the next open recovers.
- `WorkloadProofs`: `FailuresAreJustified` and `SuccessfulRunsLeaveNothing`, from
  `WorkInv`: a run starts from cleared files (`Cleared`), has stored the pairs it
  counts (`Filling`, `Stored`) and finds them again, unless one of its own file
  operations failed.
- `CrashTestProofs`: `ParentIsSoleUser` from the parent's bookkeeping alone
  (`BookInv`); `WorkersMeetTheirFailpoint` and `ReachedTestsPass` from `TestInv`,
  which follows an undisturbed test through its phases: what the initial
  session has stored so far (`Preparing`), at each point of the worker that its
  failpoint is still ahead (`Working`), what a stopped worker leaves (`Stopped`,
  `Caught`), and what the reopen makes of it (`Recovering`). Each of the nine
  failpoints is a case of that argument.

### The other modules

`HashIndexProofs`, in all of which calls may throw anywhere:

- `ChainsAlwaysDescend`, `ChainsNeverCross` and `IndexTypeCorrect` from
  `ChainsInvariant`; `ChainInv` adds what a running call knows about the entries
  it holds (`WalkInStep`).
- What a bucket's chain holds is a recursion over the length of the file.
  Instead of an induction the proofs take the least or greatest counterexample
  (`LeastElement`, `GreatestElement`, from the well-foundedness of `<`).
  `LinkedIsChain` shows that the entries met form a chain in the sense of
  `IsChain`, which speaks of one link at a time, and `ChainIsUnique` that only
  one set does. So a step's effect on a chain follows from one lemma for each
  kind of write: links kept, an entry put in front, the first one taken out, one
  bypassed (`ChainKept`, `ChainPush`, `ChainPop`, `ChainBypass`).
- `KeysAreUniquelyLinked`: no key is in its chain twice. The inductive `LinkInv`
  adds that a walk has met the key in no entry it passed, because no entry of
  the chain lies between an entry and its link, and that the entry to unlink is
  the one its predecessor, or the bucket, points at.
- `IndexImplementsIndexMap`: the index implements the map that `Database` keeps
  in its place. With keys linked once, the map is read off the chains
  (`MapIsRead`); each action is then a step of `IndexMap` or none.
- `StatsAlwaysCountKeys`: `empty()` and `stats()` count what is in the map; the
  positions of a walk, the entries and the keys of a chain are as many.

`SharedReadersProofs`: `ReadersSeeTheLog`, `SharedCleanFlag` and
`ReadersDoNotDisturb` from `ReadersInvariant`, for any number of readers and any
numbers of buckets. The point of `ReadersInv` is that the files only get better
(`FilesInv`): every index that a rename installs is exact (all rebuilds read the
same complete records), it is there only when the fragment is gone, and a file
flagged clean is exact. So a reader past its check or its rename knows that
whatever index has the name later is exact (`ReaderInv`, lemma `Newest`), and it
does no harm that its clean mark may land on an index another reader installed,
or be lost with a file that was replaced. `CountIs` adds, under `OneCount`, the
one number of buckets in all files, in all Index objects and in the rebuilds
under way: then the table of one index fits into the file of another, and keys
are looked up where they were put. A step that leaves the maps and numbers of
the files alone keeps what other readers know (`OthersKnow`); only the rename
(`InstallStep`) needs an argument of its own.

`TemporaryLocationProofs`: `StagingIsExclusive`, `NoSilentLeftovers` and the
action property `ForeignEntriesStay` from `StagingIsInvariant`: a run that works
in a directory made it, and the staging index has left the directory before
`remove()` is called on it.

### RecordsProofs

The bytes of the data file, for every base, width, limit and set of records.

- `NumberReadBack`: `read_uint` undoes `write_uint` for a number that fits its
  bytes. The digits are remainders of quotients (`DigitStep`), the sum over them
  a recursive function.
- `RecordIsReadBack`: where a record stands, `read_record` returns it and the
  position behind it if all its bytes are there, and `Truncated` if the file
  ends inside it, at any byte; what else is in the file does not matter.
- `RecordsInvariant`, and from it `TypesHold` and the three properties of the
  run: `CompleteRecordsAreFound`, `FragmentsHideNothing`, `DamageIsFound`.

The properties speak of what the scan returns and are not inductive: to know
what it returns after the next byte one has to know which bytes are there.
`RecordsInv` says so for each kind of history. After appends and crashes alone
(`Whole`) the written records stand one after the other (`Laid`) and the
beginning of the running one behind them, as far as it is not in `todo`
(`Remaining`). With a fragment (`Split`) the records in front of it stand there,
and a byte that is a valid type. With an altered byte (`Altered`) there is a
file that holds all records and differs from the real one in that byte only;
this file need not be a variable.

Two facts about the scan do most of the work. `ScanLaid`: over records that
stand one after the other the scan returns them, and then what it finds behind
them. `ReadKinds`: on any bytes `read_record` returns one of the statuses that its
callers distinguish, and a record only if it lies in the file. The second is also why the scan is
defined at all (`ScansExist`): it is a recursion from each position to a later
one. For the altered byte the fields are read one by one (`ReadAltered`): an
altered type is none, or it is the other type and the checksum was computed
over the first one; an altered byte of key or value leaves all positions and
changes the checksum; an altered byte of the checksum changes the number that
is compared. An altered length reads as another number (`NumberDiffers`).

All recursions, of `Power`, `Number`, `scan_records` and `StartOf`, are handled
without induction, by the least position at which a claim fails, as in
`HashIndexProofs`.

### Only model-checked

Liveness under fairness: `CallsTerminate` of `database` and of `hash_index`,
`ReadyOnceCrashesStop`, `TestReturns`, `RunsEnd`, `SearchEnds`. TLAPS has no
support for `ENABLED`, which fairness is made of. All safety invariants and
action properties of the passing runs are proved.

## 6. Not modelled

- Power loss: the code flushes and never syncs; the model has crashes of the
  process, not of the machine.
- A writer next to another process on one path. Nothing locks the files and
  nothing in the repository says what should hold then: a reader's rebuild takes
  the size of a file that has grown since it was scanned as its checkpoint, and
  two creations of one database truncate each other's header. `SharedReaders`
  has no writer.
- More than one altered byte, and damage that meets a failed append.
- Parsing of arguments (CLI11), the wording of messages, timing and statistics
  of `matrix`; the unit tests; vendored libraries; the arithmetic of fnv1a.
- `kill` and the final `waitpid` of the crash test failing: the worker is the
  parent's own unreaped child.
- Calls on a closed object (they throw `logic_error` and change nothing), a
  path without the `.zdb` extension, `num_buckets` = 0 (refused at once).
- `scan_records` as a call of its own: it changes nothing.

## 7. Plan

1. Done: KVStore, Database with its properties, HashIndex and IndexMap, Records
   with damage at rest, SharedReaders, TemporaryLocation, CommandLine,
   CrashTest, Workload, their runs, and the proofs of section 5.
2. Power loss: flushed writes that reach the disk in another order, and what
   the header then vouches for.
