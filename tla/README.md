# A TLA+ model of NusaDB's transaction, durability and session core

NusaDB is a single-node SQL database in Rust. This project models the part of it
whose correctness depends on order: which version a reader sees, who may write
what, when a commit counts, what purge may throw away, what a crash leaves
behind, what a prepared transaction and a standby are owed, what the page cache
may forget, and what a connection must settle when its transaction ends. That
lives in `crates/nusadb-btree` (the engine), `crates/nusadb-wal`, the session
loop of `crates/nusadb-wire/src/server.rs`, and the deferred checks and cursors
of `crates/nusadb-sql/src/executor`.

`PROJECT.json` maps every definition to the source lines it stands for, lists
the runs, the mutants that show each property can fail, the findings, the
hazards and the theorems. This file is the guide.

## The system and its parts

| part | state it keeps | operations | works with |
| --- | --- | --- | --- |
| transaction core (`engine.rs`, `mvcc.rs`) | `TxnDomain`: next id, `active`, `txns`, `staged`, write versions, locks; per transaction a snapshot, an undo log, savepoints, read sets; per row a version chain | begin, begin_statement, fresh reads, scans, insert, update, delete, lock_row, lock_table, savepoint, rollback_to, release, rollback, commit, purge | appends to the log, waits on the group fsync, stores rows in the tree |
| log writer (`nusadb-wal/src/writer.rs`) | append buffer, next LSN, the file | append, flush | everything that logs |
| group commit (`group_commit.rs`) | `durable`, `syncing` | commit(seq, flush) | commit, prepare, nextval |
| recovery (`reader.rs`, `open_impl`, `replay`) | - | parse, cut the tail, replay | image and log |
| checkpoint (`checkpoint_*`) | image and its watermark | publish, archive, truncate | needs a quiet engine: the admission pause |
| sequences | current value | nextval, setval | durable on their own |
| two-phase commit (`engine/prepared.rs`) | names, prepared states | prepare, finish, park, restore | log, locks, checkpoint |
| standby (`engine.rs`, `database_manager.rs`) | position applied, image of its own, admission pauses | seed, poll, apply a shipped segment, fold, restart, promote | the primary's archive, replay, log, checkpoint |
| catalog, indexes, uncommitted DDL | tables, indexes, constraints | DDL and its undo | same undo log and commit |
| page store (`store.rs`) and tree (`tree.rs`) | frames, clock, dirty marks, spill file, image | read, write, modify, allocate, free, evict, spill, attach | under everything |
| SQL layer (`nusadb-sql`) | queue of deferred checks, cursors, plan and result caches | parse, plan, execute, SET CONSTRAINTS, retry | calls the engine, one call of a transaction at a time |
| connection (`nusadb-wire/src/server.rs`) | `TxnState`, settings, queued NOTIFYs, ON COMMIT entries | transaction control, batches, SET, LISTEN/NOTIFY | owns the transaction; tells every store how it ended |
| server, clients | databases, timers | schedulers, backup | run purge, checkpoint and the standby's poll on timers |

What is hard in it, and what must therefore hold:

* **Concurrency.** A commit is two critical sections with an fsync between them;
  an abort is one per undone write; a purge pass releases its latches between
  batches. Readers must see exactly their snapshot at every point in between,
  writers must never overwrite what they have not seen, and a SERIALIZABLE
  commit must be refused when something it read has changed.
* **Failure.** Power loss in the middle of a frame, a crash between publishing
  an image and truncating the log, a write or an fsync that fails. Recovery must
  give back what was reported, and nothing that was not committed.
* **Waiting.** Nothing blocks in the lock table, but committers wait for a group
  leader, a finisher of a prepared transaction keeps the commit gate across an
  fsync, two threads may hold up every new transaction, and everybody relies on
  ending transactions to let go of their locks and on purge to get its work done.
* **Delivery.** A segment reaches a standby whole, cut short, again, or
  overlapping the one before. The standby must show the primary's state at its
  position, never half a transaction.
* **Long sequences.** Four stores follow a connection's transaction, each by its
  own rules: savepoints rolled back to and released, statements that fail,
  commits that are refused, batches. They must agree at every end of it.

The hazards, each at its line, are in `PROJECT.json`.

## The modules

```
MvccEngine          transactions, versions, locks, commit, purge
  MCMvccEngine        its instances      Mvcc*.cfg
  MvccEngineProofs    its theorems       types, locks
  MvccVersionProofs     over those       what is stored
  MvccSnapshotProofs    over those       what is read; SERIALIZABLE
EngineWal           log, group commit, checkpoint, crash, recovery
  MCEngineWal         its instances      Wal*.cfg
  EngineWalProofs     its theorems
Positions           operators: subsequences, by the set of positions they keep
LogReplay           operators: what replaying log records makes of a memory
PreparedDecision    abstract: what two-phase commit promises
TwoPhase            prepared transactions, over LogReplay; implements PreparedDecision
  MCTwoPhase          its instance       TwoPhase.cfg
  TwoPhaseProofs      its theorems
Standby             a primary's archive and a standby, over LogReplay
  MCStandby           its instances      Standby*.cfg
  StandbyProofs       its theorems
PageMap             abstract: what a page store promises
PageCache           frames, eviction, spill; implements PageMap
  MCPageCache         its instance       PageCache.cfg
  PageCacheProofs     its theorems
DeferredChecks      operators: the deferred checks of one transaction
Connection          one connection, over DeferredChecks
  MCConnection        its instance       Connection.cfg
  ConnectionProofs    its theorems
```

The engine's models meet in the commit. `MvccEngine` takes the fsync for
granted: between `CommitStage` and `CommitFinish` anything else may happen.
`EngineWal` takes versions and snapshots for granted (a row is its committed
value, what a transaction has written is in its undo log) and takes apart what
happens between the two. `TwoPhase` and `Standby` take the shape of the log file
and the group fsync from `EngineWal` (a thread waits until `durable` reaches its
position) and share one definition of replay. `Connection` takes the engine's
transaction as a sequence of writes with savepoints.

### MvccEngine

One action is one critical section, with everything the code does in it.

* A row's versions are one sequence, newest first: the leaf value and the undo
  chain under it. The arena slots the chain is threaded through are left out.
  A tuple is the pair (transaction, position in its undo log) of the write that
  made it, so different writes are never confused.
* `ReadView` is a record of own id, active set and horizon; `Sees` and
  `VisibleTuple` are `ReadView::sees` and `visible_version`.
* The lock table is a mode per transaction for each table and row. `CanLock` is
  the decision of `acquire_lock` (re-entrant, sole-holder upgrade, no wait),
  `Granted` its effect. A refused call keeps what it was granted before the
  refusal, as in the code (`LockRowRefused`, `WriteRefused`).
* `update` and `delete` take intention, row lock and admission in the code's
  order; `Admitted` is `admit_write`.
* Rollback takes the undo log out (`Taken`), applies it one `UndoStep` at a
  time, and leaves `active` and its locks last (`AbortEnd`). ROLLBACK TO uses the
  same steps. A commit that the antidependency check or a full disk refuses goes
  the same way.
* `SerializableReadConflict` is the commit-time check: the table-version
  shortcut, the walk down each read row's chain, the phantom check of scanned
  tables.
* A purge pass takes its snapshot (`PurgeStart`), walks the tables, skips those
  marked clean, treats one row per step and may stop early (`PurgeYield`). The
  generation counters become two flags: `clean` (the mark equals the
  generation) and `current` (the generation has not moved since the sweep
  began).

History variables (`committed`, `serial`, `snap`, `mine`, `aborted`) record what
should be seen; no action reads them in a guard.

### EngineWal

One action is one hold of the log's mutex or of the coordinator's.

* A frame is position, record and whether it is whole. The buffer spills at
  `SpillAt` frames (`APPEND_BUF_CAP`).
* Writes log after changing memory, savepoint rollbacks log inverses newest
  first, commit appends its marker and waits, aborts log an advisory marker,
  nextval logs and waits under the sequence latch.
* `Lead`, `LeaderFlush`, `LeaderSync` are `GroupCommit::commit` over
  `flush_and_sync`. When flush or fsync fails, a committer ends the process; a
  nextval puts its value back and returns the error.
* The checkpoint publishes an image with the LSN it covers, then drains and cuts
  the log; each half may fail.
* `Crash` keeps the page cache (a killed process) or, with `PowerLoss`, only
  what was fsynced and some of what follows, possibly ending in a torn frame.
  `Recover` is open: whole frames up to the first torn one, positions that climb
  above the image's watermark, committed operations in log order, the sequence
  records whoever logged them. `RefuseHole` is open's refusal.
* `mode = "stopped"` is the engine after `fail_stop`: it refuses new work.
* `survived` counts failed log writes the engine went on after.

### LogReplay, TwoPhase

* `LogReplay` is `replay`: transactions with a commit marker and no abort marker,
  in log order; a prepared transaction read from the records between its
  `PrepareBegin` and `Prepare` alone; waiting ones put back on top
  (`restore_prepared`); on a standby, the ones already prepared in memory ended
  where their marker stands (`finish_applied_prepared`).
* `PrepareTxn` is `prepare_txn` up to its fsync, with the refusals (`NameFree`,
  the limit, a failed antidependency check); `PrepareReturns` is the answer.
  `FinishCommit` and `FinishRollback` claim the name and log the marker;
  `Committed1` and `Undo1` are what follows the fsync. A rollback keeps the
  commit gate until it is undone, so nothing commits in between.
* A checkpoint needs no running transaction, but prepared ones may wait: the image
  carries their records (`Carried`). Publish and truncate are apart, with a crash
  possible between.
* An append may fail at its last record (`LoggedInPart`): the frame stays in the
  buffer. `stray` says that the log holds one, `misread` that a restart has read
  it; from then on the promises are off (see the findings).
* `PreparedDecision` has a decision and a promise per transaction: a decision is
  taken once, what was promised survives a crash, and nothing is promised that
  was not decided. `KeepsPromises` is the refinement, by the mapping `Decision`.

### Standby

A position is an index into the primary's history, which the standby keeps, so
its log is a range of positions. `PrimaryCheckpoint` archives image and segment
and may stop before the truncation, which makes segments overlap. The poll
(`ApplyRead`, pause, `ApplyQuiet` or `ApplyBusy`, `ApplyReplay`, `ApplyAppend` or its
failure) and the checkpoint scheduler (`FoldHold`, `FoldWrite`, `FoldGivesUp`)
are two threads that pause admission; `paused` counts both. `ReadCut` is a copy of a
segment that ends between two records. `Close` is a crash or a restart, with any
part of an append under way on disk. Promotion is such a restart: what the standby
has after `Open` is what it is promoted with.

### PageMap, PageCache

A call is as many steps as it takes latches: look up, load from spill or image,
make room (pick a victim, write it out if dirty, take it out of the directory),
insert; for a write also latch and look again whether the frame is still
registered. The clock is any choice among the frames `pick_victim` accepts. A
frame that has left the directory may still be in a thread's hands. A checkpoint
needs a quiet store; a publish that fails puts the old image back and changes
nothing. The contract with the tree is a guard: a page is freed only when no call
on it is in flight (`tree.rs`, `Retired`). `PageMap` is the map the `PageStore`
trait promises; the refinement mapping is `Content` (where `locate` would find
the page) and `Pending` (the change each call is waiting for).

### DeferredChecks, Connection

A step is one statement of the simple query protocol. `DeferredChecks` has the queue
of owed checks, its collapse to whole-table checks, the marks that make it follow
savepoints, and SET CONSTRAINTS. `Connection` has `TxnState`, the implicit
transaction of a query with several statements, a parameter with its backup and
pending value (`record_txn_guc`, `end_txn_gucs`), the cursors, and the NOTIFY queue
with its marks. `Ends` is the one place where a transaction ends, with what the
server believes (`committed`) apart from what happened (`truly`).

## The runs

| run | asks | distinct states |
| --- | --- | --- |
| `MvccSnapshot` | do readers see exactly their snapshot plus their own writes, through savepoints, rollbacks, staged commits and a purge pass; is an ended stamp always a committed one; is a table marked clean really clean; does the first updater win | 500 K |
| `MvccSerializable` | can a SERIALIZABLE transaction commit after a row it read was changed; two rows, three transactions of two levels, between marker and fsync too | 297 K |
| `MvccProgress` | READ COMMITTED, fresh reads, locks: does a granted lock keep others' unfinished versions away; do ending transactions let go; does purge converge | 130 K |
| `WalCrash` | is recovery exact across power losses, checkpoints and savepoint rollbacks; do positions climb; does the log always open; does nextval repeat | 793 K |
| `WalFullDisk` | the same on a disk where every write and fsync may fail, until the engine survives one; does every staged commit end | 737 K |
| `TwoPhase` | is every answered PREPARE, COMMIT PREPARED and ROLLBACK PREPARED kept; do prepared transactions come back as they were; does the gate come free | 473 K |
| `Standby` | does a standby show exactly the primary's state at its position; may a replay disturb a reader; does the poll catch up | 267 K |
| `PageCache` | is the store a map whatever is evicted, spilled or reloaded; is the dirty count exact | 997 K |
| `Connection` | do deferred checks, settings, cursors and NOTIFYs end a transaction the way it ended | 1.34 M |
| `MvccPhantom` | violated: finding 1 | |
| `WalSpillFails` | violated: finding 2 | |
| `StandbyResume` | violated: finding 3 | |

The longest takes about three minutes with two workers.

**Bounds, and why they are enough.** Transaction 1 wrote the rows found at the
start, so in `MvccEngine` `MaxTxn = 3` is two concurrent sessions and `MaxTxn = 4`
three. Two suffice where a property is about a reader and a writer; the
antidependency check needs three, because the interesting chain is an active
writer over a committed one under the reader's version, and two rows for write
skew. All rows are in one table: three transactions over two tables are past what
a run can hold, so the check's shortcut past a table that did not move is reached
only when nothing moved at all, and `MvccSerializable` runs without fresh reads, which
only DDL makes. The theorem `RowReadsSerialize` has any number of tables, and fresh
reads by transactions that are not SERIALIZABLE. Two writes per transaction give chains of three
versions and an undo log a savepoint can split. `WalCrash` has two crashes so that a recovered log is
appended to and recovered again, six positions, enough for two transactions with
a marker each and a sequence record, and `SpillAt = 2` so that spills and
flushes both happen. `TwoPhase` has two transactions over one row and one name, so
both locks and names are fought over, seven positions (a program is three) and
two upsets: a checkpoint and then a crash, a failed append and then a crash.
`Standby` has two archives, so that a second segment overlaps or follows the
first, and two upsets; it keeps `CutImages` off, the assumption that a standby
takes no image while its log ends inside a transaction, which finding 3 is about.
`PageCache` has one frame for two pages and two threads: every call evicts, and an
evicted frame is in the other thread's hands. `Connection` explores per transaction
the budgets of `Mixes`: up to five statements on rows, savepoints and constraints,
or fewer of them with up to three of the others (SET, cursors, NOTIFY); any number
of transactions follow each other. Symmetry is used only in runs without
liveness. The bounds stop the model where the program would go on, which is the
only reason for `CHECK_DEADLOCK FALSE`: sessions run out of ids, positions or
budget, not out of choices.

**Fairness.** `MvccEngine!Fairness` has the engine's own steps (undo, end of an
abort, end of a commit) run on, which is what a thread inside a call does, and
purge passes recur, which the server's scheduler does on a timer
(`database_manager.rs`). Nothing is assumed of sessions: they may never commit.
`PurgeYield` is not fair and `MvccProgress` has it off: a pass under constant
page-cache pressure makes no progress, by design. `EngineWal!FairSpec` has the
leader and the threads inside commit run on. `TwoPhase!FairSpec` has threads inside
a call, the fsync they wait for, and a checkpoint that has published run on.
`Standby!FairSpec` has the poll run on, on its timer, and the whole of a segment
arrive; readers need never end, and `CatchesUp` is about the behaviours in which
they do. None assumes that a write, an fsync or a crash does or does not happen.

**Mutants.** Every property of every passing run has a mutant: a variant of one
mapped definition, next to it in the module, that the property must catch.

**Exemptions.** Where the code breaks a promise in a known way, a history flag
says so and the property holds otherwise; TLC reaches every one of these flags.
`survived` (`EngineWal`) and `stray`/`misread` (`TwoPhase`): the engine went on after
a failed log write. `forgot`, `clean` and `lost` (`Connection`): see below; `lost`
is more than a flag, it is the value the parameter has then.

## Findings

1. **The phantom check looks only at the newest version** (`MvccPhantom`,
   `engine.rs:11191`). An uncommitted update on top of a row inserted and
   committed since the snapshot hides the insert from the check, and the scanner
   commits; the comment on `predicate_reads` says it aborts. The row half of the
   check walks the chain for this very reason. `MvccSerializable` shows that the
   row half holds.
2. **A failed spill leaves its frame behind** (`WalSpillFails`,
   `writer.rs:204`). `append` returns an error with the frame still in the
   buffer and its LSN unspent. The next record gets the same LSN, recovery
   takes it for a copy, and a transaction whose commit failed that way, rolled
   back and reported as failed, is committed after the next restart.
3. **A standby that folds inside a transaction loses its beginning**
   (`StandbyResume`, `engine.rs:1943`). When a copied segment ends between two
   records and the standby takes an image there, the unfinished transaction's
   puts are truncated away. The rest of the segment is applied in memory whole,
   but only what lies past the position is appended, so the next restart, which
   is also how it is promoted, drops the first writes.

Also seen while modelling, and without a run of their own:

* `admit_write`'s comment says that write admission goes by the BEGIN snapshot at
  every level (`engine.rs:7631`, `7639`); the code goes by the statement's
  (`engine.rs:7651`). `FirstUpdaterWins` states what does hold.
* A failed flush that the engine goes on after (nextval, the checkpoint's drain)
  leaves part of the buffer in the file and all of it in the buffer, so the next
  flush writes it again after a torn frame; the directory fsync after publishing
  an image is not checked; the comment in `commit` before the durability point
  says that a transaction whose fsync failed stays active and may be retried,
  the code ends the process.
* A PREPARE or a finish whose append fails is reported as without effect
  (`prepared.rs:440`: "at most a prepare that never finished in the log, which
  replay ignores"; `prepared.rs:558`: "Nothing was written"); by finding 2 the
  record may be in the log, and a restart may find the transaction prepared or finished.
  In `TwoPhase` this is `misread`.
* SET CONSTRAINTS IMMEDIATE drops the entries it has checked
  (`deferred.rs:1121`). ROLLBACK TO a savepoint before the statement that mended a
  key brings the broken rows back and not the entry, and COMMIT accepts the
  duplicate; `docs` promise the check at COMMIT (`transactions.md`, the section on
  deferrable constraints). In `Connection` this is `forgot`.
* A COMMIT or PREPARE that is refused ends the transaction and leaves its queued
  NOTIFYs (`server.rs`, the loop applies the queue's effect only `if ok`): a
  following multi-statement query delivers them. A BEGIN repeated inside a block
  discards what is queued. Over the extended protocol COMMIT, ROLLBACK and
  savepoints do not touch the queue. In `Connection` the first two are `clean`.
* RESET ALL in a transaction takes back the parameters that have a value at that
  moment (`reset_all_gucs`, `server.rs:4771`). After `SET x = 'a'; BEGIN; SET LOCAL x
  TO DEFAULT` x has none, so `RESET ALL; COMMIT` brings `'a'` back, although the comment
  says "clear every parameter the connection set" (`server.rs:4760`), and `RESET x`
  does clear it. `SettingsSettle` exempts this case alone, for a kept transaction, and
  says which value the parameter then has (`hist.lost`, which follows the client's
  statements and does not use `EndGucs`); a rollback is not exempt.
* A refused COMMIT leaves the ON COMMIT entries of its temporary tables pending
  (`server.rs:4190`). RESET ALL also clears `nusadb.assumed_role`, which the
  comment on reserved keys does not suggest. `Session::rollback` of the embedded
  API returns before it settles its settings when the engine reports an error.

## What is proved

The theorems are checked by TLAPS and hold for every value of the constants that
the assumptions allow; TLC evaluates the assumptions in every run. They are
`MvccAssumption`, `WalAssumption`, `PageCacheAssumption` (finitely many pages and
threads, at least one frame), `TwoPhaseAssumption` (finitely many rows),
`StandbyAssumption` (finitely many readers), `DeferredAssumption` (a constraint has at
least one key before it is checked whole; the code's limit is 100 000) and
`ConnectionAssumption` (the mark for "no value" is not a value, the name of a
statement's own savepoint, which has a NUL in it, is not one a client can write, and a
key can be held at least once): nothing the code does not guarantee. In each module one inductive invariant carries the
properties, which are seldom inductive themselves.

**Locks** (`MvccEngineProofs`). `TypeCorrect`: `Spec => [](TypeOK /\ SavesInv)`; a
rollback cuts the undo log at a savepoint's mark, so `TypeOK` needs `SavesInv`, the
marks are within the log. `LocksBackStamps` is the invariant `LockInv`: an exclusive
holder is alone; running ids are below the next one; whoever has an unfinished
stamp in a chain holds the table's intention, and the row's lock unless the stamp is
that of a lone insert; the same for the versions an undo log will put back.
`RowLockSettles` (`LockedRowIsSettled`) and `TableLockQuiets`
(`LockedTableIsQuiet`) follow.

**Stored versions** (`MvccVersionProofs`). `SkipsOnlyCleanTables`
(`SkippedTableIsClean`): what a sweep has passed is clean as long as nobody wrote.
`LogsTellTheStore` is `VersionInv`, on top of `LockInv`: a transaction's undo log,
applied backwards, meets exactly the versions it made, so that what is left when it
is empty holds nothing of the transaction; unfinished versions lie on top; and what
a purge pass takes for settled has ended. From it `AbortLeavesNothing` (`EndedIsCommitted`) and `UnfinishedOnTop`
(`UncommittedOnTop`).

**Reads** (`MvccSnapshotProofs`). A chain is read through the set of transactions
whose stamps count. Read through the ended ones it gives the committed state; read
through those a view sees it gives the state when the view was taken, for as long
as the view is held: writers and rollbacks touch only stamps outside that set, a
commit moves a stamp that the view does not see, and purge removes what every view
sees past. That is `SnapshotInv` (`ViewsTellTheStory`). From it `ReadsTheSnapshot`
(`SnapshotReads`) and `FirstUpdater` (`FirstUpdaterWins`).

`RowReadsSerialize` is about the check at commit: `Spec /\ []PlainReads =>
SerializableRowReads`. The proof follows the two routes by which the code lets a
transaction pass. When the table's write version has not moved since its snapshot, no
transaction staged a write there (`CountInv`: the two versions differ by exactly
the staged writers); otherwise the walk down the row's chain has met no stamp newer
than the snapshot, so the value has not changed. `PlainReads` says that no
SERIALIZABLE transaction is inside a fresh read, which only DDL does; it is needed:
with a fresh read the own write goes over a version the snapshot does not show, and TLC
refutes the property for `MaxFresh = 1` and a SERIALIZABLE level.
`RowReadsSerializeWithoutDdl` is the instance `MaxFresh = 0`, which
`MvccSerializable` runs.

**Durability** (`EngineWalProofs`). `WalTyped` has no condition. The others speak of
an engine that has not gone on after a failed log write (`survived = 0`): past that
they are false, by finding 2. A crash cuts the log somewhere behind its fsynced
part, so the heart of the invariant `WalInv` (`LogTellsTheCommits`) speaks of every
such cut: the frames before it replay, over the image, to what a prefix of the
commits made, with every reported commit in the prefix. Appending an operation adds a cut
that replays like the one before; appending a marker adds one that takes the
transaction's operations in, and the row locks have kept everyone else's operations
on those rows before them. The other conjuncts: positions climb along file and
buffer, at most one marker per transaction, what the group commit takes for durable is
fsynced, and what the checkpoint's image covers is what its watermark says, between
publish and truncate too. No induction over the log is needed, because replay is
defined by the last operation on each row. Theorems: `PositionsOnlyClimb`
(`PositionsClimb` while `survived = 0`), `FailStopRecoversExactly`
(`FailStopIsExact`: on a disk where any write may fail). Without write faults
(`MaxFault = 0`, the instance `WalCrash` runs; crashes and power losses are not
limited), unconditionally: `CrashKeepsPositions` (`PositionsClimb`),
`CrashOpensAgain` (`OpensAgain`), `CrashRecoversExactly` (`RecoveryIsExact`),
`NextvalAlwaysFresh` (`NextvalNeverRepeats`).

**Two-phase commit** (`TwoPhaseProofs`). `TwoPhaseInv` (`TwoPhaseInvariant`) is about one
sequence of records, the disk: the image and the climbing frames past it, or the image
alone while a checkpoint has published and not truncated. Half of it holds of every cut of
the disk, so a crash keeps it: one `Prepare` per transaction, never both markers, a
prepared transaction has the lock of every row it wrote, and a name or a lock comes up
again only after the marker of its last holder. The other half says what the
running engine owes to the disk: whatever a client was told, or the transaction table says,
has its record behind the fsynced position or at the position the thread waits for. A
crash turns the second half into "the table is what the disk says" and a restart turns
that back. All of it is given up once `misread` is set. The checkpoint is the hard step:
the image is a new sequence, and what it carries must be what the old one said, in
whichever order the waiting transactions are written (the code goes by the place of their
`Prepare`; the model leaves it open, and the proof does not need it). Theorems:
`TwoPhaseTypeOK` (`TypeOK`), `TwoPhaseHolds` (`PreparedIsHeld`), `TwoPhaseOpens`
(`OpensAgain`: a restart never finds two holders of a lock) and `TwoPhaseKeepsPromises`
(`KeepsPromises`, the refinement of `PreparedDecision`: each step takes one decision, makes
a promise that was decided, or changes neither).

`TwoPhaseRecovers` (`RecoversPrepared`) is about values, and has an invariant of its own
on top of that one, `RebuildInv` (`TwoPhaseRebuilds`). What replay gives a row is said
without replay (`Shows`): the value of the last record that acts on it, which is an
image, or a write of a transaction that has its marker (of one that prepared, only the
writes after the `Begin` of its program count); `ShowsReplay` and `WaiterSets` tie this
to `Replay`. The invariant then says: the disk shows the committed rows, with the writes
of those who wait for their marker; every cut a crash may leave shows the rows of
some point of `order` (`CutRows`); and of a transaction that has not ended, the rows it
wrote are its own from its first write on, the last write to each is its net
effect (or, when a savepoint undid it, the row's old value), and a `Prepare` comes after
all of them and has its locks (`Mine`). A commit marker adds one entry to `order` and one
record to the disk, which is why every cut stays at some point of it; what a crash
cuts off lies after the `Prepare` of whoever comes back prepared, so nothing of its
writes is lost; and a checkpoint's image is a disk with one cut.

**Page cache** (`PageCacheProofs`). `StoreInv` (`StoreIsSound`): no two pages share a
frame, a page has one latest copy (in memory, in the spill or in the image), a frame in a
thread's hands is registered for the thread's own page or not at all, a latched
frame stays registered, and what a thread carries to `insert_frame` is still current
or will be refused by the spill generation. Hence `StoreTyped` (`TypeOK`), `DirtyCountExact`
(`DirtyCounted`), `ReadsCurrent` (`ReadsAreCurrent`) and, step by step,
`CacheImplementsPageMap` (`ImplementsPageMap`): every step changes at most the page
of one call, by that call's pending change, or nothing a caller sees.

**Standby** (`StandbyProofs`). `StandbyInv` (`SpentIdsStaySpent`) follows transaction ids
through both machines. Positions an image was archived at survive the primary's
crashes, and the standby is never past them. An id is *spent* at a position when an
image carries it or its end is logged behind the position; ends are unique and come
last, images' ids are in no record, and what the primary hands out after a crash lies
above all of them. Hence `StandbyTyped` (`TypeOK`, with the exact count of pauses),
`ImagesSurviveRecovery` (`StampIsSpent`) and `ReadersStayUndisturbed`
(`ReadersUndisturbed`).

`StandbyFollows` (`Follows`) compares replays of different pieces of one log: replay gives
a row the last effect on it, and the effect of a record depends on the whole piece it is
in. So what a standby shows is stated without
replay (`Shown`): a row is what the last transaction to commit among its writers made of
it, and a prepared transaction without an end waits with its writes. Every way of replaying
the log up to a position comes to that state provided the log is `Regular`: a
write carries its value, nothing follows an end, a prepare carries its program, and a row
goes to another transaction only after its writer's end. That is shown for the three
replays there are: the primary's history (`TruthIs`), what `records_past` picks of a
segment over the memory of the position before (`PastIs`), and an image followed by the
log past it (`OpenIs`). `FollowInv`
then adds to `StandbyInv` that the history is `Regular`, that the primary's table is what
the history says (`TableInv`), that nothing ran where an image was archived
(`QuietInv`), and that memory and images are `Shown` of their positions (`ShownInv`). An
image is one only of a position between transactions (`CleanAt`): hence the hypothesis
`~CutImages`, without which finding 3 refutes the statement. `AppliedRecordsSurvive` is the
property that finding 3 violates, proved under that hypothesis: an image inside a
transaction is the only way to lose applied records in this model.

**Connection** (`ConnectionProofs`). `SettleInv` (`EndsAreSettled`): the backup is
the value from before the transaction, taken by its first SET; a commit would leave what
the last plain SET or RESET asked for, or the value a RESET ALL did not see
(`Beneath`), a rollback what stood before (`Standing`); a cursor is closed, or one of the open transaction,
or was kept by a commit. Hence `ParametersSettle` (`SettingsSettle`) and
`OnlyHeldCursorsStay` (`CursorsSettle`).

`StoresFollow` is about the savepoints, of which the engine, the deferred queue and the
NOTIFY queue each keep a stack of their own, with names that repeat, and each cut and
popped by its own code. `FollowInv` relates them: the savepoints the engine has are
marked in the same order in the other two, and two savepoints set at the same write have
the same length of the deferred queue. The second part is what makes the statement
savepoints work: a statement that fails goes back to a mark it set itself, and that
mark may lie on top of one of the client's. `RowsInv` says that the queue asks about every
key that is held twice, and that its first entries up to a savepoint's mark ask about every
key that would be held twice if the transaction went back there, for the savepoints set
since SET CONSTRAINTS IMMEDIATE last dropped entries (`forgot` is a rollback past that). Whatever
replaces entries (the collapse to a whole-table check, the entries SET CONSTRAINTS
keeps) moves the marks by a monotone map, and what was asked before a mark is
asked before the moved one (`Moved`, `Carries`). A mark of the NOTIFY queue counts the
NOTIFYs among the writes before the savepoint, as long as `clean`. Theorems:
`NotifyQueueFollows` (`QueueFollowsTransaction`), `BrokenKeysStayOwed`
(`BrokenKeysAreOwed`) and `ConnectionTypeOK` (`TypeOK`).

What the proofs changed in the models: two definitions had CASE arms that overlap,
where TLA+ leaves the choice open (`PageCache`, `TwoPhase`); they are now IF chains in
the code's order. A standby's highest ended id is taken over positions, not over a
filtered sequence. `SelectSeq` and `FlattenSeq` take an operator and recurse, which the
prover does not see through: the filters of the queues, the frames recovery reads, the
records of an image and what `records_past` keeps are now given by the positions they keep (`Positions`, `Concat`).

## What only TLC checks

* Liveness, and anything with ENABLED (`StagedCommitsEnd`, `PurgeConverges`,
  `EndedTransactionsLetGo`, `CatchesUp`, `FinishersEnd`): outside the prover's reach.
* The three findings, which are violations.

Every invariant and every action property of a passing run is stated by a theorem.

The in-memory mode (`Durable = FALSE`) is covered by the theorems and by no run.

## What the models leave out

Of the transaction core: key locks and advisory locks, streaming scans (a scan
reads in one step, so the views that `scan_views` registers do not exist),
memory ceilings, index maintenance. Deletes during a
fresh read are of rows without older versions, which is what the executor asks
for (`DeletesFresh`: COMMENT deletes and inserts again, and its catalog has no updates); the engine itself would not refuse others. A table id or
row id is never reused.

Of durability: a failed fsync leaves its pages dirty; what a power loss leaves is
a prefix plus at most one short frame (no reordered writeback, no zero-filled
tail); publishing an image is atomic and durable; nextval waits for its own
record's position (the code may wait for a later one). Sealed logs, the archive,
point-in-time recovery and image segments are not there.

Of two-phase commit: who may finish whose transaction, DDL in a prepared program,
locks other than exclusive row locks. Ids that no record names are not handed out
again after a crash.

Of the standby: the files of the archive and their order of renames, encryption,
several standbys, what a promoted standby writes.

Of the page cache: the tree above it, the byte layout of spill and image, the
growth of the cache when nothing can be evicted beyond its effect that the insert
goes ahead.

Of the connection: the extended protocol, COPY, ON COMMIT actions, SET TRANSACTION,
authentication, cancellation; foreign keys and exclusion constraints, which are
checked from the same queue. One parameter, one cursor and one savepoint name
(used repeatedly) stand for many.

Not modelled at all, and why: the parser, analyzer and planner, expression
evaluation, joins, aggregation and the codecs make up most of the repository's
lines; they turn data into data within one call, share no state, and their
correctness is about values a small instance does not reach. Clients, the command
line and the simulation harness are callers of what is modelled. The rest is in
`PROJECT.json` under the components with status `not_modelled`.

## Plan

What is done is above. What is left, in this order:

1. `DurableStore`, an abstract specification of reported commits and crashes, and
   `EngineWal` shown to implement it.
2. Uncommitted DDL over the same undo log; streaming scans and their registered
   views; the directory entry and its fsync; pages lost by a failed fsync.
3. The extended protocol and ON COMMIT in `Connection`; the result cache over
   `data_version`.
