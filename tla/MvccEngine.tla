----------------------------- MODULE MvccEngine -----------------------------
(***************************************************************************)
(* The transaction core of the clustered MVCC engine                       *)
(* (crates/nusadb-btree/src/engine.rs, mvcc.rs): transactions, read views, *)
(* version chains, the no-wait lock table, write admission, savepoints,    *)
(* undo, the SERIALIZABLE commit check, the staged/finished commit and the *)
(* purge passes.                                                           *)
(*                                                                         *)
(* A row's versions are a sequence, newest first: element 1 is the leaf    *)
(* value, the rest the undo chain under it (which arena slots the chain is *)
(* threaded through is left out).  One action is one critical section of   *)
(* the code: a commit is a stage step and a finish step with the group     *)
(* fsync between them, an abort is one step per undo operation, a purge    *)
(* pass one step per row batch.  The log under it is module EngineWal.     *)
(***************************************************************************)
EXTENDS Naturals, Sequences, FiniteSets

CONSTANTS
    Table,          \* user tables
    NoTable,        \* not a table: a purge pass between two tables
    MaxRow,         \* bound: row ids are 1..MaxRow over all tables
    TableOf,        \* the table a row id belongs to
    InitRows,       \* rows a recovered log left behind, written by transaction 1
    MaxTxn,         \* bound: transaction ids are 1..MaxTxn
    Level,          \* isolation levels BEGIN may ask for
    MaxWrites,      \* bound: length of one transaction's undo log
    SaveName,       \* savepoint names
    LockModes,      \* modes explicit row and table locks are asked in (TRUE: exclusive)
    MaxFresh,       \* bound: nesting of begin_fresh_reads
    Purger,         \* threads that may run a purge pass
    Durable,        \* TRUE: the engine has a log; FALSE: the in-memory engine
    CanYield        \* TRUE: page-cache pressure may stop a purge pass early

Row == 1..MaxRow
Txn == 1..MaxTxn
NoTxn == 0                          \* mvcc::NO_XMAX
Loader == 1                         \* the transaction that wrote InitRows

ASSUME MvccAssumption ==
    /\ MaxRow \in Nat /\ MaxTxn \in Nat \ {0} /\ MaxWrites \in Nat /\ MaxFresh \in Nat
    /\ NoTable \notin Table
    /\ TableOf \in [Row -> Table]
    /\ InitRows \subseteq Row
    /\ Level \subseteq {"ReadCommitted", "RepeatableRead", "Serializable"}
    /\ LockModes \subseteq BOOLEAN
    /\ Durable \in BOOLEAN /\ CanYield \in BOOLEAN

VARIABLES
    nextTxn,        \* TxnDomain.next_txn_id
    active,         \* TxnDomain.active: begun and not yet ended
    live,           \* the keys of TxnDomain.txns
    staged,         \* TxnDomain.staged: marker appended, fsync not returned
    stagedVer,      \* TxnDomain.table_write_versions_staged
    finishedVer,    \* TxnDomain.table_write_versions_finished
    tableLock,      \* TxnDomain.locks, the LockId::Table entries
    rowLock,        \* TxnDomain.locks, the LockId::Row entries
    level,          \* TxnState.level
    pinned,         \* TxnState.pinned: the statement snapshot
    fresh,          \* TxnState.fresh_reads: nesting depth and saved snapshot
    undo,           \* TxnState.undo
    saves,          \* TxnState.savepoints
    reads,          \* TxnState.reads
    predReads,      \* TxnState.predicate_reads
    beginVer,       \* TxnState.write_versions_at_begin
    undoing,        \* undo operations a rollback has taken and not yet applied
    chain,          \* the stored versions of every row, newest first
    minted,         \* rows below their table's next_row_id
    clean,          \* purge_clean_gen = purge_gen, per table
    purge,          \* the purge pass each purger is in
    \* History variables: what the transactions should see, kept apart from
    \* the mechanism that makes them see it.
    committed,      \* the latest finished value of every row
    serial,         \* the value of every row if commits ran in staging order
    snap,           \* committed, at the moment a transaction pinned its view
    mine,           \* what a transaction itself last wrote to a row
    aborted         \* transactions whose abort is complete

txnVars   == <<nextTxn, active, live, staged>>
verVars   == <<stagedVer, finishedVer>>
lockVars  == <<tableLock, rowLock>>
stateVars == <<level, pinned, fresh, undo, saves, reads, predReads, beginVer, undoing>>
rowVars   == <<chain, minted, clean, purge>>
histVars  == <<committed, serial, snap, mine, aborted>>
vars == <<txnVars, verVars, lockVars, stateVars, rowVars, histVars>>

-----------------------------------------------------------------------------
(* Tuples, versions and views                                              *)

\* A tuple is named by the write that produced it: its transaction and the
\* position the write takes in that transaction's undo log.
Tuple == Nat \X Nat
NoTuple == <<0, 0>>                 \* the row is not there
Untouched == <<0, 1>>               \* in `mine`: the transaction did not write the row

Version == [xmin : Txn, xmax : Txn \cup {NoTxn}, tuple : Tuple]
NoVersion == [xmin |-> NoTxn, xmax |-> NoTxn, tuple |-> NoTuple]
View == [own : Txn, active : SUBSET Txn, horizon : 1..(MaxTxn + 1)]
NoView == [own |-> NoTxn, active |-> {}, horizon |-> 0]

UndoOp == [op : {"Inserted"}, row : Row, old : {NoVersion}]
          \cup [op : {"Updated", "Deleted"}, row : Row, old : Version]

RowsOf(tab) == {r \in Row : TableOf[r] = tab}

\* Mutant of Sees: the horizon counted in.
SeesHorizon(view, x) == x = view.own \/ (x <= view.horizon /\ x \notin view.active)

\* ReadView::sees
Sees(view, x) == x = view.own \/ (x < view.horizon /\ x \notin view.active)

\* visible_version: the newest version whose creator the view sees decides.
VisibleTuple(view, c) ==
    LET seen == {i \in 1..Len(c) : Sees(view, c[i].xmin)}
        i == CHOOSE k \in seen : \A j \in seen : k <= j
    IN  IF seen = {} \/ (c[i].xmax # NoTxn /\ Sees(view, c[i].xmax))
        THEN NoTuple ELSE c[i].tuple

\* Mutant of FreshView: the horizon one past the next id.
FreshViewPastNext(own, act, horizon) ==
    [own |-> own, active |-> act \ {own}, horizon |-> horizon + 1]

\* TxnDomain::fresh_view, over the active set and next id given.
FreshView(own, act, horizon) ==
    [own |-> own, active |-> act \ {own}, horizon |-> horizon]

\* TxnState::snapshot: the snapshot saved while reading fresh, else the pinned one.
Snapshot(t) == IF fresh[t].depth > 0 THEN fresh[t].saved ELSE pinned[t]
NoFresh == [depth |-> 0, saved |-> NoView, savedSnap |-> [r \in Row |-> NoTuple]]

\* A session calls the engine for t one call at a time: no commit or partial
\* rollback of t is under way.
Idle(t) == t \in live \ staged /\ undoing[t] = <<>>

\* The tables whose row state t's undo log touches (touched_tables).
Touched(t) == {TableOf[undo[t][i].row] : i \in 1..Len(undo[t])}
Bumped(ver, t) == [tab \in Table |-> IF tab \in Touched(t) THEN ver[tab] + 1 ELSE ver[tab]]

-----------------------------------------------------------------------------
(* The no-wait lock table                                                  *)

Mode == {"none", "shared", "exclusive"}

\* Mutant of CanLock: a shared request is not checked against an exclusive holder.
CanLockShared(holders, t, exclusive) ==
    exclusive => \A u \in Txn \ {t} : holders[u] = "none"

\* acquire_lock, the decision: re-entrant, sole-holder upgrade, no wait.
CanLock(holders, t, exclusive) ==
    IF holders[t] # "none"
    THEN holders[t] = "exclusive" \/ ~exclusive \/ \A u \in Txn \ {t} : holders[u] = "none"
    ELSE \A u \in Txn \ {t} :
            IF exclusive THEN holders[u] = "none" ELSE holders[u] # "exclusive"

\* acquire_lock, the effect: a held lock is never weakened.
Granted(holders, t, exclusive) ==
    [holders EXCEPT ![t] = IF exclusive \/ @ = "exclusive" THEN "exclusive" ELSE "shared"]

\* Mutant of Intend: the intention is recorded without a conflict check.
IntendUnchecked(t, tab) == tableLock' = [tableLock EXCEPT ![tab] = Granted(@, t, FALSE)]

\* lock_table_intention, the shared table lock every row write and row lock takes.
Intend(t, tab) ==
    /\ CanLock(tableLock[tab], t, FALSE)
    /\ tableLock' = [tableLock EXCEPT ![tab] = Granted(@, t, FALSE)]

AcquireRow(t, r, exclusive) ==
    /\ CanLock(rowLock[r], t, exclusive)
    /\ rowLock' = [rowLock EXCEPT ![r] = Granted(@, t, exclusive)]

\* Mutant of ReleaseLocks: the table entries stay.
ReleaseRowLocks(t) ==
    /\ rowLock' = [r \in Row |-> [rowLock[r] EXCEPT ![t] = "none"]]
    /\ UNCHANGED tableLock

\* release_locks: everything t holds, once, when it ends.
ReleaseLocks(t) ==
    /\ tableLock' = [tab \in Table |-> [tableLock[tab] EXCEPT ![t] = "none"]]
    /\ rowLock' = [r \in Row |-> [rowLock[r] EXCEPT ![t] = "none"]]

\* lock_row / lock_row_current: the intention, then the row's lock.
LockRow(t, r, exclusive) ==
    /\ Idle(t)
    /\ Intend(t, TableOf[r])
    /\ AcquireRow(t, r, exclusive)
    /\ UNCHANGED <<txnVars, verVars, stateVars, rowVars, histVars>>

\* The row lock is refused after the intention was granted: the intention stays.
LockRowRefused(t, r, exclusive) ==
    /\ Idle(t)
    /\ Intend(t, TableOf[r])
    /\ ~CanLock(rowLock[r], t, exclusive)
    /\ UNCHANGED <<rowLock, txnVars, verVars, stateVars, rowVars, histVars>>

\* lock_table: ACCESS SHARE or ACCESS EXCLUSIVE.
LockTable(t, tab, exclusive) ==
    /\ Idle(t)
    /\ CanLock(tableLock[tab], t, exclusive)
    /\ tableLock' = [tableLock EXCEPT ![tab] = Granted(@, t, exclusive)]
    /\ UNCHANGED <<rowLock, txnVars, verVars, stateVars, rowVars, histVars>>

-----------------------------------------------------------------------------
(* Begin, snapshots and reads                                              *)

\* begin: mint the id, join the active set, pin the view.  (The admission pause
\* of a checkpoint only delays it.)
Begin(t, lvl) ==
    /\ t = nextTxn /\ nextTxn <= MaxTxn
    /\ nextTxn' = nextTxn + 1
    /\ active' = active \cup {t}
    /\ live' = live \cup {t}
    /\ level' = [level EXCEPT ![t] = lvl]
    /\ pinned' = [pinned EXCEPT ![t] = FreshView(t, active', nextTxn')]
    /\ beginVer' = [beginVer EXCEPT ![t] =
                        IF lvl = "Serializable" THEN finishedVer
                                                ELSE [tab \in Table |-> 0]]
    /\ snap' = [snap EXCEPT ![t] = committed]
    /\ UNCHANGED <<staged, verVars, lockVars, fresh, undo, saves, reads, predReads,
                   undoing, rowVars, committed, serial, mine, aborted>>

\* begin_statement: READ COMMITTED takes a new snapshot for every statement
\* (READ UNCOMMITTED is treated alike everywhere); the other levels keep theirs.
BeginStatement(t) ==
    /\ Idle(t) /\ level[t] = "ReadCommitted"
    /\ pinned' = [pinned EXCEPT ![t] = FreshView(t, active, nextTxn)]
    /\ snap' = [snap EXCEPT ![t] = committed]
    /\ UNCHANGED <<txnVars, verVars, lockVars, level, fresh, undo, saves, reads, predReads,
                   beginVer, undoing, rowVars, committed, serial, mine, aborted>>

\* begin_fresh_reads: a DDL statement reads the latest committed state; the
\* outermost call saves the snapshot to go back to.
BeginFreshReads(t) ==
    /\ Idle(t) /\ fresh[t].depth < MaxFresh
    /\ fresh' = [fresh EXCEPT ![t] =
            IF @.depth = 0 THEN [depth |-> 1, saved |-> pinned[t], savedSnap |-> snap[t]]
                           ELSE [fresh[t] EXCEPT !.depth = @ + 1]]
    /\ pinned' = [pinned EXCEPT ![t] = FreshView(t, active, nextTxn)]
    /\ snap' = [snap EXCEPT ![t] = committed]
    /\ UNCHANGED <<txnVars, verVars, lockVars, level, undo, saves, reads, predReads,
                   beginVer, undoing, rowVars, committed, serial, mine, aborted>>

\* end_fresh_reads: the outermost call puts the saved snapshot back.
EndFreshReads(t) ==
    /\ Idle(t) /\ fresh[t].depth > 0
    /\ IF fresh[t].depth = 1
       THEN /\ pinned' = [pinned EXCEPT ![t] = fresh[t].saved]
            /\ snap' = [snap EXCEPT ![t] = fresh[t].savedSnap]
            /\ fresh' = [fresh EXCEPT ![t] = NoFresh]
       ELSE /\ fresh' = [fresh EXCEPT ![t].depth = @ - 1]
            /\ UNCHANGED <<pinned, snap>>
    /\ UNCHANGED <<txnVars, verVars, lockVars, level, undo, saves, reads, predReads,
                   beginVer, undoing, rowVars, committed, serial, mine, aborted>>

\* scan by a SERIALIZABLE transaction: it reads the table whole and records
\* the visible rows and the table as a predicate.  (A scan at another level
\* changes no state here.)
Scan(t, tab) ==
    /\ Idle(t) /\ level[t] = "Serializable"
    /\ reads' = [reads EXCEPT ![t] =
            @ \cup {r \in RowsOf(tab) : VisibleTuple(pinned[t], chain[r]) # NoTuple}]
    /\ predReads' = [predReads EXCEPT ![t] = @ \cup {tab}]
    /\ UNCHANGED <<txnVars, verVars, lockVars, level, pinned, fresh, undo, saves, beginVer,
                   undoing, rowVars, histVars>>

\* index_scan by a SERIALIZABLE transaction: it records the row, no predicate.
IndexScan(t, r) ==
    /\ Idle(t) /\ level[t] = "Serializable"
    /\ VisibleTuple(pinned[t], chain[r]) # NoTuple
    /\ reads' = [reads EXCEPT ![t] = @ \cup {r}]
    /\ UNCHANGED <<txnVars, verVars, lockVars, level, pinned, fresh, undo, saves, predReads,
                   beginVer, undoing, rowVars, histVars>>

-----------------------------------------------------------------------------
(* Row writes                                                              *)

\* Mutant of RowWritten: a sweep under way does not notice the write.
RowWrittenUnnoticed(tab) == clean' = [clean EXCEPT ![tab] = FALSE] /\ UNCHANGED purge

\* The table's writer latch bumps purge_gen on release (RowWrite::drop): the
\* table is no longer known clean, nor is a sweep in progress up to date.
RowWritten(tab) ==
    /\ clean' = [clean EXCEPT ![tab] = FALSE]
    /\ purge' = [p \in Purger |->
            IF purge[p].tab = tab THEN [purge[p] EXCEPT !.current = FALSE] ELSE purge[p]]

\* Mutants of Admitted: the row lock taken to be enough; the snapshot not asked.
AdmittedByLock(t, v) == v.xmax = NoTxn
AdmittedBlind(t, v) == ~(v.xmin # t /\ v.xmin \in active) /\ v.xmax = NoTxn

\* admit_write for a row whose newest version is v.
Admitted(t, v) ==
    /\ ~(v.xmin # t /\ v.xmin \in active)
    /\ v.xmax = NoTxn
    /\ Sees(pinned[t], v.xmin)

NewTuple(t) == <<t, Len(undo[t]) + 1>>
PushUndo(t, op, r, old) ==
    undo' = [undo EXCEPT ![t] = Append(@, [op |-> op, row |-> r, old |-> old])]
CanWrite(t) == Idle(t) /\ Len(undo[t]) < MaxWrites

\* insert: the table intention, a fresh row id, one version.  Takes no row lock.
Insert(t, r) ==
    /\ CanWrite(t)
    /\ r \notin minted /\ \A q \in RowsOf(TableOf[r]) : q < r => q \in minted
    /\ Intend(t, TableOf[r])
    /\ minted' = minted \cup {r}
    /\ chain' = [chain EXCEPT ![r] =
            <<[xmin |-> t, xmax |-> NoTxn, tuple |-> NewTuple(t)]>>]
    /\ PushUndo(t, "Inserted", r, NoVersion)
    /\ RowWritten(TableOf[r])
    /\ mine' = [mine EXCEPT ![t][r] = NewTuple(t)]
    /\ UNCHANGED <<txnVars, verVars, rowLock, level, pinned, fresh, saves, reads, predReads,
                   beginVer, undoing, committed, serial, snap, aborted>>

\* update: the intention, the row's exclusive lock, admission against the
\* newest version, which is then parked under the new one.
Update(t, r) ==
    /\ CanWrite(t) /\ chain[r] # <<>>
    /\ Intend(t, TableOf[r])
    /\ AcquireRow(t, r, TRUE)
    /\ Admitted(t, chain[r][1])
    /\ chain' = [chain EXCEPT ![r] =
            <<[xmin |-> t, xmax |-> NoTxn, tuple |-> NewTuple(t)]>> \o @]
    /\ PushUndo(t, "Updated", r, chain[r][1])
    /\ RowWritten(TableOf[r])
    /\ mine' = [mine EXCEPT ![t][r] = NewTuple(t)]
    /\ UNCHANGED <<txnVars, verVars, level, pinned, fresh, saves, reads, predReads,
                   beginVer, undoing, minted, committed, serial, snap, aborted>>

\* delete: like update, but it stamps xmax on the newest version in place.
Delete(t, r) ==
    /\ CanWrite(t) /\ chain[r] # <<>>
    /\ Intend(t, TableOf[r])
    /\ AcquireRow(t, r, TRUE)
    /\ Admitted(t, chain[r][1])
    /\ chain' = [chain EXCEPT ![r][1].xmax = t]
    /\ PushUndo(t, "Deleted", r, chain[r][1])
    /\ RowWritten(TableOf[r])
    /\ mine' = [mine EXCEPT ![t][r] = NoTuple]
    /\ UNCHANGED <<txnVars, verVars, level, pinned, fresh, saves, reads, predReads,
                   beginVer, undoing, minted, committed, serial, snap, aborted>>

\* An update or delete that is refused keeps the locks it took: the intention
\* when the row lock is held by another; both when admission refuses or the row
\* is gone, and then the latch was taken, which bumps purge_gen all the same.
WriteRefused(t, r) ==
    /\ Idle(t) /\ r \in minted
    /\ Intend(t, TableOf[r])
    /\ \/ /\ ~CanLock(rowLock[r], t, TRUE)
          /\ UNCHANGED <<rowLock, clean, purge>>
       \/ /\ chain[r] # <<>> => ~Admitted(t, chain[r][1])
          /\ AcquireRow(t, r, TRUE)
          /\ RowWritten(TableOf[r])
    /\ UNCHANGED <<txnVars, verVars, stateVars, chain, minted, histVars>>

-----------------------------------------------------------------------------
(* Savepoints, undo and rollback                                           *)

HasSave(t, name) == \E i \in 1..Len(saves[t]) : saves[t][i].name = name
SaveAt(t, name) == CHOOSE i \in 1..Len(saves[t]) : saves[t][i].name = name

\* savepoint: a same-named one is replaced.  (There is at most one of a name.)
OtherSaves(t, name) ==
    LET i == SaveAt(t, name)
    IN  IF HasSave(t, name)
        THEN SubSeq(saves[t], 1, i - 1) \o SubSeq(saves[t], i + 1, Len(saves[t]))
        ELSE saves[t]

Savepoint(t, name) ==
    /\ Idle(t)
    /\ saves' = [saves EXCEPT ![t] =
            Append(OtherSaves(t, name),
                   [name |-> name, mark |-> Len(undo[t]), mine |-> mine[t]])]
    /\ UNCHANGED <<txnVars, verVars, lockVars, level, pinned, fresh, undo, reads, predReads,
                   beginVer, undoing, rowVars, histVars>>

\* rollback_to: the savepoint stays, later ones go, and the undo log's tail is
\* taken off to be applied.
RollbackTo(t, name) ==
    /\ Idle(t) /\ HasSave(t, name)
    /\ LET i == SaveAt(t, name)
           mark == saves[t][i].mark
       IN  /\ saves' = [saves EXCEPT ![t] = SubSeq(@, 1, i)]
           /\ undoing' = [undoing EXCEPT ![t] = SubSeq(undo[t], mark + 1, Len(undo[t]))]
           /\ undo' = [undo EXCEPT ![t] = SubSeq(@, 1, mark)]
           /\ mine' = [mine EXCEPT ![t] = saves[t][i].mine]
    /\ UNCHANGED <<txnVars, verVars, lockVars, level, pinned, fresh, reads, predReads,
                   beginVer, rowVars, committed, serial, snap, aborted>>

\* release_savepoint: the savepoint and every later one are forgotten.
ReleaseSavepoint(t, name) ==
    /\ Idle(t) /\ HasSave(t, name)
    /\ saves' = [saves EXCEPT ![t] = SubSeq(@, 1, SaveAt(t, name) - 1)]
    /\ UNCHANGED <<txnVars, verVars, lockVars, level, pinned, fresh, undo, reads, predReads,
                   beginVer, undoing, rowVars, histVars>>

\* undo_ops, one operation: an insert is removed, an update puts the old value
\* back over the version it parked, a delete clears its stamp and keeps the
\* chain as it is now.
Undone(op, c) ==
    CASE op.op = "Inserted" -> <<>>
      [] op.op = "Updated"  -> <<op.old>> \o SubSeq(c, 3, Len(c))
      [] op.op = "Deleted"  -> [c EXCEPT ![1].xmax = op.old.xmax]

UndoStep(t) ==
    /\ undoing[t] # <<>>
    /\ LET op == undoing[t][Len(undoing[t])]
       IN  /\ chain' = [chain EXCEPT ![op.row] = Undone(op, @)]
           /\ RowWritten(TableOf[op.row])
    /\ undoing' = [undoing EXCEPT ![t] = SubSeq(@, 1, Len(@) - 1)]
    /\ UNCHANGED <<txnVars, verVars, lockVars, level, pinned, fresh, undo, saves, reads,
                   predReads, beginVer, minted, histVars>>

\* The transaction's state leaves the txns map.
Forget(t) ==
    /\ live' = live \ {t}
    /\ level' = [level EXCEPT ![t] = "none"]
    /\ pinned' = [pinned EXCEPT ![t] = NoView]
    /\ fresh' = [fresh EXCEPT ![t] = NoFresh]
    /\ undo' = [undo EXCEPT ![t] = <<>>]
    /\ saves' = [saves EXCEPT ![t] = <<>>]
    /\ reads' = [reads EXCEPT ![t] = {}]
    /\ predReads' = [predReads EXCEPT ![t] = {}]
    /\ beginVer' = [beginVer EXCEPT ![t] = [tab \in Table |-> 0]]
    /\ snap' = [snap EXCEPT ![t] = [r \in Row |-> NoTuple]]
    /\ mine' = [mine EXCEPT ![t] = [r \in Row |-> Untouched]]

\* rollback, and the first half of every failed commit (take_txn): the state is
\* taken out of the map, its undo log waits to be applied, and the transaction
\* stays in `active`.
Taken(t) ==
    /\ Forget(t)
    /\ undoing' = [undoing EXCEPT ![t] = undo[t]]
    /\ UNCHANGED <<nextTxn, active, staged, verVars, lockVars, rowVars,
                   committed, serial, aborted>>

Rollback(t) == Idle(t) /\ Taken(t)

\* Mutant of AbortEnd: before the versions are gone.
AbortEndEarly(t) ==
    /\ t \in active \ live
    /\ active' = active \ {t} /\ aborted' = aborted \cup {t}
    /\ ReleaseLocks(t)
    /\ UNCHANGED <<nextTxn, live, staged, verVars, stateVars, rowVars,
                   committed, serial, snap, mine>>

\* abort_with, last: once every version is gone the transaction leaves `active`
\* and drops its locks.
AbortEnd(t) ==
    /\ t \in active \ live /\ undoing[t] = <<>>
    /\ active' = active \ {t}
    /\ ReleaseLocks(t)
    /\ aborted' = aborted \cup {t}
    /\ UNCHANGED <<nextTxn, live, staged, verVars, stateVars, rowVars,
                   committed, serial, snap, mine>>

-----------------------------------------------------------------------------
(* Commit                                                                  *)

\* Mutant of Conflicting: a staged writer does not count yet.
ConflictingFinished(t, x) == x # t /\ ~Sees(Snapshot(t), x) /\ x \notin active

\* A stamp is a conflicting write for t: a transaction t's snapshot cannot see
\* made it, and it has committed or is staged to.
Conflicting(t, x) ==
    /\ x # t /\ ~Sees(Snapshot(t), x)
    /\ x \notin active \/ x \in staged

\* Mutant of WriteMoved: goes by the commits that have finished.
WriteMovedFinished(t, tab) == finishedVer[tab] # beginVer[t][tab]

\* A table no transaction staged a write to since t began needs no check.
WriteMoved(t, tab) == stagedVer[tab] # beginVer[t][tab]

\* Mutant of RowConflict: only the newest version is looked at.
RowConflictNewest(t, r) ==
    /\ chain[r] # <<>>
    /\ \/ Conflicting(t, chain[r][1].xmin)
       \/ chain[r][1].xmax # NoTxn /\ Conflicting(t, chain[r][1].xmax)

\* The row-level walk: from the newest version down to the one t's snapshot
\* sees, inclusive.
RowConflict(t, r) ==
    \E i \in 1..Len(chain[r]) :
        /\ \A j \in 1..(i - 1) : ~Sees(Snapshot(t), chain[r][j].xmin)
        /\ \/ Conflicting(t, chain[r][i].xmin)
           \/ chain[r][i].xmax # NoTxn /\ Conflicting(t, chain[r][i].xmax)

\* The full-scan check looks at the newest version of every row of the table.
PhantomConflict(t, tab) ==
    \E r \in RowsOf(tab) : chain[r] # <<>> /\ Conflicting(t, chain[r][1].xmin)

SerializableReadConflict(t) ==
    /\ level[t] = "Serializable"
    /\ \/ \E r \in reads[t] : WriteMoved(t, TableOf[r]) /\ RowConflict(t, r)
       \/ \E tab \in predReads[t] : WriteMoved(t, tab) /\ PhantomConflict(t, tab)

\* Overlay t's own writes on a row state.
WithWrites(rows, t) ==
    [r \in Row |-> IF mine[t][r] = Untouched THEN rows[r] ELSE mine[t][r]]

\* commit, up to the fsync: under the commit gate, check, append the marker,
\* join the staged set.
CommitStage(t) ==
    /\ Idle(t) /\ Durable
    /\ undo[t] # <<>> /\ ~SerializableReadConflict(t)
    /\ staged' = staged \cup {t}
    /\ stagedVer' = Bumped(stagedVer, t)
    /\ serial' = WithWrites(serial, t)
    /\ UNCHANGED <<nextTxn, active, live, finishedVer, lockVars, stateVars, rowVars,
                   committed, snap, mine, aborted>>

\* The end of every commit (finish_commit): out of the map and of `active`,
\* locks released, the writes visible to whoever takes a view next.
FinishCommit(t) ==
    /\ Forget(t)
    /\ active' = active \ {t}
    /\ ReleaseLocks(t)
    /\ committed' = WithWrites(committed, t)
    /\ UNCHANGED <<nextTxn, undoing, rowVars, aborted>>

\* commit, after the group fsync returned.
CommitFinish(t) ==
    /\ t \in staged
    /\ staged' = staged \ {t}
    /\ finishedVer' = Bumped(finishedVer, t)
    /\ FinishCommit(t)
    /\ UNCHANGED <<stagedVer, serial>>

\* commit with no durability point: the in-memory engine, and a transaction that
\* wrote nothing (no marker, no fsync; it has no version to bump either).  Stage
\* and finish coincide.
CommitAtOnce(t) ==
    /\ Idle(t) /\ (Durable => undo[t] = <<>>)
    /\ ~SerializableReadConflict(t)
    /\ stagedVer' = Bumped(stagedVer, t)
    /\ finishedVer' = Bumped(finishedVer, t)
    /\ serial' = WithWrites(serial, t)
    /\ FinishCommit(t)
    /\ UNCHANGED staged

\* commit refused by the antidependency check: aborted like a rollback.
CommitConflict(t) == Idle(t) /\ SerializableReadConflict(t) /\ Taken(t)

\* commit whose marker could not be appended (a full disk): aborted too.
CommitAppendFails(t) ==
    /\ Idle(t) /\ Durable
    /\ undo[t] # <<>> /\ ~SerializableReadConflict(t)
    /\ Taken(t)

-----------------------------------------------------------------------------
(* Purge                                                                   *)

NoPurge == [on |-> FALSE, views |-> {}, active |-> {}, horizon |-> 0,
            todo |-> {}, tab |-> NoTable, cursor |-> 0, left |-> FALSE, current |-> FALSE]

\* purge_snapshot: every pinned view, the snapshots saved behind a fresh read
\* included, the active set and the id horizon.
PurgeStart(p) ==
    /\ ~purge[p].on
    /\ purge' = [purge EXCEPT ![p] = [NoPurge EXCEPT
            !.on = TRUE,
            !.views = {pinned[t] : t \in live}
                      \cup {fresh[t].saved : t \in {u \in live : fresh[u].depth > 0}},
            !.active = active,
            !.horizon = nextTxn,
            !.todo = Table]]
    /\ UNCHANGED <<txnVars, verVars, lockVars, stateVars, chain, minted, clean, histVars>>

\* Mutant of Settled: ended is taken to be enough.
SettledEnded(p, x) == x < purge[p].horizon /\ x \notin purge[p].active

\* A stamp the snapshot can vouch for: ended, and seen by every pinned view.
Settled(p, x) ==
    /\ x < purge[p].horizon /\ x \notin purge[p].active
    /\ \A v \in purge[p].views : Sees(v, x)

\* The next table: skipped when nothing changed since a sweep that left nothing.
PurgeTable(p, tab) ==
    /\ purge[p].on /\ purge[p].tab = NoTable /\ tab \in purge[p].todo
    /\ purge' = [purge EXCEPT ![p] =
            IF clean[tab]
            THEN [purge[p] EXCEPT !.todo = @ \ {tab}]
            ELSE [purge[p] EXCEPT !.todo = @ \ {tab}, !.tab = tab, !.cursor = 1,
                                  !.left = FALSE, !.current = TRUE]]
    /\ UNCHANGED <<txnVars, verVars, lockVars, stateVars, chain, minted, clean, histVars>>

\* One batch (PURGE_ROW_BATCH is one row here), under the writer latch and the
\* reclamation gate: a settled delete removes the row, a settled newest version
\* loses the chain under it.
PurgeAhead(p) == {r \in RowsOf(purge[p].tab) : r >= purge[p].cursor /\ chain[r] # <<>>}

PurgedChain(p, c) ==
    IF c[1].xmax # NoTxn /\ Settled(p, c[1].xmax) THEN <<>>
    ELSE IF Settled(p, c[1].xmin) THEN <<c[1]>> ELSE c

LeftForLater(p, c) ==
    \/ c[1].xmax # NoTxn /\ ~Settled(p, c[1].xmax)
    \/ c[1].xmax = NoTxn /\ Len(c) > 1 /\ ~Settled(p, c[1].xmin)

PurgeRow(p) ==
    /\ purge[p].on /\ purge[p].tab # NoTable
    /\ \E r \in PurgeAhead(p) :
        /\ \A q \in PurgeAhead(p) : r <= q
        /\ chain' = [chain EXCEPT ![r] = PurgedChain(p, @)]
        /\ purge' = [purge EXCEPT ![p].cursor = r + 1,
                                  ![p].left = @ \/ LeftForLater(p, chain[r])]
    /\ UNCHANGED <<txnVars, verVars, lockVars, stateVars, minted, clean, histVars>>

\* Mutant of PurgeTableEnd: clean although something was left for later.
PurgeTableEndForgets(p) ==
    /\ purge[p].on /\ purge[p].tab # NoTable /\ PurgeAhead(p) = {}
    /\ clean' = [clean EXCEPT ![purge[p].tab] = purge[p].current]
    /\ purge' = [purge EXCEPT ![p] = [@ EXCEPT !.tab = NoTable, !.cursor = 0,
                                               !.left = FALSE, !.current = FALSE]]
    /\ UNCHANGED <<txnVars, verVars, lockVars, stateVars, chain, minted, histVars>>

\* The sweep read every row: with nothing left for later the table counts as
\* clean as of the generation the sweep started from.
PurgeTableEnd(p) ==
    /\ purge[p].on /\ purge[p].tab # NoTable /\ PurgeAhead(p) = {}
    /\ clean' = IF purge[p].left THEN clean
                ELSE [clean EXCEPT ![purge[p].tab] = purge[p].current]
    /\ purge' = [purge EXCEPT ![p] = [@ EXCEPT !.tab = NoTable, !.cursor = 0,
                                               !.left = FALSE, !.current = FALSE]]
    /\ UNCHANGED <<txnVars, verVars, lockVars, stateVars, chain, minted, histVars>>

\* Changed pages fill half the page cache: the pass stops where it is.
PurgeYield(p) ==
    /\ CanYield /\ purge[p].on
    /\ purge' = [purge EXCEPT ![p] = NoPurge]
    /\ UNCHANGED <<txnVars, verVars, lockVars, stateVars, chain, minted, clean, histVars>>

PurgeEnd(p) ==
    /\ purge[p].on /\ purge[p].tab = NoTable /\ purge[p].todo = {}
    /\ purge' = [purge EXCEPT ![p] = NoPurge]
    /\ UNCHANGED <<txnVars, verVars, lockVars, stateVars, chain, minted, clean, histVars>>

-----------------------------------------------------------------------------
(* The specification                                                       *)

\* An engine just opened on a log whose transaction 1 wrote InitRows.
InitTuple(r) == IF r \in InitRows THEN <<Loader, r>> ELSE NoTuple

Init ==
    /\ nextTxn = Loader + 1
    /\ active = {} /\ live = {} /\ staged = {}
    /\ stagedVer = [tab \in Table |-> 0] /\ finishedVer = [tab \in Table |-> 0]
    /\ tableLock = [tab \in Table |-> [t \in Txn |-> "none"]]
    /\ rowLock = [r \in Row |-> [t \in Txn |-> "none"]]
    /\ level = [t \in Txn |-> "none"]
    /\ pinned = [t \in Txn |-> NoView]
    /\ fresh = [t \in Txn |-> NoFresh]
    /\ undo = [t \in Txn |-> <<>>]
    /\ saves = [t \in Txn |-> <<>>]
    /\ reads = [t \in Txn |-> {}]
    /\ predReads = [t \in Txn |-> {}]
    /\ beginVer = [t \in Txn |-> [tab \in Table |-> 0]]
    /\ undoing = [t \in Txn |-> <<>>]
    /\ chain = [r \in Row |-> IF r \in InitRows
                    THEN <<[xmin |-> Loader, xmax |-> NoTxn, tuple |-> InitTuple(r)]>>
                    ELSE <<>>]
    /\ minted = InitRows
    /\ clean = [tab \in Table |-> FALSE]
    /\ purge = [p \in Purger |-> NoPurge]
    /\ committed = [r \in Row |-> InitTuple(r)]
    /\ serial = [r \in Row |-> InitTuple(r)]
    /\ snap = [t \in Txn |-> [r \in Row |-> NoTuple]]
    /\ mine = [t \in Txn |-> [r \in Row |-> Untouched]]
    /\ aborted = {}

\* What the executor never asks for: DDL reading fresh rewrites rows and deletes
\* rows of catalogs that are never updated (executor/ddl.rs, comment.rs); it does
\* not delete a row that has an older version.
DeletesFresh(t, r) == fresh[t].depth > 0 => Len(chain[r]) = 1

Session(t) ==
    \/ \E lvl \in Level : Begin(t, lvl)
    \/ BeginStatement(t) \/ BeginFreshReads(t) \/ EndFreshReads(t)
    \/ \E tab \in Table : Scan(t, tab)
    \/ \E r \in Row : IndexScan(t, r) \/ Insert(t, r) \/ Update(t, r)
                      \/ (DeletesFresh(t, r) /\ Delete(t, r)) \/ WriteRefused(t, r)
    \/ \E r \in Row, exclusive \in LockModes :
            LockRow(t, r, exclusive) \/ LockRowRefused(t, r, exclusive)
    \/ \E tab \in Table, exclusive \in LockModes : LockTable(t, tab, exclusive)
    \/ \E name \in SaveName :
            Savepoint(t, name) \/ RollbackTo(t, name) \/ ReleaseSavepoint(t, name)
    \/ Rollback(t)
    \/ CommitStage(t) \/ CommitAtOnce(t)
    \/ CommitConflict(t) \/ CommitAppendFails(t)

\* What the engine does on its own once a call is under way.
Engine(t) == UndoStep(t) \/ AbortEnd(t) \/ CommitFinish(t)

PurgePass(p) ==
    \/ PurgeStart(p) \/ (\E tab \in Table : PurgeTable(p, tab))
    \/ PurgeRow(p) \/ PurgeTableEnd(p) \/ PurgeEnd(p)

Next ==
    \/ \E t \in Txn : Session(t) \/ Engine(t)
    \/ \E p \in Purger : PurgePass(p) \/ PurgeYield(p)

Spec == Init /\ [][Next]_vars

-----------------------------------------------------------------------------
(* Properties                                                              *)

\* Type correctness of the engine's state, in parts.
Snapshots == [Row -> Tuple]
AnyView == View \cup {NoView}
FreshState == [depth : Nat, saved : AnyView, savedSnap : Snapshots]
SaveRec == [name : SaveName, mark : Nat, mine : Snapshots]

TxnTypeOK ==
    /\ nextTxn \in 1..(MaxTxn + 1)
    /\ active \in SUBSET Txn /\ live \in SUBSET Txn /\ staged \in SUBSET Txn
    /\ stagedVer \in [Table -> Nat] /\ finishedVer \in [Table -> Nat]
    /\ level \in [Txn -> Level \cup {"none"}]
    /\ beginVer \in [Txn -> [Table -> Nat]]
    /\ reads \in [Txn -> SUBSET Row] /\ predReads \in [Txn -> SUBSET Table]
    /\ aborted \in SUBSET Txn
LockTypeOK ==
    /\ tableLock \in [Table -> [Txn -> Mode]]
    /\ rowLock \in [Row -> [Txn -> Mode]]
ViewTypeOK ==
    /\ pinned \in [Txn -> AnyView]
    /\ fresh \in [Txn -> FreshState]
LogTypeOK ==
    /\ undo \in [Txn -> Seq(UndoOp)] /\ undoing \in [Txn -> Seq(UndoOp)]
    /\ saves \in [Txn -> Seq(SaveRec)]
RowTypeOK ==
    /\ chain \in [Row -> Seq(Version)]
    /\ minted \in SUBSET Row
PurgeState == [on : BOOLEAN, views : SUBSET AnyView, active : SUBSET Txn,
               horizon : 0..(MaxTxn + 1), todo : SUBSET Table,
               tab : Table \cup {NoTable}, cursor : 0..(MaxRow + 1),
               left : BOOLEAN, current : BOOLEAN]
PurgeTypeOK ==
    /\ clean \in [Table -> BOOLEAN]
    /\ purge \in [Purger -> PurgeState]
HistTypeOK ==
    /\ committed \in Snapshots /\ serial \in Snapshots
    /\ snap \in [Txn -> Snapshots] /\ mine \in [Txn -> Snapshots]

TypeOK == TxnTypeOK /\ LockTypeOK /\ ViewTypeOK /\ LogTypeOK /\ RowTypeOK
          /\ PurgeTypeOK /\ HistTypeOK

\* What t's own writes over the state `rows` come to.
Expected(t, rows) == WithWrites(rows, t)

\* Every statement of every transaction reads the state that was committed when
\* its snapshot was taken, plus the transaction's own writes, whatever writers,
\* rollbacks (to a savepoint too) and purge passes have done to the stored
\* versions since; and so does the snapshot a DDL statement will go back to.
SnapshotReads ==
    \A t \in live : undoing[t] = <<>> =>
        \A r \in Row :
            /\ VisibleTuple(pinned[t], chain[r]) = Expected(t, snap[t])[r]
            /\ fresh[t].depth > 0 =>
                  VisibleTuple(fresh[t].saved, chain[r]) = Expected(t, fresh[t].savedSnap)[r]

\* A view takes "ended and present" for "committed" (abort, engine.rs): no
\* stored version may carry the stamp of a transaction whose abort is complete.
EndedIsCommitted ==
    \A r \in Row : \A i \in 1..Len(chain[r]) :
        chain[r][i].xmin \notin aborted /\ chain[r][i].xmax \notin aborted

\* At most one unfinished transaction has written a row, and its versions lie
\* on top of every committed one; only a newest version is ever delete-stamped.
UncommittedOnTop ==
    \A r \in Row : \A i \in 1..Len(chain[r]) :
        /\ chain[r][i].xmin \in active =>
              \A j \in 1..i : chain[r][j].xmin = chain[r][i].xmin
        /\ chain[r][i].xmax # NoTxn => i = 1
        /\ {chain[r][i].xmin, chain[r][i].xmax} \subseteq active =>
              chain[r][i].xmin = chain[r][i].xmax

\* lock_row_current's reasoning: while a transaction holds a row's lock, in
\* either mode, nobody else has an unfinished update or delete on the row.
LockedRowIsSettled ==
    \A r \in Row, t \in Txn :
        rowLock[r][t] # "none" =>
            \A i \in 1..Len(chain[r]) :
                /\ chain[r][i].xmax \notin active \ {t}
                /\ chain[r][i].xmin \in active \ {t} => Len(chain[r]) = 1

\* LOCK TABLE ... ACCESS EXCLUSIVE: until its holder ends nobody else has an
\* unfinished write in the table, the undo of an aborting writer included.
LockedTableIsQuiet ==
    \A tab \in Table, t \in Txn :
        tableLock[tab][t] = "exclusive" =>
            \A r \in RowsOf(tab) : \A i \in 1..Len(chain[r]) :
                {chain[r][i].xmin, chain[r][i].xmax} \cap (active \ {t}) = {}

\* A table purge skips (purge_clean_gen = purge_gen) has nothing to purge.
SkippedTableIsClean ==
    \A tab \in Table : clean[tab] =>
        \A r \in RowsOf(tab) : chain[r] # <<>> =>
            Len(chain[r]) = 1 /\ chain[r][1].xmax = NoTxn

\* First-updater-wins: a transaction that first writes a row writes over the
\* value its statement snapshot shows, never over one committed since.
FirstUpdaterWins ==
    [][\A t \in live, r \in Row :
          (mine[t][r] = Untouched /\ mine'[t][r] # Untouched /\ t \in live') =>
              committed[r] = snap[t][r]]_vars

\* t passes its commit point in this step.
Committing(t) ==
    \/ t \notin staged /\ t \in staged'
    \/ t \in live \ staged /\ t \notin active'

SnapshotOf(t) == IF fresh[t].depth > 0 THEN fresh[t].savedSnap ELSE snap[t]

\* Serializability of row reads: when a SERIALIZABLE transaction commits, every
\* row it read has, in the state all earlier commits (staged ones included, in
\* staging order) produce, the value its snapshot showed.  Commits can then be
\* taken to run one after another in staging order.
SerializableRowReads ==
    [][\A t \in live : (Committing(t) /\ level[t] = "Serializable") =>
          \A r \in reads[t] : serial[r] = SnapshotOf(t)[r]]_vars

\* The same for full scans, as TxnState.predicate_reads promises: a row of a
\* scanned table that the snapshot did not show, and that a transaction
\* committed since inserted, makes the commit fail.
SerializableScans ==
    [][\A t \in live : (Committing(t) /\ level[t] = "Serializable") =>
          \A tab \in predReads[t] : \A r \in RowsOf(tab) :
              SnapshotOf(t)[r] = NoTuple => serial[r] = NoTuple]_vars

\* Fairness: the engine's own steps run to their end, and purge passes recur
\* (the server runs one on a timer).
Fairness ==
    /\ \A t \in Txn : WF_vars(Engine(t))
    /\ \A p \in Purger : WF_vars(PurgePass(p))
FairSpec == Spec /\ Fairness

\* Once a transaction is staged or aborting it leaves `active`, its row and table
\* locks with it, so nobody is refused on its account for ever (release_locks).
EndedTransactionsLetGo ==
    \A t \in Txn :
        (t \in staged \/ t \in active \ live) ~>
            /\ t \notin active
            /\ \A r \in Row : rowLock[r][t] = "none"
            /\ \A tab \in Table : tableLock[tab][t] = "none"

\* Every superseded version and deleted row is reclaimed in the end: when no
\* more transactions come and none is left, purge gets to one version per row,
\* although it skips tables it takes to be clean.
PurgeConverges ==
    [](nextTxn > MaxTxn /\ active = {} =>
        <>(\A r \in Row : chain[r] # <<>> =>
              Len(chain[r]) = 1 /\ chain[r][1].xmax = NoTxn))
=============================================================================
