-------------------------- MODULE MvccEngineProofs --------------------------
(***************************************************************************)
(* Theorems about MvccEngine, for every number of tables, rows,            *)
(* transactions, savepoints and purgers: its type invariant, and what the  *)
(* no-wait lock table promises a holder about the stored versions.         *)
(***************************************************************************)
EXTENDS MvccEngine, SequenceTheorems, TLAPS

-----------------------------------------------------------------------------
(* Facts about the operators the actions are built from                    *)

\* fresh_view yields a view over the transactions begun so far.
LEMMA FreshViewType ==
    ASSUME NEW own \in Txn, NEW act \in SUBSET Txn, NEW h \in 1..(MaxTxn + 1)
    PROVE  FreshView(own, act, h) \in AnyView
  BY DEF FreshView, View, AnyView

\* The writer latch's release keeps the purge bookkeeping well typed.
LEMMA RowWrittenType ==
    ASSUME PurgeTypeOK, NEW tab \in Table, RowWritten(tab)
    PROVE  PurgeTypeOK'
<1>1. \A q \in PurgeState : [q EXCEPT !.current = FALSE] \in PurgeState
  BY DEF PurgeState
<1>2. purge' \in [Purger -> PurgeState]
  BY <1>1 DEF PurgeTypeOK, RowWritten
<1> QED BY <1>2 DEF PurgeTypeOK, RowWritten

\* Taking and releasing locks keeps the lock table well typed.
LEMMA IntendType ==
    ASSUME LockTypeOK, NEW t \in Txn, NEW tab \in Table, Intend(t, tab)
    PROVE  tableLock' \in [Table -> [Txn -> Mode]]
  BY DEF LockTypeOK, Intend, Granted, Mode

\* Acquiring a row lock keeps the lock table well typed (acquire_lock).
LEMMA AcquireRowType ==
    ASSUME LockTypeOK, NEW t \in Txn, NEW r \in Row, NEW x \in BOOLEAN, AcquireRow(t, r, x)
    PROVE  rowLock' \in [Row -> [Txn -> Mode]]
  BY DEF LockTypeOK, AcquireRow, Granted, Mode

\* Releasing all locks of a transaction keeps the lock table well typed
\* (release_locks).
LEMMA ReleaseLocksType ==
    ASSUME LockTypeOK, NEW t \in Txn, ReleaseLocks(t)
    PROVE  LockTypeOK'
  BY DEF LockTypeOK, ReleaseLocks, Mode

\* The tuple a write produces, and the version and undo operation around it.
LEMMA NewTupleType ==
    ASSUME LogTypeOK, NEW t \in Txn
    PROVE  /\ NewTuple(t) \in Tuple
           /\ [xmin |-> t, xmax |-> NoTxn, tuple |-> NewTuple(t)] \in Version
  BY DEF LogTypeOK, NewTuple, Tuple, Version, NoTxn, Txn

\* Pushing an undo operation keeps the logs well typed (push_undo).
LEMMA PushUndoType ==
    ASSUME LogTypeOK, NEW t \in Txn, NEW op, NEW r, NEW old,
           [op |-> op, row |-> r, old |-> old] \in UndoOp,
           PushUndo(t, op, r, old)
    PROVE  undo' \in [Txn -> Seq(UndoOp)]
<1>1. Append(undo[t], [op |-> op, row |-> r, old |-> old]) \in Seq(UndoOp)
  BY DEF LogTypeOK
<1> QED BY <1>1 DEF LogTypeOK, PushUndo

\* Stamping or clearing a delete mark keeps a version a version.
LEMMA StampType ==
    ASSUME NEW v \in Version, NEW x \in Txn \cup {NoTxn}
    PROVE  [v EXCEPT !.xmax = x] \in Version
  BY DEF Version

\* Undoing one operation leaves a sequence of versions.
LEMMA UndoneType ==
    ASSUME NEW op \in UndoOp, NEW c \in Seq(Version)
    PROVE  Undone(op, c) \in Seq(Version)
<1>1. CASE op.op = "Inserted"
  BY <1>1 DEF Undone
<1>2. CASE op.op = "Updated"
  <2>1. op.old \in Version
    BY <1>2 DEF UndoOp
  <2>2. SubSeq(c, 3, Len(c)) \in Seq(Version)
    BY SubSeqProperties
  <2> QED BY <1>2, <2>1, <2>2, ConcatProperties DEF Undone
<1>3. CASE op.op = "Deleted"
  <2>1. op.old.xmax \in Txn \cup {NoTxn}
    BY <1>3 DEF UndoOp, Version
  <2>2. CASE c = <<>>
    <3>1. c \in [{} -> Version] /\ 1..0 = {}
      BY <2>2
    <3>2. \A e : [c EXCEPT ![1] = e] \in [{} -> Version]
      BY <3>1, Zenon
    <3> QED BY <1>3, <3>2, SeqDef DEF Undone
  <2>3. CASE c # <<>>
    <3>1. 1 \in 1..Len(c) /\ c[1] \in Version
      BY <2>3
    <3>2. [c[1] EXCEPT !.xmax = op.old.xmax] \in Version
      BY <2>1, <3>1, StampType
    <3> QED BY <1>3, <3>1, <3>2, ExceptSeq DEF Undone
  <2> QED BY <2>2, <2>3
<1> QED BY <1>1, <1>2, <1>3 DEF UndoOp

\* Overlaying a transaction's writes on a row state gives a row state.
LEMMA WithWritesType ==
    ASSUME HistTypeOK, NEW t \in Txn, NEW rows \in Snapshots
    PROVE  WithWrites(rows, t) \in Snapshots
  BY DEF HistTypeOK, WithWrites, Snapshots

\* What purge leaves of a chain is a sequence of versions.
LEMMA PurgedChainType ==
    ASSUME NEW p, NEW c \in Seq(Version), c # <<>>
    PROVE  PurgedChain(p, c) \in Seq(Version)
  BY DEF PurgedChain

\* Bumping table versions keeps them counters.
LEMMA BumpedType ==
    ASSUME NEW ver \in [Table -> Nat], NEW t
    PROVE  Bumped(ver, t) \in [Table -> Nat]
  BY DEF Bumped

\* The savepoints of a transaction are in the order of their marks, none past
\* the end of its undo log: what rollback_to cuts off is a tail of the log.
SavesInv ==
    \A t \in Txn : \A i \in 1..Len(saves[t]) :
        /\ saves[t][i].mark <= Len(undo[t])
        /\ \A j \in 1..i : saves[t][j].mark <= saves[t][i].mark

-----------------------------------------------------------------------------
(* Type correctness, one lemma per action                                  *)

\* Locking actions touch the lock table alone.
LEMMA LockActionsType ==
    ASSUME TypeOK, NEW t \in Txn, NEW r \in Row, NEW tab \in Table, NEW x \in BOOLEAN,
           LockRow(t, r, x) \/ LockRowRefused(t, r, x) \/ LockTable(t, tab, x)
    PROVE  TypeOK'
<1> USE MvccAssumption
<1>0. TableOf[r] \in Table
  OBVIOUS
<1>1. LockTypeOK'
  <2>1. CASE LockRow(t, r, x)
    BY <1>0, <2>1, IntendType, AcquireRowType DEF LockRow, TypeOK, LockTypeOK
  <2>2. CASE LockRowRefused(t, r, x)
    BY <1>0, <2>2, IntendType DEF LockRowRefused, TypeOK, LockTypeOK
  <2>3. CASE LockTable(t, tab, x)
    BY <2>3 DEF LockTable, TypeOK, LockTypeOK, Granted, Mode
  <2> QED BY <2>1, <2>2, <2>3
<1>2. UNCHANGED <<txnVars, verVars, stateVars, rowVars, histVars>>
  BY DEF LockRow, LockRowRefused, LockTable
<1>3. TxnTypeOK' /\ ViewTypeOK'
  BY <1>2 DEF TypeOK, TxnTypeOK, ViewTypeOK, txnVars, verVars, stateVars, histVars
<1>4. LogTypeOK' /\ RowTypeOK' /\ PurgeTypeOK' /\ HistTypeOK'
  BY <1>2 DEF TypeOK, LogTypeOK, RowTypeOK, PurgeTypeOK, HistTypeOK, stateVars, rowVars, histVars
<1> QED BY <1>1, <1>3, <1>4 DEF TypeOK

\* begin keeps the types: the view it pins is a view over issued ids.
LEMMA BeginType ==
    ASSUME TypeOK, NEW t \in Txn, NEW lvl \in Level, Begin(t, lvl)
    PROVE  TypeOK'
<1> USE MvccAssumption
<1>1. TxnTypeOK'
  <2>1. nextTxn' \in 1..MaxTxn + 1
    BY DEF Begin, TypeOK, TxnTypeOK
  <2>2. beginVer' \in [Txn -> [Table -> Nat]]
    BY DEF Begin, TypeOK, TxnTypeOK
  <2>3. level' \in [Txn -> Level \cup {"none"}]
    BY DEF Begin, TypeOK, TxnTypeOK
  <2> QED BY <2>1, <2>2, <2>3 DEF Begin, TypeOK, TxnTypeOK, verVars
<1>2. FreshView(t, active', nextTxn') \in AnyView
  BY <1>1, FreshViewType DEF TxnTypeOK
<1>3. ViewTypeOK'
  BY <1>2 DEF Begin, TypeOK, ViewTypeOK
<1>4. LockTypeOK' /\ LogTypeOK' /\ RowTypeOK' /\ PurgeTypeOK'
  BY DEF Begin, TypeOK, LockTypeOK, LogTypeOK, RowTypeOK, PurgeTypeOK, lockVars, rowVars
<1>5. HistTypeOK'
  BY DEF Begin, TypeOK, HistTypeOK
<1> QED BY <1>1, <1>3, <1>4, <1>5 DEF TypeOK

\* begin_statement, begin_fresh_reads and end_fresh_reads change views only.
LEMMA SnapshotActionsType ==
    ASSUME TypeOK, NEW t \in Txn,
           BeginStatement(t) \/ BeginFreshReads(t) \/ EndFreshReads(t)
    PROVE  TypeOK'
<1>1. FreshView(t, active, nextTxn) \in AnyView
  BY FreshViewType DEF TypeOK, TxnTypeOK
<1>2. NoFresh \in FreshState
  BY DEF NoFresh, FreshState, AnyView, Snapshots, Tuple, NoTuple
<1>3. ViewTypeOK' /\ HistTypeOK'
  <2>1. CASE BeginStatement(t)
    BY <1>1, <2>1 DEF BeginStatement, TypeOK, ViewTypeOK, HistTypeOK
  <2>2. CASE BeginFreshReads(t)
    <3>1. fresh' \in [Txn -> FreshState]
      <4>1. [depth |-> 1, saved |-> pinned[t], savedSnap |-> snap[t]] \in FreshState
        BY DEF TypeOK, ViewTypeOK, HistTypeOK, FreshState
      <4>2. [fresh[t] EXCEPT !.depth = @ + 1] \in FreshState
        BY DEF TypeOK, ViewTypeOK, FreshState
      <4> QED BY <2>2, <4>1, <4>2 DEF BeginFreshReads, TypeOK, ViewTypeOK
    <3> QED BY <1>1, <2>2, <3>1 DEF BeginFreshReads, TypeOK, ViewTypeOK, HistTypeOK
  <2>3. CASE EndFreshReads(t)
    <3>1. fresh[t].saved \in AnyView /\ fresh[t].savedSnap \in Snapshots
      BY DEF TypeOK, ViewTypeOK, FreshState
    <3>2. fresh' \in [Txn -> FreshState]
      <4>1. fresh[t].depth > 0 => [fresh[t] EXCEPT !.depth = @ - 1] \in FreshState
        BY DEF TypeOK, ViewTypeOK, FreshState
      <4> QED BY <1>2, <2>3, <4>1 DEF EndFreshReads, TypeOK, ViewTypeOK
    <3>3. pinned' \in [Txn -> AnyView] /\ snap' \in [Txn -> Snapshots]
      BY <2>3, <3>1 DEF EndFreshReads, TypeOK, ViewTypeOK, HistTypeOK
    <3> QED BY <2>3, <3>2, <3>3 DEF EndFreshReads, TypeOK, ViewTypeOK, HistTypeOK
  <2> QED BY <2>1, <2>2, <2>3
<1>4. UNCHANGED <<txnVars, verVars, lockVars, level, undo, saves, reads, predReads,
                  beginVer, undoing, rowVars, aborted>>
  BY DEF BeginStatement, BeginFreshReads, EndFreshReads
<1>5. TxnTypeOK' /\ LockTypeOK'
  BY <1>4 DEF TypeOK, TxnTypeOK, LockTypeOK, txnVars, verVars, lockVars
<1>6. LogTypeOK' /\ RowTypeOK' /\ PurgeTypeOK'
  BY <1>4 DEF TypeOK, LogTypeOK, RowTypeOK, PurgeTypeOK, rowVars
<1> QED BY <1>3, <1>5, <1>6 DEF TypeOK

\* Reads are recorded, nothing else changes.
LEMMA ReadActionsType ==
    ASSUME TypeOK, NEW t \in Txn, NEW r \in Row, NEW tab \in Table,
           Scan(t, tab) \/ IndexScan(t, r)
    PROVE  TypeOK'
<1>1. TxnTypeOK'
  <2>1. CASE Scan(t, tab)
    BY <2>1 DEF Scan, RowsOf, TypeOK, TxnTypeOK, txnVars, verVars, histVars
  <2>2. CASE IndexScan(t, r)
    BY <2>2 DEF IndexScan, TypeOK, TxnTypeOK, txnVars, verVars, histVars
  <2> QED BY <2>1, <2>2
<1>2. UNCHANGED <<lockVars, pinned, fresh, undo, saves, undoing, rowVars, histVars>>
  BY DEF Scan, IndexScan
<1>3. LockTypeOK' /\ ViewTypeOK' /\ LogTypeOK'
  BY <1>2 DEF TypeOK, LockTypeOK, ViewTypeOK, LogTypeOK, lockVars, histVars
<1>4. RowTypeOK' /\ PurgeTypeOK' /\ HistTypeOK'
  BY <1>2 DEF TypeOK, RowTypeOK, PurgeTypeOK, HistTypeOK, rowVars, histVars
<1> QED BY <1>1, <1>3, <1>4 DEF TypeOK

\* insert keeps the types.
LEMMA InsertType ==
    ASSUME TypeOK, NEW t \in Txn, NEW r \in Row, Insert(t, r)
    PROVE  TypeOK'
<1> USE MvccAssumption
<1>0. TableOf[r] \in Table /\ NewTuple(t) \in Tuple
  BY NewTupleType DEF TypeOK
<1>1. TxnTypeOK' /\ ViewTypeOK'
  BY DEF Insert, TypeOK, TxnTypeOK, ViewTypeOK, txnVars, verVars
<1>2. LockTypeOK'
  BY <1>0, IntendType DEF Insert, TypeOK, LockTypeOK
<1>3. LogTypeOK'
  <2>1. [op |-> "Inserted", row |-> r, old |-> NoVersion] \in UndoOp
    BY DEF UndoOp
  <2>2. undo' \in [Txn -> Seq(UndoOp)]
    BY <2>1, PushUndoType DEF Insert, TypeOK
  <2> QED BY <2>2 DEF Insert, TypeOK, LogTypeOK
<1>4. RowTypeOK'
  <2>1. <<[xmin |-> t, xmax |-> NoTxn, tuple |-> NewTuple(t)]>> \in Seq(Version)
    BY NewTupleType DEF TypeOK
  <2> QED BY <2>1 DEF Insert, TypeOK, RowTypeOK
<1>5. PurgeTypeOK'
  BY <1>0, RowWrittenType DEF Insert, TypeOK
<1>6. HistTypeOK'
  BY <1>0 DEF Insert, TypeOK, HistTypeOK, Snapshots
<1> QED BY <1>1, <1>2, <1>3, <1>4, <1>5, <1>6 DEF TypeOK

\* update keeps the types: the version it parks was a version.
LEMMA UpdateType ==
    ASSUME TypeOK, NEW t \in Txn, NEW r \in Row, Update(t, r)
    PROVE  TypeOK'
<1> USE MvccAssumption
<1>0. TableOf[r] \in Table /\ NewTuple(t) \in Tuple
  BY NewTupleType DEF TypeOK
<1>1. TxnTypeOK' /\ ViewTypeOK'
  BY DEF Update, TypeOK, TxnTypeOK, ViewTypeOK, txnVars, verVars
<1>2. LockTypeOK'
  BY <1>0, IntendType, AcquireRowType DEF Update, TypeOK, LockTypeOK
<1>a. chain[r] \in Seq(Version) /\ Len(chain[r]) > 0 /\ chain[r][1] \in Version
  BY DEF Update, TypeOK, RowTypeOK
<1>3. LogTypeOK'
  <2>1. [op |-> "Updated", row |-> r, old |-> chain[r][1]] \in UndoOp
    BY <1>a DEF UndoOp
  <2>2. undo' \in [Txn -> Seq(UndoOp)]
    BY <2>1, PushUndoType DEF Update, TypeOK
  <2> QED BY <2>2 DEF Update, TypeOK, LogTypeOK
<1>4. RowTypeOK'
  <2>1. <<[xmin |-> t, xmax |-> NoTxn, tuple |-> NewTuple(t)]>> \o chain[r] \in Seq(Version)
    BY <1>a, NewTupleType, ConcatProperties DEF TypeOK
  <2> QED BY <2>1 DEF Update, TypeOK, RowTypeOK
<1>5. PurgeTypeOK'
  BY <1>0, RowWrittenType DEF Update, TypeOK
<1>6. HistTypeOK'
  BY <1>0 DEF Update, TypeOK, HistTypeOK, Snapshots
<1> QED BY <1>1, <1>2, <1>3, <1>4, <1>5, <1>6 DEF TypeOK

\* delete keeps the types: the stamped head is still a version.
LEMMA DeleteType ==
    ASSUME TypeOK, NEW t \in Txn, NEW r \in Row, Delete(t, r)
    PROVE  TypeOK'
<1> USE MvccAssumption
<1>0. TableOf[r] \in Table /\ NewTuple(t) \in Tuple
  BY NewTupleType DEF TypeOK
<1>1. TxnTypeOK' /\ ViewTypeOK'
  BY DEF Delete, TypeOK, TxnTypeOK, ViewTypeOK, txnVars, verVars
<1>2. LockTypeOK'
  BY <1>0, IntendType, AcquireRowType DEF Delete, TypeOK, LockTypeOK
<1>a. chain[r] \in Seq(Version) /\ Len(chain[r]) > 0 /\ chain[r][1] \in Version
  BY DEF Delete, TypeOK, RowTypeOK
<1>3. LogTypeOK'
  <2>1. [op |-> "Deleted", row |-> r, old |-> chain[r][1]] \in UndoOp
    BY <1>a DEF UndoOp
  <2>2. undo' \in [Txn -> Seq(UndoOp)]
    BY <2>1, PushUndoType DEF Delete, TypeOK
  <2> QED BY <2>2 DEF Delete, TypeOK, LogTypeOK
<1>4. RowTypeOK'
  <2>1. [chain[r][1] EXCEPT !.xmax = t] \in Version
    BY <1>a, StampType
  <2>2. [chain[r] EXCEPT ![1] = [chain[r][1] EXCEPT !.xmax = t]] \in Seq(Version)
    BY <1>a, <2>1, ExceptSeq
  <2>3. chain' = [chain EXCEPT ![r] = [chain[r] EXCEPT ![1] = [chain[r][1] EXCEPT !.xmax = t]]]
    BY DEF Delete
  <2> QED BY <2>2, <2>3 DEF Delete, TypeOK, RowTypeOK
<1>5. PurgeTypeOK'
  BY <1>0, RowWrittenType DEF Delete, TypeOK
<1>6. HistTypeOK'
  BY <1>0 DEF Delete, TypeOK, HistTypeOK, Snapshots, NoTuple, Tuple
<1> QED BY <1>1, <1>2, <1>3, <1>4, <1>5, <1>6 DEF TypeOK

\* A refused update or delete keeps the types, whichever lock refused it.
LEMMA WriteRefusedType ==
    ASSUME TypeOK, NEW t \in Txn, NEW r \in Row, WriteRefused(t, r)
    PROVE  TypeOK'
<1> USE MvccAssumption
<1>0. TableOf[r] \in Table
  OBVIOUS
<1>1. TxnTypeOK' /\ ViewTypeOK'
  BY DEF WriteRefused, TypeOK, TxnTypeOK, ViewTypeOK, txnVars, verVars, stateVars, histVars
<1>2. LockTypeOK'
  BY <1>0, IntendType, AcquireRowType DEF WriteRefused, TypeOK, LockTypeOK
<1>3. LogTypeOK' /\ RowTypeOK' /\ HistTypeOK'
  BY DEF WriteRefused, TypeOK, LogTypeOK, RowTypeOK, HistTypeOK, stateVars, histVars
<1>4. PurgeTypeOK'
  <2>1. CASE UNCHANGED <<rowLock, clean, purge>>
    BY <2>1 DEF TypeOK, PurgeTypeOK
  <2>2. CASE RowWritten(TableOf[r])
    BY <1>0, <2>2, RowWrittenType DEF TypeOK
  <2> QED BY <2>1, <2>2 DEF WriteRefused
<1> QED BY <1>1, <1>2, <1>3, <1>4 DEF TypeOK

\* A savepoint of a name, when there is one, is found at an index of the list.
LEMMA SaveAtType ==
    ASSUME NEW t \in Txn, NEW name, HasSave(t, name)
    PROVE  SaveAt(t, name) \in 1..Len(saves[t])
  BY DEF HasSave, SaveAt

\* Marks are lengths.
LEMMA SaveRecType ==
    ASSUME LogTypeOK
    PROVE  \A t \in Txn : \A i \in 1..Len(saves[t]) : saves[t][i].mark \in Nat
<1>1. \A t \in Txn : \A i \in 1..Len(saves[t]) : saves[t][i] \in SaveRec
  BY DEF LogTypeOK
<1> QED BY <1>1 DEF SaveRec

\* Replacing a savepoint keeps the others in their order.
LEMMA OtherSavesType ==
    ASSUME LogTypeOK, NEW t \in Txn, NEW name
    PROVE  /\ OtherSaves(t, name) \in Seq(SaveRec)
           /\ \A i \in 1..Len(OtherSaves(t, name)) :
                 \E j \in 1..Len(saves[t]) : OtherSaves(t, name)[i] = saves[t][j]
           /\ SavesInv => \A i \in 1..Len(OtherSaves(t, name)) :
                 /\ OtherSaves(t, name)[i].mark <= Len(undo[t])
                 /\ \A j \in 1..i :
                       OtherSaves(t, name)[j].mark <= OtherSaves(t, name)[i].mark
<1> DEFINE s == saves[t]
           k == SaveAt(t, name)
<1>1. s \in Seq(SaveRec)
  BY DEF LogTypeOK
<1>2. CASE ~HasSave(t, name)
  BY <1>1, <1>2 DEF OtherSaves, SavesInv
<1>3. CASE HasSave(t, name)
  <2>1. k \in 1..Len(s) /\ Len(s) \in Nat
    BY <1>1, <1>3, SaveAtType
  <2>2. /\ SubSeq(s, 1, k - 1) \in Seq(SaveRec)
        /\ Len(SubSeq(s, 1, k - 1)) = k - 1
        /\ \A i \in 1..(k - 1) : SubSeq(s, 1, k - 1)[i] = s[i]
    BY <1>1, <2>1, SubSeqProperties
  <2>3. /\ SubSeq(s, k + 1, Len(s)) \in Seq(SaveRec)
        /\ Len(SubSeq(s, k + 1, Len(s))) = Len(s) - k
        /\ \A i \in 1..(Len(s) - k) : SubSeq(s, k + 1, Len(s))[i] = s[k + i]
    BY <1>1, <2>1, SubSeqProperties
  <2>4. OtherSaves(t, name) = SubSeq(s, 1, k - 1) \o SubSeq(s, k + 1, Len(s))
    BY <1>3 DEF OtherSaves
  <2>5. /\ OtherSaves(t, name) \in Seq(SaveRec)
        /\ Len(OtherSaves(t, name)) = Len(s) - 1
        /\ \A i \in 1..(Len(s) - 1) :
              OtherSaves(t, name)[i] = s[IF i <= k - 1 THEN i ELSE i + 1]
    <3> DEFINE a == SubSeq(s, 1, k - 1)
               b == SubSeq(s, k + 1, Len(s))
    <3>1. /\ a \o b \in Seq(SaveRec) /\ Len(a \o b) = Len(a) + Len(b)
          /\ \A i \in 1..(Len(a) + Len(b)) :
                (a \o b)[i] = IF i <= Len(a) THEN a[i] ELSE b[i - Len(a)]
      BY <2>2, <2>3, ConcatProperties
    <3>a. Len(a) = k - 1 /\ Len(b) = Len(s) - k
      BY <2>2, <2>3
    <3> HIDE DEF a, b, s, k
    <3>2. Len(a) + Len(b) = Len(s) - 1
      BY <2>1, <3>a
    <3>3. \A i \in 1..(Len(s) - 1) :
              (a \o b)[i] = s[IF i <= k - 1 THEN i ELSE i + 1]
      <4> TAKE i \in 1..(Len(s) - 1)
      <4>1. CASE i <= k - 1
        <5>1. (a \o b)[i] = a[i]
          BY <2>1, <2>2, <3>1, <3>2, <4>1 DEF a
        <5> QED BY <2>1, <2>2, <4>1, <5>1 DEF a
      <4>2. CASE ~(i <= k - 1)
        <5>1. (a \o b)[i] = b[i - (k - 1)] /\ i - (k - 1) \in 1..(Len(s) - k)
          BY <2>1, <2>2, <3>1, <3>2, <4>2 DEF a
        <5>2. b[i - (k - 1)] = s[k + (i - (k - 1))] /\ k + (i - (k - 1)) = i + 1
          BY <2>1, <2>3, <5>1 DEF b
        <5> QED BY <4>2, <5>1, <5>2
      <4> QED BY <4>1, <4>2
    <3> QED BY <2>4, <3>1, <3>2, <3>3 DEF a, b
  <2>6. ASSUME SavesInv, NEW i \in 1..(Len(s) - 1), NEW j \in 1..i
        PROVE  /\ OtherSaves(t, name)[i].mark <= Len(undo[t])
               /\ OtherSaves(t, name)[j].mark <= OtherSaves(t, name)[i].mark
    <3>1. (IF i <= k - 1 THEN i ELSE i + 1) \in 1..Len(s)
      BY <2>1
    <3>2. (IF j <= k - 1 THEN j ELSE j + 1) \in 1..(IF i <= k - 1 THEN i ELSE i + 1)
      BY <2>1
    <3>3. OtherSaves(t, name)[i] = s[IF i <= k - 1 THEN i ELSE i + 1]
      BY <2>5
    <3>4. j \in 1..(Len(s) - 1)
      BY <2>1
    <3>5. OtherSaves(t, name)[j] = s[IF j <= k - 1 THEN j ELSE j + 1]
      BY <2>5, <3>4
    <3> QED BY <2>6, <3>1, <3>2, <3>3, <3>5 DEF SavesInv
  <2>7. ASSUME NEW i \in 1..(Len(s) - 1) PROVE \E j \in 1..Len(s) : OtherSaves(t, name)[i] = s[j]
    <3>1. (IF i <= k - 1 THEN i ELSE i + 1) \in 1..Len(s)
      BY <2>1
    <3> QED BY <2>5, <3>1
  <2> QED BY <2>1, <2>5, <2>6, <2>7
<1> QED BY <1>2, <1>3

\* savepoint keeps the types, the replaced savepoint taken out.
LEMMA SavepointType ==
    ASSUME TypeOK, NEW t \in Txn, NEW name \in SaveName, Savepoint(t, name)
    PROVE  TypeOK'
<1>1. TxnTypeOK' /\ LockTypeOK' /\ ViewTypeOK'
  BY DEF Savepoint, TypeOK, TxnTypeOK, LockTypeOK, ViewTypeOK, txnVars, verVars, lockVars, histVars
<1>2. LogTypeOK'
  <2>1. [name |-> name, mark |-> Len(undo[t]), mine |-> mine[t]] \in SaveRec
    BY DEF TypeOK, LogTypeOK, HistTypeOK, SaveRec
  <2>2. Append(OtherSaves(t, name), [name |-> name, mark |-> Len(undo[t]), mine |-> mine[t]])
            \in Seq(SaveRec)
    BY <2>1, OtherSavesType DEF TypeOK
  <2> QED BY <2>2 DEF Savepoint, TypeOK, LogTypeOK
<1>3. RowTypeOK' /\ PurgeTypeOK' /\ HistTypeOK'
  BY DEF Savepoint, TypeOK, RowTypeOK, PurgeTypeOK, HistTypeOK, rowVars, histVars
<1> QED BY <1>1, <1>2, <1>3 DEF TypeOK

\* rollback_to keeps the types, given that its mark lies inside the undo log.
LEMMA RollbackToType ==
    ASSUME TypeOK, SavesInv, NEW t \in Txn, NEW name \in SaveName, RollbackTo(t, name)
    PROVE  TypeOK'
<1> DEFINE i == SaveAt(t, name)
           mark == saves[t][i].mark
<1>1. /\ saves[t] \in Seq(SaveRec) /\ undo[t] \in Seq(UndoOp)
      /\ Len(saves[t]) \in Nat /\ Len(undo[t]) \in Nat
  BY DEF TypeOK, LogTypeOK
<1>2. i \in 1..Len(saves[t]) /\ saves[t][i] \in SaveRec
  BY <1>1, SaveAtType DEF RollbackTo
<1>3. mark \in Nat /\ mark <= Len(undo[t]) /\ saves[t][i].mine \in Snapshots
  BY <1>2 DEF SaveRec, SavesInv
<1>4. TxnTypeOK' /\ LockTypeOK' /\ ViewTypeOK'
  BY DEF RollbackTo, TypeOK, TxnTypeOK, LockTypeOK, ViewTypeOK, txnVars, verVars, lockVars
<1>5. LogTypeOK'
  <2> HIDE DEF i, mark
  <2>1. SubSeq(saves[t], 1, i) \in Seq(SaveRec)
    BY <1>1, <1>2, SubSeqProperties
  <2>2. SubSeq(undo[t], mark + 1, Len(undo[t])) \in Seq(UndoOp)
    BY <1>1, <1>3, SubSeqProperties
  <2>3. SubSeq(undo[t], 1, mark) \in Seq(UndoOp)
    BY <1>1, <1>3, SubSeqProperties
  <2> QED BY <2>1, <2>2, <2>3 DEF RollbackTo, TypeOK, LogTypeOK, i, mark
<1>6. RowTypeOK' /\ PurgeTypeOK'
  BY DEF RollbackTo, TypeOK, RowTypeOK, PurgeTypeOK, rowVars
<1>7. HistTypeOK'
  BY <1>3 DEF RollbackTo, TypeOK, HistTypeOK
<1> QED BY <1>4, <1>5, <1>6, <1>7 DEF TypeOK

\* release_savepoint keeps the types.
LEMMA ReleaseSavepointType ==
    ASSUME TypeOK, NEW t \in Txn, NEW name \in SaveName, ReleaseSavepoint(t, name)
    PROVE  TypeOK'
<1>1. TxnTypeOK' /\ LockTypeOK' /\ ViewTypeOK'
  BY DEF ReleaseSavepoint, TypeOK, TxnTypeOK, LockTypeOK, ViewTypeOK, txnVars, verVars,
         lockVars, histVars
<1>2. LogTypeOK'
  <2>1. saves[t] \in Seq(SaveRec) /\ SaveAt(t, name) \in 1..Len(saves[t])
    BY SaveAtType DEF TypeOK, LogTypeOK, ReleaseSavepoint
  <2>2. SubSeq(saves[t], 1, SaveAt(t, name) - 1) \in Seq(SaveRec)
    BY <2>1, SubSeqProperties
  <2> QED BY <2>2 DEF ReleaseSavepoint, TypeOK, LogTypeOK
<1>3. RowTypeOK' /\ PurgeTypeOK' /\ HistTypeOK'
  BY DEF ReleaseSavepoint, TypeOK, RowTypeOK, PurgeTypeOK, HistTypeOK, rowVars, histVars
<1> QED BY <1>1, <1>2, <1>3 DEF TypeOK

\* The undo operation a rollback applies next, and what stays to be applied.
LEMMA LastUndoing ==
    ASSUME LogTypeOK, NEW t \in Txn, undoing[t] # <<>>
    PROVE  /\ undoing[t][Len(undoing[t])] \in UndoOp
           /\ SubSeq(undoing[t], 1, Len(undoing[t]) - 1) \in Seq(UndoOp)
           /\ Len(SubSeq(undoing[t], 1, Len(undoing[t]) - 1)) = Len(undoing[t]) - 1
           /\ \A i \in 1..(Len(undoing[t]) - 1) :
                 SubSeq(undoing[t], 1, Len(undoing[t]) - 1)[i] = undoing[t][i]
<1>1. undoing[t] \in Seq(UndoOp) /\ Len(undoing[t]) \in Nat /\ Len(undoing[t]) > 0
  BY DEF LogTypeOK
<1> QED BY <1>1, SubSeqProperties

\* Applying one undo operation (undo_ops) leaves a chain of versions.
LEMMA UndoStepType ==
    ASSUME TypeOK, NEW t \in Txn, UndoStep(t)
    PROVE  TypeOK'
<1> USE MvccAssumption
<1> DEFINE op == undoing[t][Len(undoing[t])]
<1>1. /\ op \in UndoOp
      /\ SubSeq(undoing[t], 1, Len(undoing[t]) - 1) \in Seq(UndoOp)
  BY LastUndoing DEF TypeOK, UndoStep
<1>2. op.row \in Row
  BY <1>1 DEF UndoOp
<1>3. TxnTypeOK' /\ LockTypeOK' /\ ViewTypeOK' /\ HistTypeOK'
  BY DEF UndoStep, TypeOK, TxnTypeOK, LockTypeOK, ViewTypeOK, HistTypeOK, txnVars, verVars,
         lockVars, histVars
<1>4. LogTypeOK'
  BY <1>1 DEF UndoStep, TypeOK, LogTypeOK
<1>5. RowTypeOK'
  <2>1. Undone(op, chain[op.row]) \in Seq(Version)
    BY <1>1, <1>2, UndoneType DEF TypeOK, RowTypeOK
  <2> QED BY <2>1 DEF UndoStep, TypeOK, RowTypeOK
<1>6. PurgeTypeOK'
  BY <1>2, RowWrittenType DEF UndoStep, TypeOK
<1> QED BY <1>3, <1>4, <1>5, <1>6 DEF TypeOK

\* A transaction's state leaving the map keeps every part of it well typed.
LEMMA ForgetType ==
    ASSUME TypeOK, NEW t \in Txn, Forget(t)
    PROVE  /\ live' \in SUBSET Txn
           /\ level' \in [Txn -> Level \cup {"none"}]
           /\ beginVer' \in [Txn -> [Table -> Nat]]
           /\ reads' \in [Txn -> SUBSET Row] /\ predReads' \in [Txn -> SUBSET Table]
           /\ ViewTypeOK'
           /\ undo' \in [Txn -> Seq(UndoOp)] /\ saves' \in [Txn -> Seq(SaveRec)]
           /\ snap' \in [Txn -> Snapshots] /\ mine' \in [Txn -> Snapshots]
<1>1. /\ live' \in SUBSET Txn /\ level' \in [Txn -> Level \cup {"none"}]
      /\ beginVer' \in [Txn -> [Table -> Nat]]
      /\ reads' \in [Txn -> SUBSET Row] /\ predReads' \in [Txn -> SUBSET Table]
  BY DEF Forget, TypeOK, TxnTypeOK
<1>2. ViewTypeOK'
  <2>1. NoFresh \in FreshState /\ NoView \in AnyView
    BY DEF NoFresh, FreshState, AnyView, Snapshots, Tuple, NoTuple
  <2> QED BY <2>1 DEF Forget, TypeOK, ViewTypeOK
<1>3. undo' \in [Txn -> Seq(UndoOp)] /\ saves' \in [Txn -> Seq(SaveRec)]
  BY DEF Forget, TypeOK, LogTypeOK
<1>4. snap' \in [Txn -> Snapshots] /\ mine' \in [Txn -> Snapshots]
  BY DEF Forget, TypeOK, HistTypeOK, Snapshots, Tuple, NoTuple, Untouched
<1> QED BY <1>1, <1>2, <1>3, <1>4

\* Taking the state out of the map (take_txn) keeps the types.
LEMMA TakenType ==
    ASSUME TypeOK, NEW t \in Txn, Taken(t)
    PROVE  TypeOK'
<1>1. Forget(t)
  BY DEF Taken
<1>2. TxnTypeOK' /\ ViewTypeOK'
  BY <1>1, ForgetType DEF Taken, TypeOK, TxnTypeOK, verVars
<1>3. LogTypeOK'
  BY <1>1, ForgetType DEF Taken, TypeOK, LogTypeOK
<1>4. LockTypeOK' /\ RowTypeOK' /\ PurgeTypeOK'
  BY DEF Taken, TypeOK, LockTypeOK, RowTypeOK, PurgeTypeOK, lockVars, rowVars
<1>5. HistTypeOK'
  BY <1>1, ForgetType DEF Taken, TypeOK, HistTypeOK
<1> QED BY <1>2, <1>3, <1>4, <1>5 DEF TypeOK

\* The end of abort_with keeps the types.
LEMMA AbortEndType ==
    ASSUME TypeOK, NEW t \in Txn, AbortEnd(t)
    PROVE  TypeOK'
<1>1. TxnTypeOK' /\ ViewTypeOK'
  BY DEF AbortEnd, TypeOK, TxnTypeOK, ViewTypeOK, verVars, stateVars
<1>2. LockTypeOK'
  BY ReleaseLocksType DEF AbortEnd, TypeOK
<1>3. LogTypeOK' /\ RowTypeOK' /\ PurgeTypeOK' /\ HistTypeOK'
  BY DEF AbortEnd, TypeOK, LogTypeOK, RowTypeOK, PurgeTypeOK, HistTypeOK, stateVars, rowVars
<1> QED BY <1>1, <1>2, <1>3 DEF TypeOK

\* Staging a commit keeps the types.
LEMMA CommitStageType ==
    ASSUME TypeOK, NEW t \in Txn, CommitStage(t)
    PROVE  TypeOK'
<1>1. TxnTypeOK'
  BY BumpedType DEF CommitStage, TypeOK, TxnTypeOK, stateVars
<1>2. LockTypeOK' /\ ViewTypeOK' /\ LogTypeOK'
  BY DEF CommitStage, TypeOK, LockTypeOK, ViewTypeOK, LogTypeOK, lockVars, stateVars
<1>3. RowTypeOK' /\ PurgeTypeOK'
  BY DEF CommitStage, TypeOK, RowTypeOK, PurgeTypeOK, rowVars
<1>4. HistTypeOK'
  BY WithWritesType DEF CommitStage, TypeOK, HistTypeOK
<1> QED BY <1>1, <1>2, <1>3, <1>4 DEF TypeOK

\* The commits that finish: after the fsync, read-only, and in memory.
LEMMA CommitEndType ==
    ASSUME TypeOK, NEW t \in Txn,
           CommitFinish(t) \/ CommitAtOnce(t)
    PROVE  TypeOK'
<1>1. FinishCommit(t)
  BY DEF CommitFinish, CommitAtOnce
<1>2. Forget(t) /\ ReleaseLocks(t)
  BY <1>1 DEF FinishCommit
<1>3. /\ stagedVer' \in [Table -> Nat] /\ finishedVer' \in [Table -> Nat]
      /\ staged' \in SUBSET Txn /\ serial' \in Snapshots
  <2>1. /\ Bumped(stagedVer, t) \in [Table -> Nat] /\ Bumped(finishedVer, t) \in [Table -> Nat]
        /\ WithWrites(serial, t) \in Snapshots
    BY BumpedType, WithWritesType DEF TypeOK, TxnTypeOK, HistTypeOK
  <2> QED BY <2>1 DEF CommitFinish, CommitAtOnce, TypeOK, TxnTypeOK, HistTypeOK,
                      verVars
<1>4. TxnTypeOK' /\ ViewTypeOK'
  BY <1>1, <1>2, <1>3, ForgetType DEF FinishCommit, TypeOK, TxnTypeOK
<1>5. LockTypeOK'
  BY <1>2, ReleaseLocksType DEF TypeOK
<1>6. LogTypeOK' /\ RowTypeOK' /\ PurgeTypeOK'
  BY <1>1, <1>2, ForgetType DEF FinishCommit, TypeOK, LogTypeOK, RowTypeOK, PurgeTypeOK, rowVars
<1>7. HistTypeOK'
  BY <1>1, <1>2, <1>3, ForgetType, WithWritesType DEF FinishCommit, TypeOK, HistTypeOK
<1> QED BY <1>4, <1>5, <1>6, <1>7 DEF TypeOK

\* The states a purge pass moves through.
LEMMA PurgeStarted ==
    ASSUME NEW vs \in SUBSET AnyView, NEW act \in SUBSET Txn, NEW h \in 0..(MaxTxn + 1)
    PROVE  [NoPurge EXCEPT !.on = TRUE, !.views = vs, !.active = act, !.horizon = h,
                           !.todo = Table] \in PurgeState
<1>1. NoPurge \in PurgeState
  BY MvccAssumption DEF NoPurge, PurgeState
<1>2. \A q \in PurgeState :
        [q EXCEPT !.on = TRUE, !.views = vs, !.active = act, !.horizon = h, !.todo = Table]
          \in PurgeState
  BY DEF PurgeState
<1> QED BY <1>1, <1>2

\* Moving the cursor of a purge pass leaves a purge state.
LEMMA PurgeMoved ==
    ASSUME NEW q \in PurgeState, NEW tab \in Table \cup {NoTable}
    PROVE  /\ [q EXCEPT !.todo = q.todo \ {tab}] \in PurgeState
           /\ [q EXCEPT !.todo = q.todo \ {tab}, !.tab = tab, !.cursor = 1,
                        !.left = FALSE, !.current = TRUE] \in PurgeState
           /\ [q EXCEPT !.tab = NoTable, !.cursor = 0, !.left = FALSE, !.current = FALSE]
                 \in PurgeState
<1>1. 1 \in 0..(MaxRow + 1) /\ 0 \in 0..(MaxRow + 1)
  BY MvccAssumption
<1>2. q.todo \ {tab} \in SUBSET Table
  BY DEF PurgeState
<1>3. [q EXCEPT !.todo = q.todo \ {tab}] \in PurgeState
  BY <1>2 DEF PurgeState
<1>4. [q EXCEPT !.todo = q.todo \ {tab}, !.tab = tab, !.cursor = 1,
               !.left = FALSE, !.current = TRUE] \in PurgeState
  BY <1>1, <1>2 DEF PurgeState
<1>5. [q EXCEPT !.tab = NoTable, !.cursor = 0, !.left = FALSE, !.current = FALSE] \in PurgeState
  BY <1>1 DEF PurgeState
<1> QED BY <1>3, <1>4, <1>5

\* Purge changes its own bookkeeping and the chains only.
LEMMA PurgeActionsType ==
    ASSUME TypeOK, NEW p \in Purger, PurgePass(p) \/ PurgeYield(p)
    PROVE  TypeOK'
<1> USE MvccAssumption
<1> DEFINE q == purge[p]
<1>0. /\ q \in PurgeState /\ NoPurge \in PurgeState
      /\ purge \in [Purger -> PurgeState]
  BY DEF TypeOK, PurgeTypeOK, PurgeState, NoPurge
<1>1. UNCHANGED <<txnVars, verVars, lockVars, stateVars, minted, histVars>>
  BY DEF PurgePass, PurgeStart, PurgeTable, PurgeRow, PurgeTableEnd, PurgeEnd, PurgeYield
<1>2. TxnTypeOK' /\ LockTypeOK' /\ ViewTypeOK' /\ LogTypeOK' /\ HistTypeOK'
  BY <1>1 DEF TypeOK, TxnTypeOK, LockTypeOK, ViewTypeOK, LogTypeOK, HistTypeOK,
              txnVars, verVars, lockVars, stateVars, histVars
<1>3. CASE PurgeStart(p)
  <2>1. {pinned[t] : t \in live}
           \cup {fresh[t].saved : t \in {u \in live : fresh[u].depth > 0}} \in SUBSET AnyView
    BY DEF TypeOK, TxnTypeOK, ViewTypeOK, FreshState
  <2>2. active \in SUBSET Txn /\ nextTxn \in 0..(MaxTxn + 1)
    BY DEF TypeOK, TxnTypeOK
  <2>3. purge' \in [Purger -> PurgeState]
    BY <1>0, <1>3, <2>1, <2>2, PurgeStarted DEF PurgeStart
  <2> QED BY <1>2, <1>3, <2>3 DEF PurgeStart, TypeOK, RowTypeOK, PurgeTypeOK
<1>4. ASSUME NEW tab \in Table, PurgeTable(p, tab)
      PROVE  TypeOK'
  <2>2. purge' \in [Purger -> PurgeState]
    BY <1>0, <1>4, PurgeMoved DEF PurgeTable
  <2> QED BY <1>2, <1>4, <2>2 DEF PurgeTable, TypeOK, RowTypeOK, PurgeTypeOK
<1>5. CASE PurgeRow(p)
  <2>1. PICK r \in PurgeAhead(p) :
          /\ chain' = [chain EXCEPT ![r] = PurgedChain(p, @)]
          /\ purge' = [purge EXCEPT ![p].cursor = r + 1,
                                    ![p].left = @ \/ LeftForLater(p, chain[r])]
    BY <1>5 DEF PurgeRow
  <2>2. r \in Row /\ chain[r] \in Seq(Version) /\ chain[r] # <<>>
    BY DEF PurgeAhead, RowsOf, TypeOK, RowTypeOK
  <2>3. RowTypeOK'
    <3>1. PurgedChain(p, chain[r]) \in Seq(Version)
      BY <2>2, PurgedChainType
    <3> QED BY <1>1, <2>1, <3>1 DEF TypeOK, RowTypeOK
  <2>4. [q EXCEPT !.cursor = r + 1, !.left = @ \/ LeftForLater(p, chain[r])] \in PurgeState
    <3>1. r + 1 \in 0..(MaxRow + 1)
      BY <2>2 DEF Row
    <3>2. (q.left \/ LeftForLater(p, chain[r])) \in BOOLEAN
      OBVIOUS
    <3> QED BY <1>0, <3>1, <3>2 DEF PurgeState
  <2>5. purge' \in [Purger -> PurgeState]
    BY <1>0, <2>1, <2>4
  <2> QED BY <1>2, <1>5, <2>3, <2>5 DEF PurgeRow, TypeOK, PurgeTypeOK
<1>6. CASE PurgeTableEnd(p)
  <2>2. purge' \in [Purger -> PurgeState]
    BY <1>0, <1>6, PurgeMoved DEF PurgeTableEnd
  <2>3. clean' \in [Table -> BOOLEAN]
    BY <1>0, <1>6 DEF PurgeTableEnd, TypeOK, PurgeTypeOK, PurgeState
  <2> QED BY <1>2, <1>6, <2>2, <2>3 DEF PurgeTableEnd, TypeOK, RowTypeOK, PurgeTypeOK
<1>7. CASE PurgeEnd(p) \/ PurgeYield(p)
  <2>1. purge' \in [Purger -> PurgeState]
    BY <1>0, <1>7 DEF PurgeEnd, PurgeYield
  <2> QED BY <1>2, <1>7, <2>1 DEF PurgeEnd, PurgeYield, TypeOK, RowTypeOK, PurgeTypeOK
<1> QED BY <1>3, <1>4, <1>5, <1>6, <1>7 DEF PurgePass

-----------------------------------------------------------------------------
(* Savepoint marks                                                         *)

\* Every step keeps the savepoint marks ordered and inside the undo log.
LEMMA SavesStep ==
    ASSUME TypeOK, SavesInv, [Next]_vars
    PROVE  SavesInv'
<1>1. CASE UNCHANGED <<undo, saves>>
  BY <1>1 DEF SavesInv
<1>2. ASSUME NEW t \in Txn, NEW r \in Row, Insert(t, r) \/ Update(t, r) \/ Delete(t, r)
      PROVE  SavesInv'
  <2>1. PICK e : undo' = [undo EXCEPT ![t] = Append(@, e)]
    BY <1>2 DEF Insert, Update, Delete, PushUndo
  <2>2. \A u \in Txn : Len(undo[u]) <= Len(undo'[u])
    BY <2>1 DEF TypeOK, LogTypeOK
  <2>3. UNCHANGED saves
    BY <1>2 DEF Insert, Update, Delete
  <2>4. \A u \in Txn : \A i \in 1..Len(saves[u]) : saves[u][i].mark \in Nat
    BY SaveRecType DEF TypeOK
  <2>5. \A u \in Txn : Len(undo[u]) \in Nat /\ Len(undo'[u]) \in Nat
    BY <2>1 DEF TypeOK, LogTypeOK
  <2> QED BY <2>2, <2>3, <2>4, <2>5 DEF SavesInv
<1>3. ASSUME NEW t \in Txn, NEW name \in SaveName, Savepoint(t, name)
      PROVE  SavesInv'
  <2> DEFINE s == OtherSaves(t, name)
             e == [name |-> name, mark |-> Len(undo[t]), mine |-> mine[t]]
  <2>1. saves' = [saves EXCEPT ![t] = Append(s, e)] /\ UNCHANGED undo
    BY <1>3 DEF Savepoint
  <2>2. /\ s \in Seq(SaveRec) /\ Len(s) \in Nat /\ Len(undo[t]) \in Nat
        /\ \A i \in 1..Len(s) : /\ s[i].mark <= Len(undo[t])
                                /\ \A j \in 1..i : s[j].mark <= s[i].mark
    BY OtherSavesType DEF TypeOK
  <2>3. \A i \in 1..Len(saves'[t]) :
           /\ saves'[t][i].mark <= Len(undo[t])
           /\ \A j \in 1..i : saves'[t][j].mark <= saves'[t][i].mark
    <3>1. saves'[t] = Append(s, e)
      BY <2>1 DEF TypeOK, LogTypeOK
    <3> HIDE DEF s
    <3>2. /\ Len(Append(s, e)) = Len(s) + 1
          /\ \A i \in 1..Len(s) : Append(s, e)[i] = s[i]
          /\ Append(s, e)[Len(s) + 1] = e
      BY <2>2
    <3> HIDE DEF e
    <3>3. e.mark = Len(undo[t])
      BY DEF e
    <3> QED BY <2>2, <3>1, <3>2, <3>3
  <2>4. \A u \in Txn : u # t => saves'[u] = saves[u]
    BY <2>1 DEF TypeOK, LogTypeOK
  <2> QED BY <2>1, <2>3, <2>4 DEF SavesInv
<1>4. ASSUME NEW t \in Txn, NEW name \in SaveName,
             RollbackTo(t, name) \/ ReleaseSavepoint(t, name)
      PROVE  SavesInv'
  <2> DEFINE k == SaveAt(t, name)
  <2>1. /\ saves[t] \in Seq(SaveRec) /\ Len(saves[t]) \in Nat /\ k \in 1..Len(saves[t])
        /\ undo[t] \in Seq(UndoOp) /\ Len(undo[t]) \in Nat
    BY <1>4, SaveAtType DEF RollbackTo, ReleaseSavepoint, TypeOK, LogTypeOK
  <2>2. saves[t][k].mark \in Nat /\ saves[t][k].mark <= Len(undo[t])
    BY <2>1, SaveRecType DEF SavesInv, TypeOK
  <2>3. PICK n \in Nat :
          /\ n <= k /\ n <= Len(saves[t])
          /\ saves' = [saves EXCEPT ![t] = SubSeq(saves[t], 1, n)]
    <3>1. CASE RollbackTo(t, name)
      <4>1. saves' = [saves EXCEPT ![t] = SubSeq(saves[t], 1, k)]
        BY <3>1 DEF RollbackTo
      <4> HIDE DEF k
      <4>2. k \in Nat /\ k <= k /\ k <= Len(saves[t])
        BY <2>1
      <4> QED BY <4>1, <4>2
    <3>2. CASE ReleaseSavepoint(t, name)
      <4>1. saves' = [saves EXCEPT ![t] = SubSeq(saves[t], 1, k - 1)]
        BY <3>2 DEF ReleaseSavepoint
      <4> HIDE DEF k
      <4>2. k - 1 \in Nat /\ k - 1 <= k /\ k - 1 <= Len(saves[t])
        BY <2>1
      <4> QED BY <4>1, <4>2
    <3> QED BY <1>4, <3>1, <3>2
  <2>4. /\ Len(saves'[t]) = n /\ \A i \in 1..n : saves'[t][i] = saves[t][i]
        /\ \A u \in Txn : u # t => saves'[u] = saves[u]
    <3>1. Len(SubSeq(saves[t], 1, n)) = n /\ \A i \in 1..n : SubSeq(saves[t], 1, n)[i] = saves[t][i]
      BY <2>1, <2>3, SubSeqProperties
    <3> QED BY <2>3, <3>1 DEF TypeOK, LogTypeOK
  <2>5. /\ Len(undo'[t]) \in Nat /\ saves[t][k].mark <= Len(undo'[t])
        /\ \A u \in Txn : u # t => undo'[u] = undo[u]
    <3>1. CASE RollbackTo(t, name)
      <4>1. Len(SubSeq(undo[t], 1, saves[t][k].mark)) = saves[t][k].mark
        BY <2>1, <2>2, SubSeqProperties
      <4> QED BY <2>2, <3>1, <4>1 DEF RollbackTo, TypeOK, LogTypeOK
    <3>2. CASE ReleaseSavepoint(t, name)
      BY <2>1, <2>2, <3>2 DEF ReleaseSavepoint
    <3> QED BY <1>4, <3>1, <3>2
  <2>6. \A i \in 1..n : /\ saves[t][i].mark \in Nat /\ saves[t][i].mark <= saves[t][k].mark
                       /\ \A j \in 1..i : saves[t][j].mark <= saves[t][i].mark
    <3> HIDE DEF k
    <3> TAKE i \in 1..n
    <3>1. i \in 1..Len(saves[t]) /\ i \in 1..k
      BY <2>1, <2>3
    <3>2. saves[t][i].mark \in Nat
      BY <3>1, SaveRecType DEF TypeOK
    <3> QED BY <2>1, <3>1, <3>2 DEF SavesInv
  <2>7. \A i \in 1..n : saves[t][i].mark <= Len(undo'[t])
    BY <2>2, <2>5, <2>6
  <2> QED BY <2>4, <2>5, <2>6, <2>7 DEF SavesInv
<1>5. ASSUME NEW t \in Txn, Forget(t)
      PROVE  SavesInv'
  BY <1>5 DEF Forget, SavesInv, TypeOK, LogTypeOK
<1>6. ASSUME NEW t \in Txn, Session(t)
      PROVE  SavesInv'
  BY <1>1, <1>2, <1>3, <1>4, <1>5, <1>6
     DEF Session, Begin, BeginStatement, BeginFreshReads, EndFreshReads, Scan, IndexScan,
         WriteRefused, LockRow, LockRowRefused, LockTable, Rollback, CommitStage,
         CommitAtOnce, CommitConflict, CommitAppendFails, Taken,
         FinishCommit, stateVars
<1>7. ASSUME NEW t \in Txn, Engine(t)
      PROVE  SavesInv'
  BY <1>1, <1>5, <1>7 DEF Engine, UndoStep, AbortEnd, CommitFinish, FinishCommit, stateVars
<1>8. ASSUME NEW p \in Purger, PurgePass(p) \/ PurgeYield(p)
      PROVE  SavesInv'
  BY <1>1, <1>8 DEF PurgePass, PurgeStart, PurgeTable, PurgeRow, PurgeTableEnd, PurgeEnd,
                    PurgeYield, stateVars
<1>9. CASE UNCHANGED vars
  BY <1>1, <1>9 DEF vars, stateVars
<1> QED BY <1>6, <1>7, <1>8, <1>9 DEF Next

-----------------------------------------------------------------------------
(* The type invariant                                                      *)

\* An engine just opened is well typed.
LEMMA TypeInit == Init => TypeOK /\ SavesInv
<1> SUFFICES ASSUME Init PROVE TypeOK /\ SavesInv
  OBVIOUS
<1> USE MvccAssumption
<1>0. \A r \in Row : InitTuple(r) \in Tuple
  BY DEF InitTuple, Tuple, NoTuple, Loader, Row
<1>1. TxnTypeOK /\ LockTypeOK
  BY DEF Init, TxnTypeOK, LockTypeOK, Loader, Txn, Mode
<1>2. ViewTypeOK
  BY DEF Init, ViewTypeOK, AnyView, FreshState, NoFresh, Snapshots, Tuple, NoTuple
<1>3. LogTypeOK /\ SavesInv
  BY DEF Init, LogTypeOK, SavesInv
<1>4. RowTypeOK
  <2>1. \A r \in Row : [xmin |-> Loader, xmax |-> NoTxn, tuple |-> InitTuple(r)] \in Version
    BY <1>0 DEF Version, Loader, Txn, NoTxn
  <2>2. \A r \in Row : <<[xmin |-> Loader, xmax |-> NoTxn, tuple |-> InitTuple(r)]>> \in Seq(Version)
    BY <2>1
  <2> QED BY <2>2 DEF Init, RowTypeOK
<1>5. PurgeTypeOK
  BY DEF Init, PurgeTypeOK, PurgeState, NoPurge
<1>6. HistTypeOK
  BY <1>0 DEF Init, HistTypeOK, Snapshots, Tuple, NoTuple, Untouched
<1> QED BY <1>1, <1>2, <1>3, <1>4, <1>5, <1>6 DEF TypeOK

\* Every step of the engine keeps TypeOK and SavesInv: one case per action.
LEMMA TypeStep ==
    ASSUME TypeOK, SavesInv, [Next]_vars
    PROVE  TypeOK'
<1> USE MvccAssumption
<1>1. ASSUME NEW t \in Txn, Session(t)
      PROVE  TypeOK'
  <2>1. ASSUME NEW lvl \in Level, Begin(t, lvl) PROVE TypeOK'
    BY <2>1, BeginType
  <2>2. CASE BeginStatement(t) \/ BeginFreshReads(t) \/ EndFreshReads(t)
    BY <2>2, SnapshotActionsType
  <2>3. ASSUME NEW tab \in Table, Scan(t, tab) PROVE TypeOK'
    <3>1. TxnTypeOK' /\ ViewTypeOK'
      BY <2>3 DEF Scan, RowsOf, TypeOK, TxnTypeOK, ViewTypeOK, txnVars, verVars, histVars
    <3>2. LockTypeOK' /\ LogTypeOK' /\ RowTypeOK' /\ PurgeTypeOK' /\ HistTypeOK'
      BY <2>3 DEF Scan, TypeOK, LockTypeOK, LogTypeOK, RowTypeOK, PurgeTypeOK, HistTypeOK,
                  lockVars, rowVars, histVars
    <3> QED BY <3>1, <3>2 DEF TypeOK
  <2>4. ASSUME NEW r \in Row,
               \/ IndexScan(t, r) \/ Insert(t, r) \/ Update(t, r) \/ Delete(t, r)
               \/ WriteRefused(t, r)
        PROVE  TypeOK'
    <3>1. TableOf[r] \in Table
      OBVIOUS
    <3> QED BY <2>4, <3>1, ReadActionsType, InsertType, UpdateType, DeleteType, WriteRefusedType
  <2>5. ASSUME NEW r \in Row, NEW x \in LockModes, LockRow(t, r, x) \/ LockRowRefused(t, r, x)
        PROVE  TypeOK'
    <3>1. TableOf[r] \in Table /\ x \in BOOLEAN
      OBVIOUS
    <3> QED BY <2>5, <3>1, LockActionsType
  <2>6. ASSUME NEW tab \in Table, NEW x \in LockModes, LockTable(t, tab, x)
        PROVE  TypeOK'
    <3>1. LockTypeOK'
      BY <2>6 DEF LockTable, TypeOK, LockTypeOK, Granted, Mode
    <3>2. TxnTypeOK' /\ ViewTypeOK' /\ LogTypeOK' /\ RowTypeOK' /\ PurgeTypeOK' /\ HistTypeOK'
      BY <2>6 DEF LockTable, TypeOK, TxnTypeOK, ViewTypeOK, LogTypeOK, RowTypeOK, PurgeTypeOK,
                  HistTypeOK, txnVars, verVars, stateVars, rowVars, histVars
    <3> QED BY <3>1, <3>2 DEF TypeOK
  <2>7. ASSUME NEW name \in SaveName,
               Savepoint(t, name) \/ RollbackTo(t, name) \/ ReleaseSavepoint(t, name)
        PROVE  TypeOK'
    BY <2>7, SavepointType, RollbackToType, ReleaseSavepointType
  <2>8. CASE Rollback(t) \/ CommitConflict(t) \/ CommitAppendFails(t)
    BY <2>8, TakenType DEF Rollback, CommitConflict, CommitAppendFails
  <2>9. CASE CommitStage(t) \/ CommitAtOnce(t)
    BY <2>9, CommitStageType, CommitEndType
  <2> QED BY <1>1, <2>1, <2>2, <2>3, <2>4, <2>5, <2>6, <2>7, <2>8, <2>9 DEF Session
<1>2. ASSUME NEW t \in Txn, Engine(t)
      PROVE  TypeOK'
  BY <1>2, UndoStepType, AbortEndType, CommitEndType DEF Engine
<1>3. ASSUME NEW p \in Purger, PurgePass(p) \/ PurgeYield(p)
      PROVE  TypeOK'
  BY <1>3, PurgeActionsType
<1>4. CASE UNCHANGED vars
  <2>1. TxnTypeOK' /\ LockTypeOK' /\ ViewTypeOK'
    BY <1>4 DEF vars, txnVars, verVars, lockVars, stateVars, histVars,
                TypeOK, TxnTypeOK, LockTypeOK, ViewTypeOK
  <2>2. LogTypeOK' /\ RowTypeOK' /\ PurgeTypeOK' /\ HistTypeOK'
    BY <1>4 DEF vars, stateVars, rowVars, histVars,
                TypeOK, LogTypeOK, RowTypeOK, PurgeTypeOK, HistTypeOK
  <2> QED BY <2>1, <2>2 DEF TypeOK
<1> QED BY <1>1, <1>2, <1>3, <1>4 DEF Next

\* The engine's state keeps its type, and every rollback_to cuts a tail off the
\* undo log, for any number of transactions, rows, tables and savepoints.
THEOREM TypeCorrect == Spec => [](TypeOK /\ SavesInv)
<1>1. Init => TypeOK /\ SavesInv
  BY TypeInit
<1>2. TypeOK /\ SavesInv /\ [Next]_vars => TypeOK' /\ SavesInv'
  BY TypeStep, SavesStep
<1> QED BY <1>1, <1>2, PTL DEF Spec

-----------------------------------------------------------------------------
(* What the lock table promises                                            *)

\* An exclusive holder is the only holder.
Exclusive(holders) ==
    \A t, u \in Txn : t # u /\ holders[t] = "exclusive" => holders[u] = "none"
LockExclusion ==
    /\ \A tab \in Table : Exclusive(tableLock[tab])
    /\ \A r \in Row : Exclusive(rowLock[r])

\* Ids in use have been minted.
IdsBelow == \A t \in active \cup live : t < nextTxn

\* Every unfinished stamp on a row is backed by locks of the transaction that
\* made it: the table's intention always; the row's exclusive lock too, unless
\* the stamp is that of an insert nobody has written over.  Over an explicit
\* state, so that a lemma can speak of the state before and after a step.
ChainLocked(r, c, next, act, tl, rl) ==
    \A i \in 1..Len(c) :
        /\ c[i].xmin < next /\ c[i].xmax < next
        /\ c[i].xmin \in act =>
              /\ tl[TableOf[r]][c[i].xmin] # "none"
              /\ Len(c) > 1 => rl[r][c[i].xmin] = "exclusive"
        /\ c[i].xmax \in act =>
              /\ tl[TableOf[r]][c[i].xmax] # "none"
              /\ rl[r][c[i].xmax] = "exclusive"

\* The same for the version an update or delete would put back when undone.
OldLocked(op, next, act, tl, rl) ==
    op.op # "Inserted" =>
        /\ op.old.xmin < next /\ op.old.xmax = NoTxn
        /\ op.old.xmin \in act =>
              /\ tl[TableOf[op.row]][op.old.xmin] # "none"
              /\ rl[op.row][op.old.xmin] = "exclusive"

StampsLocked ==
    \A r \in Row : ChainLocked(r, chain[r], nextTxn, active, tableLock, rowLock)
LogLocked(log) ==
    \A t \in Txn : \A i \in 1..Len(log[t]) :
        OldLocked(log[t][i], nextTxn, active, tableLock, rowLock)

\* The inductive invariant behind LockedRowIsSettled and LockedTableIsQuiet.
LockInv ==
    /\ TypeOK /\ SavesInv
    /\ LockExclusion
    /\ IdsBelow
    /\ StampsLocked
    /\ LogLocked(undo) /\ LogLocked(undoing)

\* acquire_lock never gives an exclusive lock beside another holder.
LEMMA GrantedExclusive ==
    ASSUME NEW h \in [Txn -> Mode], Exclusive(h), NEW t \in Txn, NEW x \in BOOLEAN,
           CanLock(h, t, x)
    PROVE  Exclusive(Granted(h, t, x))
  BY DEF Exclusive, CanLock, Granted, Mode

\* ... and a lock once held is not weakened by another grant.
LEMMA GrantedKeeps ==
    ASSUME NEW h \in [Txn -> Mode], NEW t \in Txn, NEW x \in BOOLEAN
    PROVE  /\ Granted(h, t, x)[t] # "none"
           /\ x => Granted(h, t, x)[t] = "exclusive"
           /\ \A u \in Txn : h[u] # "none" => Granted(h, t, x)[u] # "none"
           /\ \A u \in Txn : h[u] = "exclusive" => Granted(h, t, x)[u] = "exclusive"
  BY DEF Granted, Mode

\* Locks held in one state are held in the next, by the transactions of act.
Kept(act, tl, rl, tl2, rl2) ==
    \A u \in act :
        /\ \A tab \in Table : tl[tab][u] # "none" => tl2[tab][u] # "none"
        /\ \A r \in Row : rl[r][u] = "exclusive" => rl2[r][u] = "exclusive"

\* Taking the table intention keeps table locks exclusive, leaves the taker with
\* a lock and weakens no lock.
LEMMA IntendEffect ==
    ASSUME TypeOK, LockExclusion, NEW t \in Txn, NEW tab \in Table, Intend(t, tab)
    PROVE  /\ \A b \in Table : Exclusive(tableLock'[b])
           /\ tableLock'[tab][t] # "none"
           /\ \A b \in Table, u \in Txn : tableLock[b][u] # "none" => tableLock'[b][u] # "none"
<1>1. tableLock[tab] \in [Txn -> Mode] /\ Exclusive(tableLock[tab])
  BY DEF TypeOK, LockTypeOK, LockExclusion
<1>2. Exclusive(Granted(tableLock[tab], t, FALSE))
  BY <1>1, GrantedExclusive DEF Intend
<1>3. /\ tableLock'[tab] = Granted(tableLock[tab], t, FALSE)
      /\ \A b \in Table : b # tab => tableLock'[b] = tableLock[b]
  BY DEF Intend, TypeOK, LockTypeOK
<1>4. /\ Granted(tableLock[tab], t, FALSE)[t] # "none"
      /\ \A u \in Txn : tableLock[tab][u] # "none" => Granted(tableLock[tab], t, FALSE)[u] # "none"
  BY <1>1, GrantedKeeps
<1> QED BY <1>2, <1>3, <1>4 DEF LockExclusion

\* Acquiring a row lock keeps row locks exclusive, grants what was asked for and
\* weakens no lock.
LEMMA AcquireRowEffect ==
    ASSUME TypeOK, LockExclusion, NEW t \in Txn, NEW r \in Row, NEW x \in BOOLEAN,
           AcquireRow(t, r, x)
    PROVE  /\ \A q \in Row : Exclusive(rowLock'[q])
           /\ x => rowLock'[r][t] = "exclusive"
           /\ \A q \in Row, u \in Txn : rowLock[q][u] = "exclusive" => rowLock'[q][u] = "exclusive"
<1>1. rowLock[r] \in [Txn -> Mode] /\ Exclusive(rowLock[r])
  BY DEF TypeOK, LockTypeOK, LockExclusion
<1>2. Exclusive(Granted(rowLock[r], t, x))
  BY <1>1, GrantedExclusive DEF AcquireRow
<1>3. /\ rowLock'[r] = Granted(rowLock[r], t, x)
      /\ \A q \in Row : q # r => rowLock'[q] = rowLock[q]
  BY DEF AcquireRow, TypeOK, LockTypeOK
<1>4. /\ x => Granted(rowLock[r], t, x)[t] = "exclusive"
      /\ \A u \in Txn : rowLock[r][u] = "exclusive" => Granted(rowLock[r], t, x)[u] = "exclusive"
  BY <1>1, GrantedKeeps
<1> QED BY <1>2, <1>3, <1>4 DEF LockExclusion

\* Releasing a transaction's locks keeps locks exclusive and everybody else's
\* locks.
LEMMA ReleaseLocksEffect ==
    ASSUME TypeOK, LockExclusion, NEW t \in Txn, ReleaseLocks(t)
    PROVE  /\ LockExclusion'
           /\ Kept(Txn \ {t}, tableLock, rowLock, tableLock', rowLock')
<1>1. /\ \A tab \in Table, u \in Txn :
            tableLock'[tab][u] = IF u = t THEN "none" ELSE tableLock[tab][u]
      /\ \A r \in Row, u \in Txn : rowLock'[r][u] = IF u = t THEN "none" ELSE rowLock[r][u]
  BY DEF ReleaseLocks, TypeOK, LockTypeOK
<1> QED BY <1>1 DEF LockExclusion, Exclusive, Kept

\* A chain's locks stay in place from one state to the next.
LEMMA ChainFrame ==
    ASSUME NEW r \in Row, NEW c \in Seq(Version),
           NEW n \in Nat, NEW n2 \in Nat, n <= n2,
           NEW act, NEW act2, \A x \in act2 : x < n => x \in act,
           NEW tl, NEW rl, NEW tl2, NEW rl2, Kept(act2, tl, rl, tl2, rl2),
           ChainLocked(r, c, n, act, tl, rl)
    PROVE  ChainLocked(r, c, n2, act2, tl2, rl2)
<1> SUFFICES ASSUME NEW i \in 1..Len(c)
             PROVE  /\ c[i].xmin < n2 /\ c[i].xmax < n2
                    /\ c[i].xmin \in act2 =>
                          /\ tl2[TableOf[r]][c[i].xmin] # "none"
                          /\ Len(c) > 1 => rl2[r][c[i].xmin] = "exclusive"
                    /\ c[i].xmax \in act2 =>
                          /\ tl2[TableOf[r]][c[i].xmax] # "none"
                          /\ rl2[r][c[i].xmax] = "exclusive"
  BY DEF ChainLocked
<1>1. c[i] \in Version
  OBVIOUS
<1>2. c[i].xmin \in Nat /\ c[i].xmax \in Nat
  BY <1>1 DEF Version, Txn, NoTxn
<1>3. c[i].xmin < n /\ c[i].xmax < n
  BY DEF ChainLocked
<1>4. TableOf[r] \in Table
  BY MvccAssumption
<1> QED BY <1>2, <1>3, <1>4 DEF ChainLocked, Kept

\* What an undo operation restores stays covered by locks when ids, actives and
\* locks of the others are kept.
LEMMA OldFrame ==
    ASSUME NEW op \in UndoOp,
           NEW n \in Nat, NEW n2 \in Nat, n <= n2,
           NEW act, NEW act2, \A x \in act2 : x < n => x \in act,
           NEW tl, NEW rl, NEW tl2, NEW rl2, Kept(act2, tl, rl, tl2, rl2),
           OldLocked(op, n, act, tl, rl)
    PROVE  OldLocked(op, n2, act2, tl2, rl2)
<1> SUFFICES ASSUME op.op # "Inserted"
             PROVE  /\ op.old.xmin < n2 /\ op.old.xmax = NoTxn
                    /\ op.old.xmin \in act2 =>
                          /\ tl2[TableOf[op.row]][op.old.xmin] # "none"
                          /\ rl2[op.row][op.old.xmin] = "exclusive"
  BY DEF OldLocked
<1>1. op.row \in Row /\ op.old \in Version
  BY DEF UndoOp
<1>2. op.old.xmin \in Nat
  BY <1>1 DEF Version, Txn
<1>3. TableOf[op.row] \in Table
  BY <1>1, MvccAssumption
<1> QED BY <1>1, <1>2, <1>3 DEF OldLocked, Kept

\* Every step keeps exclusive locks exclusive, and the locks of everyone who is
\* still unfinished after it.
LEMMA LockStep ==
    ASSUME LockInv, [Next]_vars
    PROVE  LockExclusion' /\ Kept(active', tableLock, rowLock, tableLock', rowLock')
<1> USE MvccAssumption
<1> USE DEF LockInv
<1>0. active \subseteq Txn /\ active' \subseteq Txn
  BY TypeStep DEF TypeOK, TxnTypeOK
<1>1. CASE UNCHANGED lockVars
  BY <1>1 DEF lockVars, LockExclusion, Kept
<1>2. ASSUME NEW t \in Txn, NEW r \in Row, NEW x \in BOOLEAN,
             Intend(t, TableOf[r]), AcquireRow(t, r, x) \/ UNCHANGED rowLock
      PROVE  LockExclusion' /\ Kept(active', tableLock, rowLock, tableLock', rowLock')
  <2>1. /\ \A b \in Table : Exclusive(tableLock'[b])
        /\ \A b \in Table, u \in Txn : tableLock[b][u] # "none" => tableLock'[b][u] # "none"
    BY <1>2, IntendEffect
  <2>2. /\ \A q \in Row : Exclusive(rowLock'[q])
        /\ \A q \in Row, u \in Txn : rowLock[q][u] = "exclusive" => rowLock'[q][u] = "exclusive"
    <3>1. CASE AcquireRow(t, r, x)
      BY <1>2, <3>1, AcquireRowEffect
    <3>2. CASE UNCHANGED rowLock
      BY <3>2 DEF LockExclusion
    <3> QED BY <1>2, <3>1, <3>2
  <2> QED BY <1>0, <2>1, <2>2 DEF LockExclusion, Kept
<1>3. ASSUME NEW t \in Txn, NEW tab \in Table, NEW x \in BOOLEAN, LockTable(t, tab, x)
      PROVE  LockExclusion' /\ Kept(active', tableLock, rowLock, tableLock', rowLock')
  <2>1. tableLock[tab] \in [Txn -> Mode] /\ Exclusive(tableLock[tab])
    BY DEF TypeOK, LockTypeOK, LockExclusion
  <2>2. Exclusive(Granted(tableLock[tab], t, x))
    BY <1>3, <2>1, GrantedExclusive DEF LockTable
  <2>3. \A u \in Txn : tableLock[tab][u] # "none" => Granted(tableLock[tab], t, x)[u] # "none"
    BY <2>1, GrantedKeeps
  <2>4. /\ tableLock'[tab] = Granted(tableLock[tab], t, x)
        /\ \A b \in Table : b # tab => tableLock'[b] = tableLock[b]
        /\ rowLock' = rowLock
    BY <1>3 DEF LockTable, TypeOK, LockTypeOK
  <2> QED BY <1>0, <2>2, <2>3, <2>4 DEF LockExclusion, Kept
<1>4. ASSUME NEW t \in Txn, ReleaseLocks(t), active' = active \ {t}
      PROVE  LockExclusion' /\ Kept(active', tableLock, rowLock, tableLock', rowLock')
  BY <1>0, <1>4, ReleaseLocksEffect DEF Kept
<1>5. ASSUME NEW t \in Txn, Session(t)
      PROVE  LockExclusion' /\ Kept(active', tableLock, rowLock, tableLock', rowLock')
  <2>1. CASE \/ \E lvl \in Level : Begin(t, lvl)
             \/ BeginStatement(t) \/ BeginFreshReads(t) \/ EndFreshReads(t)
             \/ \E tab \in Table : Scan(t, tab)
             \/ \E r \in Row : IndexScan(t, r)
    BY <1>1, <2>1 DEF Begin, BeginStatement, BeginFreshReads, EndFreshReads, Scan, IndexScan
  <2>2. ASSUME NEW r \in Row, Insert(t, r) \/ Update(t, r) \/ Delete(t, r) \/ WriteRefused(t, r)
        PROVE  LockExclusion' /\ Kept(active', tableLock, rowLock, tableLock', rowLock')
    BY <1>2, <2>2 DEF Insert, Update, Delete, WriteRefused
  <2>3. ASSUME NEW r \in Row, NEW x \in LockModes, LockRow(t, r, x) \/ LockRowRefused(t, r, x)
        PROVE  LockExclusion' /\ Kept(active', tableLock, rowLock, tableLock', rowLock')
    BY <1>2, <2>3 DEF LockRow, LockRowRefused
  <2>4. ASSUME NEW tab \in Table, NEW x \in LockModes, LockTable(t, tab, x)
        PROVE  LockExclusion' /\ Kept(active', tableLock, rowLock, tableLock', rowLock')
    BY <1>3, <2>4
  <2>5. CASE \/ \E name \in SaveName :
                  Savepoint(t, name) \/ RollbackTo(t, name) \/ ReleaseSavepoint(t, name)
             \/ Rollback(t) \/ CommitStage(t) \/ CommitConflict(t) \/ CommitAppendFails(t)
    BY <1>1, <2>5 DEF Savepoint, RollbackTo, ReleaseSavepoint, Rollback, CommitStage,
                      CommitConflict, CommitAppendFails, Taken
  <2>6. CASE CommitAtOnce(t)
    BY <1>4, <2>6 DEF CommitAtOnce, FinishCommit
  <2> QED BY <1>5, <2>1, <2>2, <2>3, <2>4, <2>5, <2>6 DEF Session
<1>6. ASSUME NEW t \in Txn, Engine(t)
      PROVE  LockExclusion' /\ Kept(active', tableLock, rowLock, tableLock', rowLock')
  BY <1>1, <1>4, <1>6 DEF Engine, UndoStep, AbortEnd, CommitFinish, FinishCommit
<1>7. ASSUME NEW p \in Purger, PurgePass(p) \/ PurgeYield(p)
      PROVE  LockExclusion' /\ Kept(active', tableLock, rowLock, tableLock', rowLock')
  BY <1>1, <1>7 DEF PurgePass, PurgeStart, PurgeTable, PurgeRow, PurgeTableEnd, PurgeEnd,
                    PurgeYield
<1>8. CASE UNCHANGED vars
  BY <1>1, <1>8 DEF vars
<1> QED BY <1>5, <1>6, <1>7, <1>8 DEF Next

\* Ids are minted in order, and only BEGIN makes a transaction active.
LEMMA IdStep ==
    ASSUME LockInv, [Next]_vars
    PROVE  /\ IdsBelow'
           /\ nextTxn \in Nat /\ nextTxn' \in Nat /\ nextTxn <= nextTxn'
           /\ \A x \in active' : x < nextTxn => x \in active
<1> USE DEF LockInv
<1>0. /\ nextTxn \in Nat /\ nextTxn' \in Nat
      /\ active \cup live \subseteq Nat
  BY TypeStep DEF TypeOK, TxnTypeOK, Txn
<1>1. CASE nextTxn' = nextTxn /\ active' \subseteq active /\ live' \subseteq live
  BY <1>0, <1>1 DEF IdsBelow
<1>2. ASSUME NEW t \in Txn, NEW lvl \in Level, Begin(t, lvl)
      PROVE  /\ IdsBelow' /\ nextTxn <= nextTxn'
             /\ \A x \in active' : x < nextTxn => x \in active
  BY <1>0, <1>2 DEF Begin, IdsBelow
<1>3. ASSUME NEW t \in Txn, Session(t), ~ \E lvl \in Level : Begin(t, lvl)
      PROVE  nextTxn' = nextTxn /\ active' \subseteq active /\ live' \subseteq live
  BY <1>3 DEF Session, BeginStatement, BeginFreshReads, EndFreshReads, Scan, IndexScan, Insert,
         Update, Delete, WriteRefused, LockRow, LockRowRefused, LockTable, Savepoint, RollbackTo,
         ReleaseSavepoint, Rollback, CommitStage, CommitAtOnce, CommitConflict,
         CommitAppendFails, Taken, FinishCommit, Forget, txnVars
<1>4. ASSUME NEW t \in Txn, Engine(t)
      PROVE  nextTxn' = nextTxn /\ active' \subseteq active /\ live' \subseteq live
  BY <1>4 DEF Engine, UndoStep, AbortEnd, CommitFinish, FinishCommit, Forget, txnVars
<1>5. ASSUME NEW p \in Purger, PurgePass(p) \/ PurgeYield(p)
      PROVE  nextTxn' = nextTxn /\ active' \subseteq active /\ live' \subseteq live
  BY <1>5 DEF PurgePass, PurgeStart, PurgeTable, PurgeRow, PurgeTableEnd, PurgeEnd,
              PurgeYield, txnVars
<1>6. CASE UNCHANGED vars
  BY <1>1, <1>6 DEF vars, txnVars
<1> QED BY <1>0, <1>1, <1>2, <1>3, <1>4, <1>5, <1>6 DEF Next

\* Undoing an operation keeps the stamps of the row locked.
LEMMA UndoneLocked ==
    ASSUME NEW op \in UndoOp, NEW c \in Seq(Version), NEW n \in Nat, n > 0,
           NEW act, NoTxn \notin act, NEW tl, NEW rl,
           ChainLocked(op.row, c, n, act, tl, rl), OldLocked(op, n, act, tl, rl)
    PROVE  ChainLocked(op.row, Undone(op, c), n, act, tl, rl)
<1>1. CASE op.op = "Inserted"
  <2>1. Undone(op, c) = <<>>
    BY <1>1 DEF Undone
  <2> QED BY <2>1 DEF ChainLocked
<1>2. CASE op.op = "Updated"
  <2> DEFINE d == SubSeq(c, 3, Len(c))
  <2>1. op.old \in Version
    BY <1>2 DEF UndoOp
  <2>2. /\ d \in Seq(Version) /\ Len(c) \in Nat
        /\ Len(d) = IF 3 <= Len(c) THEN Len(c) - 2 ELSE 0
        /\ \A i \in 1..(Len(c) - 2) : d[i] = c[i + 2]
    BY SubSeqProperties
  <2> HIDE DEF d
  <2>3. /\ Undone(op, c) = <<op.old>> \o d
        /\ Len(<<op.old>> \o d) = 1 + Len(d)
        /\ (<<op.old>> \o d)[1] = op.old
        /\ \A i \in 2..(1 + Len(d)) : (<<op.old>> \o d)[i] = d[i - 1]
    BY <1>2, <2>1, <2>2 DEF Undone, d
  <2> DEFINE e == <<op.old>> \o d
  <2> HIDE DEF e
  <2>4. e[1] = op.old /\ Len(e) = 1 + Len(d)
    BY <2>3 DEF e
  <2>5. ASSUME NEW i \in 2..Len(e)
        PROVE  Len(c) > 1 /\ \E j \in 1..Len(c) : e[i] = c[j]
    <3>1. i - 1 \in 1..(Len(c) - 2) /\ e[i] = d[i - 1]
      BY <2>2, <2>3, <2>4 DEF e
    <3>2. e[i] = c[(i - 1) + 2] /\ (i - 1) + 2 \in 1..Len(c) /\ Len(c) > 1
      BY <2>2, <3>1
    <3> QED BY <3>2
  <2>6. ASSUME NEW i \in 1..Len(e)
        PROVE  /\ e[i].xmin < n /\ e[i].xmax < n
               /\ e[i].xmin \in act =>
                     tl[TableOf[op.row]][e[i].xmin] # "none" /\ rl[op.row][e[i].xmin] = "exclusive"
               /\ e[i].xmax \in act =>
                     tl[TableOf[op.row]][e[i].xmax] # "none" /\ rl[op.row][e[i].xmax] = "exclusive"
    <3>1. CASE i = 1
      <4>1. op.old.xmax = NoTxn
        BY <1>2 DEF OldLocked
      <4> QED BY <1>2, <2>4, <3>1, <4>1 DEF OldLocked, NoTxn
    <3>2. CASE i # 1
      <4>1. i \in 2..Len(e)
        BY <2>2, <2>4, <3>2
      <4>2. PICK j \in 1..Len(c) : e[i] = c[j]
        BY <2>5, <4>1
      <4>3. Len(c) > 1
        BY <2>5, <4>1
      <4> QED BY <4>2, <4>3 DEF ChainLocked
    <3> QED BY <3>1, <3>2
  <2> QED BY <2>3, <2>6 DEF ChainLocked, e
<1>3. CASE op.op = "Deleted"
  <2>1. CASE c = <<>>
    <3>1. Len(Undone(op, c)) = 0
      <4>1. c \in [{} -> Version] /\ 1..0 = {}
        BY <2>1
      <4>2. \A v : [c EXCEPT ![1] = v] = c
        BY <4>1, Zenon
      <4>3. Undone(op, c) = c
        BY <1>3, <4>2 DEF Undone
      <4> QED BY <2>1, <4>3
    <3> QED BY <3>1 DEF ChainLocked
  <2>2. CASE c # <<>>
    <3> DEFINE v == [c[1] EXCEPT !.xmax = op.old.xmax]
               e == [c EXCEPT ![1] = v]
    <3>1. 1 \in 1..Len(c) /\ c[1] \in Version /\ op.old \in Version
      BY <1>3, <2>2 DEF UndoOp
    <3>2. v.xmin = c[1].xmin /\ v.xmax = NoTxn /\ v \in Version
      BY <1>3, <3>1, StampType DEF Version, OldLocked, NoTxn
    <3> HIDE DEF v
    <3>3. /\ Undone(op, c) = e /\ Len(e) = Len(c)
          /\ \A j \in 1..Len(c) : e[j] = IF j = 1 THEN v ELSE c[j]
      BY <1>3, <3>1, <3>2, ExceptSeq DEF Undone, v
    <3> HIDE DEF e
    <3> QED BY <3>2, <3>3 DEF ChainLocked, NoTxn
  <2> QED BY <2>1, <2>2
<1> QED BY <1>1, <1>2, <1>3 DEF UndoOp

\* Purge takes stamps away, never adds one.
LEMMA PurgedLocked ==
    ASSUME NEW p, NEW r \in Row, NEW c \in Seq(Version), c # <<>>, NEW n, NEW act, NEW tl, NEW rl,
           ChainLocked(r, c, n, act, tl, rl)
    PROVE  ChainLocked(r, PurgedChain(p, c), n, act, tl, rl)
<1>1. PurgedChain(p, c) \in {<<>>, <<c[1]>>, c}
  BY DEF PurgedChain
<1>2. ChainLocked(r, <<>>, n, act, tl, rl)
  BY DEF ChainLocked
<1>3. ChainLocked(r, <<c[1]>>, n, act, tl, rl)
  <2>1. 1 \in 1..Len(c) /\ Len(<<c[1]>>) = 1 /\ <<c[1]>>[1] = c[1]
    OBVIOUS
  <2> QED BY <2>1 DEF ChainLocked
<1> QED BY <1>1, <1>2, <1>3

\* Every step keeps the stamps on the stored versions locked.
LEMMA StampsStep ==
    ASSUME LockInv, [Next]_vars
    PROVE  StampsLocked'
<1> USE MvccAssumption
<1> DEFINE CL(r, c) == ChainLocked(r, c, nextTxn, active, tableLock, rowLock)
           CL2(r, c) == ChainLocked(r, c, nextTxn', active', tableLock', rowLock')
<1>a. /\ nextTxn \in Nat /\ nextTxn' \in Nat /\ nextTxn <= nextTxn' /\ nextTxn > 0
      /\ \A x \in active' : x < nextTxn => x \in active
  BY IdStep DEF LockInv, TypeOK, TxnTypeOK
<1>b. Kept(active', tableLock, rowLock, tableLock', rowLock')
  BY LockStep
<1>c. active' \subseteq Txn /\ NoTxn \notin active'
  BY TypeStep DEF LockInv, TypeOK, TxnTypeOK, Txn, NoTxn
<1>d. \A r \in Row : chain[r] \in Seq(Version) /\ CL(r, chain[r])
  BY DEF LockInv, TypeOK, RowTypeOK, StampsLocked
<1>e. \A r \in Row : \A c \in Seq(Version) : CL(r, c) => CL2(r, c)
  BY <1>a, <1>b, ChainFrame
<1>f. \A r \in Row : CL2(r, chain[r])
  BY <1>d, <1>e
<1>1. CASE UNCHANGED chain
  BY <1>1, <1>f DEF StampsLocked
<1>2. ASSUME NEW t \in Txn, NEW r \in Row, Insert(t, r)
      PROVE  StampsLocked'
  <2> DEFINE v == [xmin |-> t, xmax |-> NoTxn, tuple |-> NewTuple(t)]
  <2>1. chain' = [chain EXCEPT ![r] = <<v>>]
    BY <1>2 DEF Insert
  <2>2. t < nextTxn'
    BY <1>2, <1>a DEF Insert, CanWrite, Idle, LockInv, IdsBelow, Txn
  <2>3. tableLock'[TableOf[r]][t] # "none"
    BY <1>2, IntendEffect DEF Insert, LockInv
  <2>4. CL2(r, <<v>>)
    BY <1>a, <1>c, <2>2, <2>3 DEF ChainLocked, NoTxn
  <2> QED BY <1>d, <1>f, <2>1, <2>4 DEF StampsLocked, LockInv, TypeOK, RowTypeOK
<1>3. ASSUME NEW t \in Txn, NEW r \in Row, Update(t, r)
      PROVE  StampsLocked'
  <2> DEFINE v == [xmin |-> t, xmax |-> NoTxn, tuple |-> NewTuple(t)]
             c == chain[r]
             d == <<v>> \o c
  <2>1. chain' = [chain EXCEPT ![r] = d]
    BY <1>3 DEF Update
  <2>2. t < nextTxn' /\ active' = active
    BY <1>3, <1>a DEF Update, CanWrite, Idle, LockInv, IdsBelow, Txn, txnVars
  <2>3. tableLock'[TableOf[r]][t] # "none" /\ rowLock'[r][t] = "exclusive"
    BY <1>3, IntendEffect, AcquireRowEffect DEF Update, LockInv
  <2>4. c \in Seq(Version) /\ Len(c) \in Nat /\ Len(c) > 0
    BY <1>3, <1>d DEF Update
  <2>5. c[1].xmin \in active' => c[1].xmin = t
    BY <1>3, <2>2 DEF Update, Admitted
  <2>6. v.xmin = t /\ v.xmax = NoTxn
    OBVIOUS
  <2>7. CL2(r, c)
    BY <1>f
  <2>8. CL2(r, d)
    <3> HIDE DEF v, c
    <3>1. /\ Len(d) = 1 + Len(c) /\ d[1] = v
          /\ \A i \in 2..(1 + Len(c)) : d[i] = c[i - 1]
      BY <2>4
    <3> HIDE DEF d
    <3>2. ASSUME NEW i \in 1..Len(d)
          PROVE  /\ d[i].xmin < nextTxn' /\ d[i].xmax < nextTxn'
                 /\ d[i].xmin \in active' =>
                       /\ tableLock'[TableOf[r]][d[i].xmin] # "none"
                       /\ rowLock'[r][d[i].xmin] = "exclusive"
                 /\ d[i].xmax \in active' =>
                       /\ tableLock'[TableOf[r]][d[i].xmax] # "none"
                       /\ rowLock'[r][d[i].xmax] = "exclusive"
      <4>1. CASE i = 1
        BY <1>a, <1>c, <2>2, <2>3, <2>6, <3>1, <4>1 DEF NoTxn
      <4>2. CASE i # 1
        <5>1. i - 1 \in 1..Len(c) /\ d[i] = c[i - 1]
          BY <2>4, <3>1, <4>2
        <5>2. CASE Len(c) > 1
          BY <2>7, <5>1, <5>2 DEF ChainLocked
        <5>3. CASE ~(Len(c) > 1)
          <6>1. d[i] = c[1] /\ 1 \in 1..Len(c)
            BY <2>4, <5>1, <5>3
          <6> QED BY <2>3, <2>5, <2>7, <6>1 DEF ChainLocked, c
        <5> QED BY <5>2, <5>3
      <4> QED BY <4>1, <4>2
    <3> QED BY <3>2 DEF ChainLocked
  <2> HIDE DEF d
  <2> QED BY <1>f, <2>1, <2>8 DEF StampsLocked, LockInv, TypeOK, RowTypeOK
<1>4. ASSUME NEW t \in Txn, NEW r \in Row, Delete(t, r)
      PROVE  StampsLocked'
  <2> DEFINE c == chain[r]
             v == [c[1] EXCEPT !.xmax = t]
             d == [c EXCEPT ![1] = v]
  <2>1. chain' = [chain EXCEPT ![r] = d]
    BY <1>4 DEF Delete
  <2>2. t < nextTxn'
    BY <1>4, <1>a DEF Delete, CanWrite, Idle, LockInv, IdsBelow, Txn
  <2>3. tableLock'[TableOf[r]][t] # "none" /\ rowLock'[r][t] = "exclusive"
    BY <1>4, IntendEffect, AcquireRowEffect DEF Delete, LockInv
  <2>4. c \in Seq(Version) /\ Len(c) \in Nat /\ 1 \in 1..Len(c) /\ c[1] \in Version
    BY <1>4, <1>d DEF Delete
  <2>5. v.xmin = c[1].xmin /\ v.xmax = t /\ v \in Version
    BY <2>4, StampType DEF Version
  <2>6. CL2(r, c)
    BY <1>f
  <2> HIDE DEF v, c
  <2>7. Len(d) = Len(c) /\ \A j \in 1..Len(c) : d[j] = IF j = 1 THEN v ELSE c[j]
    BY <2>4, <2>5, ExceptSeq
  <2> HIDE DEF d
  <2>8. CL2(r, d)
    BY <2>2, <2>3, <2>4, <2>5, <2>6, <2>7 DEF ChainLocked
  <2> QED BY <1>f, <2>1, <2>8 DEF StampsLocked, LockInv, TypeOK, RowTypeOK
<1>5. ASSUME NEW t \in Txn, UndoStep(t)
      PROVE  StampsLocked'
  <2> DEFINE op == undoing[t][Len(undoing[t])]
  <2>1. op \in UndoOp /\ op.row \in Row
    BY <1>5, LastUndoing DEF UndoStep, LockInv, TypeOK, UndoOp
  <2>2. Len(undoing[t]) \in 1..Len(undoing[t])
    BY <1>5 DEF UndoStep, LockInv, TypeOK, LogTypeOK
  <2>3. OldLocked(op, nextTxn, active, tableLock, rowLock)
    BY <2>2 DEF LockInv, LogLocked
  <2> HIDE DEF op
  <2>4. OldLocked(op, nextTxn', active', tableLock', rowLock')
    BY <1>a, <1>b, <2>1, <2>3, OldFrame
  <2>5. CL2(op.row, Undone(op, chain[op.row]))
    BY <1>a, <1>c, <1>d, <1>f, <2>1, <2>4, UndoneLocked
  <2>6. chain' = [chain EXCEPT ![op.row] = Undone(op, chain[op.row])]
    BY <1>5 DEF UndoStep, op
  <2> QED BY <1>f, <2>1, <2>5, <2>6 DEF StampsLocked, LockInv, TypeOK, RowTypeOK
<1>6. ASSUME NEW p \in Purger, PurgeRow(p)
      PROVE  StampsLocked'
  <2>1. PICK r \in PurgeAhead(p) : chain' = [chain EXCEPT ![r] = PurgedChain(p, chain[r])]
    BY <1>6 DEF PurgeRow
  <2>2. r \in Row /\ chain[r] # <<>>
    BY DEF PurgeAhead, RowsOf
  <2>3. CL2(r, PurgedChain(p, chain[r]))
    BY <1>d, <1>f, <2>2, PurgedLocked
  <2> QED BY <1>f, <2>1, <2>2, <2>3 DEF StampsLocked, LockInv, TypeOK, RowTypeOK
<1>7. ASSUME NEW t \in Txn, Session(t)
      PROVE  StampsLocked'
  <2>1. CASE \E r \in Row : Insert(t, r) \/ Update(t, r) \/ Delete(t, r)
    BY <1>2, <1>3, <1>4, <2>1
  <2>2. CASE ~ \E r \in Row : Insert(t, r) \/ Update(t, r) \/ Delete(t, r)
    <3>1. UNCHANGED chain
      BY <1>7, <2>2
         DEF Session, Begin, BeginStatement, BeginFreshReads, EndFreshReads, Scan, IndexScan,
             WriteRefused, LockRow, LockRowRefused, LockTable, Savepoint, RollbackTo,
             ReleaseSavepoint, Rollback, CommitStage, CommitAtOnce,
             CommitConflict, CommitAppendFails, Taken, FinishCommit, rowVars
    <3> QED BY <1>1, <3>1
  <2> QED BY <2>1, <2>2
<1>8. ASSUME NEW t \in Txn, Engine(t)
      PROVE  StampsLocked'
  BY <1>1, <1>5, <1>8 DEF Engine, AbortEnd, CommitFinish, FinishCommit, rowVars
<1>9. ASSUME NEW p \in Purger, PurgePass(p) \/ PurgeYield(p)
      PROVE  StampsLocked'
  BY <1>1, <1>6, <1>9 DEF PurgePass, PurgeStart, PurgeTable, PurgeTableEnd, PurgeEnd, PurgeYield
<1>10. CASE UNCHANGED vars
  BY <1>1, <1>10 DEF vars, rowVars
<1> QED BY <1>7, <1>8, <1>9, <1>10 DEF Next

\* Every step keeps what the undo logs would put back locked.
LEMMA LogStep ==
    ASSUME LockInv, [Next]_vars
    PROVE  LogLocked(undo)' /\ LogLocked(undoing)'
<1> USE MvccAssumption
<1> DEFINE OL(op) == OldLocked(op, nextTxn, active, tableLock, rowLock)
           OL2(op) == OldLocked(op, nextTxn', active', tableLock', rowLock')
<1>a. /\ nextTxn \in Nat /\ nextTxn' \in Nat /\ nextTxn <= nextTxn'
      /\ \A x \in active' : x < nextTxn => x \in active
  BY IdStep
<1>b. Kept(active', tableLock, rowLock, tableLock', rowLock')
  BY LockStep
<1>c. /\ undo \in [Txn -> Seq(UndoOp)] /\ undoing \in [Txn -> Seq(UndoOp)]
  BY DEF LockInv, TypeOK, LogTypeOK
<1>d. \A op \in UndoOp : OL(op) => OL2(op)
  BY <1>a, <1>b, OldFrame
<1>e. /\ \A t \in Txn : \A i \in 1..Len(undo[t]) : OL2(undo[t][i])
      /\ \A t \in Txn : \A i \in 1..Len(undoing[t]) : OL2(undoing[t][i])
  BY <1>c, <1>d DEF LockInv, LogLocked
<1> DEFINE Locked == /\ \A t \in Txn : \A i \in 1..Len(undo'[t]) : OL2(undo'[t][i])
                     /\ \A t \in Txn : \A i \in 1..Len(undoing'[t]) : OL2(undoing'[t][i])
<1> SUFFICES Locked
  BY DEF LogLocked
<1>1. CASE UNCHANGED <<undo, undoing>>
  BY <1>1, <1>e
<1>2. ASSUME NEW t \in Txn, NEW r \in Row, Insert(t, r) \/ Update(t, r) \/ Delete(t, r)
      PROVE  Locked
  <2>1. PICK op : OL2(op) /\ undo' = [undo EXCEPT ![t] = Append(@, op)]
    <3>1. CASE Insert(t, r)
      BY <3>1 DEF Insert, PushUndo, OldLocked
    <3>2. CASE Update(t, r) \/ Delete(t, r)
      <4> DEFINE v == chain[r][1]
                 kind == IF Update(t, r) THEN "Updated" ELSE "Deleted"
                 op == [op |-> kind, row |-> r, old |-> v]
      <4>1. undo' = [undo EXCEPT ![t] = Append(@, op)]
        BY <3>2 DEF Update, Delete, PushUndo
      <4>2. /\ v.xmax = NoTxn
            /\ v.xmin \in active => v.xmin = t
            /\ active' = active
        BY <3>2 DEF Update, Delete, Admitted, txnVars
      <4>3. tableLock'[TableOf[r]][t] # "none" /\ rowLock'[r][t] = "exclusive"
        BY <3>2, IntendEffect, AcquireRowEffect DEF Update, Delete, LockInv
      <4>4. v.xmin < nextTxn'
        <5>0. chain[r] # <<>> /\ chain[r] \in Seq(Version)
          BY <3>2 DEF Update, Delete, LockInv, TypeOK, RowTypeOK
        <5>1. 1 \in 1..Len(chain[r]) /\ v \in Version
          BY <5>0
        <5>2. v.xmin < nextTxn /\ v.xmin \in Nat
          BY <5>1 DEF LockInv, StampsLocked, ChainLocked, Version, Txn
        <5> QED BY <1>a, <5>2
      <4>5. OL2(op)
        <5>1. op.row = r /\ op.old = v
          OBVIOUS
        <5> HIDE DEF v, op
        <5> QED BY <4>2, <4>3, <4>4, <5>1 DEF OldLocked
      <4> QED BY <4>1, <4>5
    <3> QED BY <1>2, <3>1, <3>2
  <2>2. UNCHANGED undoing
    BY <1>2 DEF Insert, Update, Delete
  <2>3. \A i \in 1..Len(undo'[t]) : OL2(undo'[t][i])
    <3>1. undo[t] \in Seq(UndoOp) /\ undo'[t] = Append(undo[t], op)
      BY <1>c, <2>1
    <3>2. /\ Len(Append(undo[t], op)) = Len(undo[t]) + 1
          /\ \A i \in 1..Len(undo[t]) : Append(undo[t], op)[i] = undo[t][i]
          /\ Append(undo[t], op)[Len(undo[t]) + 1] = op
          /\ Len(undo[t]) \in Nat
      BY <3>1
    <3> HIDE DEF OL2
    <3>3. ASSUME NEW i \in 1..(Len(undo[t]) + 1) PROVE OL2(Append(undo[t], op)[i])
      <4>1. CASE i \in 1..Len(undo[t])
        BY <1>e, <3>2, <4>1
      <4>2. CASE i = Len(undo[t]) + 1
        BY <2>1, <3>2, <4>2
      <4> QED BY <3>2, <4>1, <4>2
    <3> QED BY <3>1, <3>2, <3>3
  <2>4. \A u \in Txn : u # t => undo'[u] = undo[u]
    BY <1>c, <2>1
  <2> HIDE DEF OL2
  <2> QED BY <1>e, <2>2, <2>3, <2>4
<1>3. ASSUME NEW t \in Txn, NEW name \in SaveName, RollbackTo(t, name)
      PROVE  Locked
  <2> DEFINE mark == saves[t][SaveAt(t, name)].mark
             n == Len(undo[t])
  <2>1. /\ undo' = [undo EXCEPT ![t] = SubSeq(@, 1, mark)]
        /\ undoing' = [undoing EXCEPT ![t] = SubSeq(undo[t], mark + 1, n)]
    BY <1>3 DEF RollbackTo
  <2>2. mark \in Nat /\ mark <= n /\ n \in Nat /\ undo[t] \in Seq(UndoOp)
    <3>1. SaveAt(t, name) \in 1..Len(saves[t])
      BY <1>3, SaveAtType DEF RollbackTo
    <3> QED BY <1>c, <3>1, SaveRecType DEF LockInv, SavesInv, TypeOK
  <2> HIDE DEF mark
  <2>3. /\ Len(SubSeq(undo[t], 1, mark)) = mark
        /\ \A i \in 1..mark : SubSeq(undo[t], 1, mark)[i] = undo[t][i]
    BY <2>2, SubSeqProperties
  <2>4. /\ Len(SubSeq(undo[t], mark + 1, n)) = n - mark
        /\ \A i \in 1..(n - mark) : SubSeq(undo[t], mark + 1, n)[i] = undo[t][mark + i]
    BY <2>2, SubSeqProperties
  <2> HIDE DEF OL2, n
  <2>5. \A i \in 1..Len(undo'[t]) : OL2(undo'[t][i])
    BY <1>c, <1>e, <2>1, <2>2, <2>3 DEF n
  <2>6. \A i \in 1..Len(undoing'[t]) : OL2(undoing'[t][i])
    <3>1. undoing'[t] = SubSeq(undo[t], mark + 1, n)
      BY <1>c, <2>1
    <3>2. \A i \in 1..(n - mark) : mark + i \in 1..n
      BY <2>2
    <3> QED BY <1>e, <2>4, <3>1, <3>2 DEF n
  <2>7. \A u \in Txn : u # t => undo'[u] = undo[u] /\ undoing'[u] = undoing[u]
    BY <1>c, <2>1
  <2> QED BY <1>e, <2>5, <2>6, <2>7
<1>4. ASSUME NEW t \in Txn, Taken(t)
      PROVE  Locked
  <2>1. undo' = [undo EXCEPT ![t] = <<>>] /\ undoing' = [undoing EXCEPT ![t] = undo[t]]
    BY <1>4 DEF Taken, Forget
  <2> HIDE DEF OL2
  <2> QED BY <1>c, <1>e, <2>1
<1>5. ASSUME NEW t \in Txn, FinishCommit(t)
      PROVE  Locked
  <2>1. undo' = [undo EXCEPT ![t] = <<>>] /\ undoing' = undoing
    BY <1>5 DEF FinishCommit, Forget
  <2> HIDE DEF OL2
  <2> QED BY <1>c, <1>e, <2>1
<1>6. ASSUME NEW t \in Txn, UndoStep(t)
      PROVE  Locked
  <2>1. /\ undoing' = [undoing EXCEPT ![t] = SubSeq(undoing[t], 1, Len(undoing[t]) - 1)]
        /\ UNCHANGED undo
    BY <1>6 DEF UndoStep
  <2>2. /\ Len(SubSeq(undoing[t], 1, Len(undoing[t]) - 1)) = Len(undoing[t]) - 1
        /\ \A i \in 1..(Len(undoing[t]) - 1) :
              SubSeq(undoing[t], 1, Len(undoing[t]) - 1)[i] = undoing[t][i]
    BY <1>6, LastUndoing DEF UndoStep, LockInv, TypeOK
  <2>3. Len(undoing[t]) \in Nat
    BY <1>c
  <2> HIDE DEF OL2
  <2> QED BY <1>c, <1>e, <2>1, <2>2, <2>3
<1>7. ASSUME NEW t \in Txn, Session(t)
      PROVE  Locked
  <2> HIDE DEF Locked
  <2>1. CASE \E r \in Row : Insert(t, r) \/ Update(t, r) \/ Delete(t, r)
    BY <1>2, <2>1
  <2>2. CASE \E name \in SaveName : RollbackTo(t, name)
    BY <1>3, <2>2
  <2>3. CASE Rollback(t) \/ CommitConflict(t) \/ CommitAppendFails(t)
    BY <1>4, <2>3 DEF Rollback, CommitConflict, CommitAppendFails
  <2>4. CASE CommitAtOnce(t)
    BY <1>5, <2>4 DEF CommitAtOnce
  <2>5. CASE UNCHANGED <<undo, undoing>>
    BY <1>1, <2>5
  <2> QED BY <1>7, <2>1, <2>2, <2>3, <2>4, <2>5
         DEF Session, Begin, BeginStatement, BeginFreshReads, EndFreshReads, Scan, IndexScan,
             WriteRefused, LockRow, LockRowRefused, LockTable, Savepoint,
             ReleaseSavepoint, CommitStage, stateVars
<1>8. ASSUME NEW t \in Txn, Engine(t)
      PROVE  Locked
  <2> HIDE DEF Locked
  <2>1. CASE UndoStep(t)
    BY <1>6, <2>1
  <2>2. CASE AbortEnd(t)
    BY <1>1, <2>2 DEF AbortEnd, stateVars
  <2>3. CASE CommitFinish(t)
    BY <1>5, <2>3 DEF CommitFinish
  <2> QED BY <1>8, <2>1, <2>2, <2>3 DEF Engine
<1>9. ASSUME NEW p \in Purger, PurgePass(p) \/ PurgeYield(p)
      PROVE  Locked
  <2> HIDE DEF Locked
  <2> QED BY <1>1, <1>9 DEF PurgePass, PurgeStart, PurgeTable, PurgeRow, PurgeTableEnd, PurgeEnd,
                            PurgeYield, stateVars
<1>10. CASE UNCHANGED vars
  BY <1>1, <1>10 DEF vars, stateVars
<1> QED BY <1>7, <1>8, <1>9, <1>10 DEF Next

\* The lock invariant holds when the engine opens: nothing is active.
LEMMA LockInit == Init => LockInv
<1> SUFFICES ASSUME Init PROVE LockInv
  OBVIOUS
<1>1. TypeOK /\ SavesInv
  BY TypeInit
<1>2. LockExclusion
  BY DEF Init, LockExclusion, Exclusive
<1>3. IdsBelow /\ LogLocked(undo) /\ LogLocked(undoing)
  BY DEF Init, IdsBelow, LogLocked
<1>4. StampsLocked
  <2> SUFFICES ASSUME NEW r \in Row
               PROVE  ChainLocked(r, chain[r], nextTxn, active, tableLock, rowLock)
    BY DEF StampsLocked
  <2>1. /\ nextTxn = 2 /\ active = {}
        /\ \/ chain[r] = <<>>
           \/ chain[r] = <<[xmin |-> 1, xmax |-> 0, tuple |-> InitTuple(r)]>>
    BY DEF Init, Loader, NoTxn
  <2> QED BY <2>1 DEF ChainLocked
<1> QED BY <1>1, <1>2, <1>3, <1>4 DEF LockInv

\* Every step keeps the lock invariant.
LEMMA LockInvStep ==
    ASSUME LockInv, [Next]_vars
    PROVE  LockInv'
<1>1. TypeOK' /\ SavesInv'
  BY TypeStep, SavesStep DEF LockInv
<1>2. LockExclusion' /\ IdsBelow'
  BY LockStep, IdStep
<1>3. StampsLocked'
  BY StampsStep
<1>4. LogLocked(undo)' /\ LogLocked(undoing)'
  BY LogStep
<1> QED BY <1>1, <1>2, <1>3, <1>4 DEF LockInv

\* The lock invariant holds in every reachable state.
THEOREM LocksBackStamps == Spec => []LockInv
<1>1. Init => LockInv
  BY LockInit
<1>2. LockInv /\ [Next]_vars => LockInv'
  BY LockInvStep
<1> QED BY <1>1, <1>2, PTL DEF Spec

\* lock_row_current's reasoning, for any number of rows and transactions: while
\* a row's lock is held nobody else has an unfinished update or delete on it.
THEOREM RowLockSettles == Spec => []LockedRowIsSettled
<1>1. LockInv => LockedRowIsSettled
  <2> SUFFICES ASSUME LockInv, NEW r \in Row, NEW t \in Txn, rowLock[r][t] # "none",
                      NEW i \in 1..Len(chain[r])
               PROVE  /\ chain[r][i].xmax \notin active \ {t}
                      /\ chain[r][i].xmin \in active \ {t} => Len(chain[r]) = 1
    BY DEF LockedRowIsSettled
  <2>1. /\ ChainLocked(r, chain[r], nextTxn, active, tableLock, rowLock)
        /\ Exclusive(rowLock[r]) /\ active \subseteq Txn /\ Len(chain[r]) \in Nat
    BY DEF LockInv, StampsLocked, LockExclusion, TypeOK, TxnTypeOK, RowTypeOK
  <2>2. \A u \in active \ {t} : rowLock[r][u] # "exclusive"
    BY <2>1 DEF Exclusive
  <2>3. chain[r][i].xmax \notin active \ {t}
    BY <2>1, <2>2 DEF ChainLocked
  <2>4. chain[r][i].xmin \in active \ {t} => ~(Len(chain[r]) > 1)
    BY <2>1, <2>2 DEF ChainLocked
  <2>5. ~(Len(chain[r]) > 1) => Len(chain[r]) = 1
    <3>1. \A n \in Nat : i \in 1..n /\ ~(n > 1) => n = 1
      OBVIOUS
    <3>2. Len(chain[r]) \in Nat
      BY <2>1
    <3>3. i \in 1..Len(chain[r])
      OBVIOUS
    <3> QED BY <3>1, <3>2, <3>3
  <2> QED BY <2>3, <2>4, <2>5
<1> QED BY <1>1, LocksBackStamps, PTL

\* LOCK TABLE ... ACCESS EXCLUSIVE, for any number of tables and transactions:
\* until its holder ends nobody else has an unfinished write in the table.
THEOREM TableLockQuiets == Spec => []LockedTableIsQuiet
<1>1. LockInv => LockedTableIsQuiet
  <2> SUFFICES ASSUME LockInv, NEW tab \in Table, NEW t \in Txn,
                      tableLock[tab][t] = "exclusive",
                      NEW r \in RowsOf(tab), NEW i \in 1..Len(chain[r]),
                      NEW u \in {chain[r][i].xmin, chain[r][i].xmax}, u \in active \ {t}
               PROVE  FALSE
    BY DEF LockedTableIsQuiet
  <2>1. r \in Row /\ TableOf[r] = tab
    BY DEF RowsOf
  <2>2. /\ ChainLocked(r, chain[r], nextTxn, active, tableLock, rowLock)
        /\ Exclusive(tableLock[tab]) /\ active \subseteq Txn
    BY <2>1 DEF LockInv, StampsLocked, LockExclusion, TypeOK, TxnTypeOK
  <2>3. tableLock[tab][u] # "none"
    BY <2>1, <2>2 DEF ChainLocked
  <2> QED BY <2>2, <2>3 DEF Exclusive
<1> QED BY <1>1, LocksBackStamps, PTL
=============================================================================
