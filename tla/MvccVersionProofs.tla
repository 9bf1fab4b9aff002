------------------------- MODULE MvccVersionProofs -------------------------
(***************************************************************************)
(* Theorems about the stored versions of MvccEngine, for every number of   *)
(* tables, rows, transactions, savepoints and purgers: a table purge skips *)
(* has nothing to purge, an aborted transaction leaves no version behind,  *)
(* and unfinished versions lie on top of the committed ones.               *)
(***************************************************************************)
EXTENDS MvccEngineProofs

-----------------------------------------------------------------------------
(* Sweeps: what purge_clean_gen stands for                                 *)

\* There is nothing to purge of a row: no older version, no delete mark.
RowClean(c) == c # <<>> => Len(c) = 1 /\ c[1].xmax = NoTxn

\* A table marked clean has nothing to purge, nor have the rows that a sweep
\* has passed while nobody wrote and nothing was left for later.
SweepInv ==
    /\ \A tab \in Table : clean[tab] => \A r \in RowsOf(tab) : RowClean(chain[r])
    /\ \A p \in Purger : purge[p].current /\ ~purge[p].left =>
          \A r \in RowsOf(purge[p].tab) : r < purge[p].cursor => RowClean(chain[r])

\* A purge pass leaves a clean row clean; a row it does not leave for later
\* comes out clean.
LEMMA PurgedClean ==
    ASSUME NEW p, NEW c \in Seq(Version), c # <<>>
    PROVE  /\ RowClean(c) => RowClean(PurgedChain(p, c))
           /\ ~LeftForLater(p, c) => RowClean(PurgedChain(p, c))
<1>1. Len(c) \in Nat /\ Len(c) > 0 /\ c[1] \in Version
  OBVIOUS
<1>2. PurgedChain(p, c) \in {<<>>, <<c[1]>>, c}
  BY DEF PurgedChain
<1>3. RowClean(<<>>) /\ (c[1].xmax = NoTxn => RowClean(<<c[1]>>))
  BY <1>1 DEF RowClean
<1>4. RowClean(c) => RowClean(PurgedChain(p, c))
  BY <1>2, <1>3 DEF RowClean
<1>5. ASSUME ~LeftForLater(p, c) PROVE RowClean(PurgedChain(p, c))
  <2>1. CASE c[1].xmax # NoTxn
    <3>1. PurgedChain(p, c) = <<>>
      BY <1>5, <2>1 DEF LeftForLater, PurgedChain
    <3> QED BY <1>3, <3>1
  <2>2. CASE c[1].xmax = NoTxn
    <3>1. Len(c) > 1 => Settled(p, c[1].xmin)
      BY <1>5, <2>2 DEF LeftForLater
    <3>2. PurgedChain(p, c) = IF Settled(p, c[1].xmin) THEN <<c[1]>> ELSE c
      BY <2>2 DEF PurgedChain
    <3>3. Len(c) = 1 => RowClean(c)
      BY <2>2 DEF RowClean
    <3> QED BY <1>1, <1>3, <2>2, <3>1, <3>2, <3>3
  <2> QED BY <2>1, <2>2
<1> QED BY <1>4, <1>5

\* A row write (RowWrite::drop) disowns the table's clean mark and every sweep
\* of the table, whatever the write did to the row.
LEMMA WriteDisowns ==
    ASSUME TypeOK, SweepInv, NEW r \in Row, RowWritten(TableOf[r]),
           \A q \in Row : q # r => chain'[q] = chain[q]
    PROVE  SweepInv'
<1> USE MvccAssumption
<1>1. /\ clean' = [clean EXCEPT ![TableOf[r]] = FALSE]
      /\ \A p \in Purger :
            /\ purge[p].tab = TableOf[r] => purge'[p].current = FALSE
            /\ purge[p].tab # TableOf[r] => purge'[p] = purge[p]
            /\ purge'[p].tab = purge[p].tab
  <2>1. \A s \in PurgeState : [s EXCEPT !.current = FALSE].current = FALSE
                              /\ [s EXCEPT !.current = FALSE].tab = s.tab
    BY DEF PurgeState
  <2> QED BY <2>1 DEF RowWritten, TypeOK, PurgeTypeOK
<1>2. ASSUME NEW tab \in Table, clean'[tab], NEW q \in RowsOf(tab)
      PROVE  RowClean(chain'[q])
  <2>1. tab # TableOf[r] /\ clean[tab]
    BY <1>1, <1>2 DEF TypeOK, PurgeTypeOK
  <2>2. q \in Row /\ q # r
    BY <2>1 DEF RowsOf
  <2> QED BY <2>1, <2>2 DEF SweepInv
<1>3. ASSUME NEW p \in Purger, purge'[p].current, ~purge'[p].left,
             NEW q \in RowsOf(purge'[p].tab), q < purge'[p].cursor
      PROVE  RowClean(chain'[q])
  <2>1. purge[p].tab # TableOf[r] /\ purge'[p] = purge[p]
    BY <1>1, <1>3
  <2>2. q \in Row /\ q # r
    BY <1>3, <2>1 DEF RowsOf
  <2> QED BY <1>3, <2>1, <2>2 DEF SweepInv
<1> QED BY <1>2, <1>3 DEF SweepInv

\* Every step keeps the promise of clean marks and sweeps.
LEMMA SweepStep ==
    ASSUME TypeOK, SweepInv, [Next]_vars
    PROVE  SweepInv'
<1> USE MvccAssumption
<1>0. clean \in [Table -> BOOLEAN] /\ purge \in [Purger -> PurgeState]
      /\ chain \in [Row -> Seq(Version)]
  BY DEF TypeOK, PurgeTypeOK, RowTypeOK
<1>1. CASE UNCHANGED <<chain, clean, purge>>
  BY <1>1 DEF SweepInv
<1>2. ASSUME NEW t \in Txn, Session(t)
      PROVE  SweepInv'
  <2>1. CASE \E r \in Row : Insert(t, r) \/ Update(t, r) \/ Delete(t, r)
    BY <1>0, <2>1, WriteDisowns DEF Insert, Update, Delete
  <2>2. CASE \E r \in Row : WriteRefused(t, r)
    <3>1. PICK r \in Row : WriteRefused(t, r)
      BY <2>2
    <3>2. UNCHANGED chain
      BY <3>1 DEF WriteRefused
    <3>3. UNCHANGED <<clean, purge>> \/ RowWritten(TableOf[r])
      BY <3>1 DEF WriteRefused
    <3> QED BY <1>1, <3>2, <3>3, WriteDisowns
  <2> QED BY <1>1, <1>2, <2>1, <2>2
         DEF Session, Begin, BeginStatement, BeginFreshReads, EndFreshReads, Scan, IndexScan,
             LockRow, LockRowRefused, LockTable, Savepoint, RollbackTo, ReleaseSavepoint,
             Rollback, CommitStage, CommitAtOnce, CommitConflict, CommitAppendFails, Taken,
             FinishCommit, rowVars
<1>3. ASSUME NEW t \in Txn, Engine(t)
      PROVE  SweepInv'
  <2>1. CASE UndoStep(t)
    <3>1. PICK r \in Row : /\ RowWritten(TableOf[r])
                           /\ \A q \in Row : q # r => chain'[q] = chain[q]
      BY <1>0, <2>1, LastUndoing DEF UndoStep, TypeOK, UndoOp
    <3> QED BY <3>1, WriteDisowns
  <2> QED BY <1>1, <1>3, <2>1 DEF Engine, AbortEnd, CommitFinish, FinishCommit, rowVars
<1>4. ASSUME NEW p \in Purger, purge' = [purge EXCEPT ![p] = purge'[p]], UNCHANGED <<chain, clean>>,
             ~purge'[p].current \/ purge'[p].cursor = 1 \/ purge'[p] = [purge[p] EXCEPT !.todo = purge'[p].todo]
      PROVE  SweepInv'
  <2>1. ASSUME purge'[p].current, ~purge'[p].left,
               NEW q \in RowsOf(purge'[p].tab), q < purge'[p].cursor
        PROVE  RowClean(chain'[q])
    <3>1. CASE purge'[p].cursor = 1
      BY <2>1, <3>1 DEF RowsOf, Row
    <3>2. CASE purge'[p] = [purge[p] EXCEPT !.todo = purge'[p].todo]
      <4>1. /\ purge'[p].current = purge[p].current /\ purge'[p].left = purge[p].left
            /\ purge'[p].tab = purge[p].tab /\ purge'[p].cursor = purge[p].cursor
        BY <1>0, <3>2 DEF PurgeState
      <4> QED BY <1>4, <2>1, <4>1 DEF SweepInv
    <3> QED BY <1>4, <2>1, <3>1, <3>2
  <2>2. \A o \in Purger : o # p => purge'[o] = purge[o]
    BY <1>0, <1>4
  <2> QED BY <1>4, <2>1, <2>2 DEF SweepInv
<1>5. ASSUME NEW p \in Purger, PurgeRow(p)
      PROVE  SweepInv'
  <2>1. PICK r \in PurgeAhead(p) :
           /\ \A q \in PurgeAhead(p) : r <= q
           /\ chain' = [chain EXCEPT ![r] = PurgedChain(p, chain[r])]
           /\ purge' = [purge EXCEPT ![p].cursor = r + 1,
                                     ![p].left = purge[p].left \/ LeftForLater(p, chain[r])]
           /\ UNCHANGED clean
    BY <1>0, <1>5 DEF PurgeRow
  <2>2. r \in Row /\ r \in RowsOf(purge[p].tab) /\ chain[r] # <<>> /\ chain[r] \in Seq(Version)
    BY <1>0 DEF PurgeAhead, RowsOf
  <2>3. /\ purge'[p].cursor = r + 1 /\ purge'[p].tab = purge[p].tab
        /\ purge'[p].left = (purge[p].left \/ LeftForLater(p, chain[r]))
        /\ purge'[p].current = purge[p].current
        /\ \A o \in Purger : o # p => purge'[o] = purge[o]
    BY <1>0, <2>1 DEF PurgeState
  <2>4. \A q \in Row : RowClean(chain[q]) => RowClean(chain'[q])
    BY <1>0, <2>1, <2>2, PurgedClean
  <2>5. ASSUME purge'[p].current, ~purge'[p].left,
               NEW q \in RowsOf(purge'[p].tab), q < purge'[p].cursor
        PROVE  RowClean(chain'[q])
    <3>0. purge[p].current /\ ~purge[p].left /\ ~LeftForLater(p, chain[r])
      BY <2>3, <2>5, Zenon
    <3>1. /\ q \in RowsOf(purge[p].tab) /\ q \in Row
          /\ q \in Nat /\ r \in Nat /\ purge[p].cursor \in Nat
      BY <1>0, <2>2, <2>3 DEF RowsOf, Row, PurgeState
    <3>2. CASE q < purge[p].cursor
      BY <2>4, <3>0, <3>1, <3>2 DEF SweepInv
    <3>3. CASE q = r
      BY <1>0, <2>1, <2>2, <3>0, <3>3, PurgedClean
    <3>4. CASE q >= purge[p].cursor /\ q # r
      <4>1. q < r
        BY <2>3, <2>5, <3>1, <3>4
      <4>2. chain[q] = <<>>
        BY <2>1, <3>1, <3>4, <4>1 DEF PurgeAhead
      <4> QED BY <2>4, <3>1, <4>2 DEF RowClean
    <3> QED BY <3>1, <3>2, <3>3, <3>4
  <2>6. ASSUME NEW o \in Purger, o # p, purge'[o].current, ~purge'[o].left,
               NEW q \in RowsOf(purge'[o].tab), q < purge'[o].cursor
        PROVE  RowClean(chain'[q])
    BY <2>3, <2>4, <2>6 DEF SweepInv, RowsOf
  <2>7. \A tab \in Table : clean'[tab] => \A q \in RowsOf(tab) : RowClean(chain'[q])
    BY <2>1, <2>4 DEF SweepInv, RowsOf
  <2> QED BY <2>5, <2>6, <2>7 DEF SweepInv
<1>6. ASSUME NEW p \in Purger, PurgeTableEnd(p)
      PROVE  SweepInv'
  <2>1. /\ purge[p].tab \in Table /\ PurgeAhead(p) = {} /\ UNCHANGED chain
        /\ clean' = IF purge[p].left THEN clean
                    ELSE [clean EXCEPT ![purge[p].tab] = purge[p].current]
        /\ purge'[p].current = FALSE
        /\ \A o \in Purger : o # p => purge'[o] = purge[o]
    BY <1>0, <1>6 DEF PurgeTableEnd, PurgeState
  <2>2. ASSUME NEW tab \in Table, clean'[tab], NEW q \in RowsOf(tab)
        PROVE  RowClean(chain[q])
    <3>1. CASE clean[tab]
      BY <3>1 DEF SweepInv
    <3>2. CASE ~clean[tab]
      <4>1. tab = purge[p].tab /\ purge[p].current /\ ~purge[p].left
        BY <1>0, <2>1, <2>2, <3>2
      <4>2. q \in Nat /\ purge[p].cursor \in Nat
        BY <1>0 DEF RowsOf, Row, PurgeState
      <4>3. CASE q < purge[p].cursor
        BY <4>1, <4>3 DEF SweepInv
      <4>4. CASE q >= purge[p].cursor
        BY <2>1, <4>1, <4>4 DEF PurgeAhead, RowClean
      <4> QED BY <4>2, <4>3, <4>4
    <3> QED BY <3>1, <3>2
  <2> QED BY <2>1, <2>2 DEF SweepInv
<1>7. ASSUME NEW p \in Purger, PurgePass(p) \/ PurgeYield(p)
      PROVE  SweepInv'
  <2>1. CASE PurgeStart(p) \/ PurgeEnd(p) \/ PurgeYield(p)
    <3>1. purge' = [purge EXCEPT ![p] = purge'[p]] /\ UNCHANGED <<chain, clean>>
      BY <1>0, <2>1 DEF PurgeStart, PurgeEnd, PurgeYield
    <3>2. ~purge'[p].current
      <4>1. CASE PurgeStart(p)
        BY <1>0, <4>1 DEF PurgeStart, NoPurge
      <4>2. CASE PurgeEnd(p) \/ PurgeYield(p)
        <5>1. purge'[p] = NoPurge
          BY <1>0, <4>2 DEF PurgeEnd, PurgeYield
        <5> QED BY <5>1 DEF NoPurge
      <4> QED BY <2>1, <4>1, <4>2
    <3> QED BY <1>4, <3>1, <3>2
  <2>2. ASSUME NEW tab \in Table, PurgeTable(p, tab)
        PROVE  SweepInv'
    <3>1. purge' = [purge EXCEPT ![p] = purge'[p]] /\ UNCHANGED <<chain, clean>>
      BY <1>0, <2>2 DEF PurgeTable
    <3>2. CASE clean[tab]
      <4>1. purge'[p] = [purge[p] EXCEPT !.todo = @ \ {tab}]
        BY <1>0, <2>2, <3>2 DEF PurgeTable
      <4>2. purge'[p].todo = purge[p].todo \ {tab}
        BY <1>0, <4>1 DEF PurgeState
      <4>3. purge'[p] = [purge[p] EXCEPT !.todo = purge'[p].todo]
        BY <4>1, <4>2
      <4> QED BY <1>4, <3>1, <4>3
    <3>3. CASE ~clean[tab]
      <4>1. purge'[p].cursor = 1
        BY <1>0, <2>2, <3>3 DEF PurgeTable, PurgeState
      <4> QED BY <1>4, <3>1, <4>1
    <3> QED BY <3>2, <3>3
  <2> QED BY <1>5, <1>6, <1>7, <2>1, <2>2 DEF PurgePass
<1>8. CASE UNCHANGED vars
  BY <1>1, <1>8 DEF vars, rowVars
<1> QED BY <1>2, <1>3, <1>7, <1>8 DEF Next

\* A table purge skips (purge_clean_gen = purge_gen) has nothing to purge, for
\* any number of tables, rows, writers and concurrent passes.
THEOREM SkipsOnlyCleanTables == Spec => []SkippedTableIsClean
<1>1. Init => SweepInv
  BY DEF Init, SweepInv, NoPurge
<1>2. TypeOK /\ SweepInv /\ [Next]_vars => SweepInv'
  BY SweepStep
<1>3. SweepInv => SkippedTableIsClean
  BY DEF SweepInv, SkippedTableIsClean, RowClean
<1> QED BY <1>1, <1>2, <1>3, TypeCorrect, PTL DEF Spec

-----------------------------------------------------------------------------
(* The life of a transaction, and its undo log                             *)

\* What undo_ops still has to apply comes after what it must leave alone: the
\* two make up the log of the writes a transaction has in the store.
Log(t) == undo[t] \o undoing[t]

\* A transaction is in the txns map while it is active, staged while it is in
\* the map; its log is empty before it begins and after it ends, and an aborting
\* one has handed its whole log over to be undone.
LifeInv ==
    /\ staged \subseteq live /\ live \subseteq active
    /\ \A t \in Txn : t \notin live => undo[t] = <<>>
    /\ \A t \in Txn : t \notin active \/ t \in staged => undoing[t] = <<>>
    /\ \A t \in aborted : t \notin active /\ t < nextTxn

\* What is below a purge pass's horizon and outside its active set has ended.
HorizonInv ==
    \A p \in Purger : purge[p].on =>
        /\ purge[p].horizon <= nextTxn
        /\ \A x \in active : x < purge[p].horizon => x \in purge[p].active

\* A row that has versions has had its id minted.
MintedInv == \A r \in Row : chain[r] # <<>> => r \in minted

\* The facts about ids, logs and passes that the version invariant rests on.
BaseInv == LockInv /\ LifeInv /\ HorizonInv /\ MintedInv

\* Every step keeps the life of transactions in order.
LEMMA LifeStep ==
    ASSUME LockInv, LifeInv, [Next]_vars
    PROVE  LifeInv'
<1>0. /\ undo \in [Txn -> Seq(UndoOp)] /\ undoing \in [Txn -> Seq(UndoOp)]
      /\ active \subseteq Txn /\ live \subseteq Txn /\ staged \subseteq Txn /\ aborted \subseteq Txn
      /\ nextTxn \in Nat /\ active \cup live \subseteq Nat
      /\ \A t \in active : t < nextTxn
      /\ aborted \subseteq Nat
  BY DEF LockInv, TypeOK, TxnTypeOK, LogTypeOK, IdsBelow, Txn
<1>1. CASE UNCHANGED <<nextTxn, active, live, staged, undo, undoing, aborted>>
  BY <1>1 DEF LifeInv
<1>2. ASSUME NEW t \in Txn, NEW lvl \in Level, Begin(t, lvl)
      PROVE  LifeInv'
  BY <1>0, <1>2 DEF Begin, LifeInv
<1>3. ASSUME NEW t \in Txn, NEW r \in Row, Insert(t, r) \/ Update(t, r) \/ Delete(t, r)
      PROVE  LifeInv'
  <2>1. PICK e : undo' = [undo EXCEPT ![t] = Append(@, e)]
    BY <1>3 DEF Insert, Update, Delete, PushUndo
  <2>2. t \in live /\ UNCHANGED <<nextTxn, active, live, staged, undoing, aborted>>
    BY <1>3 DEF Insert, Update, Delete, CanWrite, Idle, txnVars
  <2> QED BY <1>0, <2>1, <2>2 DEF LifeInv
<1>4. ASSUME NEW t \in Txn, NEW name \in SaveName, RollbackTo(t, name)
      PROVE  LifeInv'
  <2>1. /\ t \in live \ staged
        /\ undo' = [undo EXCEPT ![t] = undo'[t]] /\ undoing' = [undoing EXCEPT ![t] = undoing'[t]]
        /\ UNCHANGED <<nextTxn, active, live, staged, aborted>>
    BY <1>0, <1>4 DEF RollbackTo, Idle, txnVars
  <2> QED BY <1>0, <2>1 DEF LifeInv
<1>5. ASSUME NEW t \in Txn, Idle(t), Taken(t)
      PROVE  LifeInv'
  BY <1>0, <1>5 DEF Taken, Forget, Idle, LifeInv
<1>6. ASSUME NEW t \in Txn, Idle(t), CommitStage(t)
      PROVE  LifeInv'
  BY <1>0, <1>6 DEF CommitStage, Idle, stateVars, LifeInv
<1>7. ASSUME NEW t \in Txn, undoing[t] = <<>>, FinishCommit(t), staged' = staged \ {t}
      PROVE  LifeInv'
  BY <1>0, <1>7 DEF FinishCommit, Forget, LifeInv
<1>8. ASSUME NEW t \in Txn, Session(t)
      PROVE  LifeInv'
  <2>1. CASE CommitAtOnce(t)
    BY <1>7, <2>1 DEF CommitAtOnce, Idle
  <2>2. CASE Rollback(t) \/ CommitConflict(t) \/ CommitAppendFails(t)
    BY <1>5, <2>2 DEF Rollback, CommitConflict, CommitAppendFails
  <2>3. CASE CommitStage(t)
    BY <1>6, <2>3 DEF CommitStage
  <2> QED BY <1>1, <1>2, <1>3, <1>4, <1>8, <2>1, <2>2, <2>3
         DEF Session, BeginStatement, BeginFreshReads, EndFreshReads, Scan, IndexScan,
             WriteRefused, LockRow, LockRowRefused, LockTable, Savepoint, ReleaseSavepoint,
             txnVars, stateVars, histVars
<1>9. ASSUME NEW t \in Txn, Engine(t)
      PROVE  LifeInv'
  <2>1. CASE UndoStep(t)
    <3>1. /\ undoing[t] # <<>> /\ undoing' = [undoing EXCEPT ![t] = undoing'[t]]
          /\ UNCHANGED <<nextTxn, active, live, staged, aborted, undo>>
      BY <1>0, <2>1 DEF UndoStep, txnVars, histVars
    <3> QED BY <1>0, <3>1 DEF LifeInv
  <2>2. CASE AbortEnd(t)
    BY <1>0, <2>2 DEF AbortEnd, LifeInv, stateVars
  <2>3. CASE CommitFinish(t)
    BY <1>7, <2>3 DEF CommitFinish, LifeInv
  <2> QED BY <1>9, <2>1, <2>2, <2>3 DEF Engine
<1>10. ASSUME NEW p \in Purger, PurgePass(p) \/ PurgeYield(p)
      PROVE  LifeInv'
  BY <1>1, <1>10 DEF PurgePass, PurgeStart, PurgeTable, PurgeRow, PurgeTableEnd, PurgeEnd,
                     PurgeYield, txnVars, stateVars, histVars
<1>11. CASE UNCHANGED vars
  BY <1>1, <1>11 DEF vars, txnVars, stateVars, histVars
<1> QED BY <1>8, <1>9, <1>10, <1>11 DEF Next

\* A purge pass keeps to the snapshot it started from.
LEMMA PassStep ==
    ASSUME TypeOK, [Next]_vars, NEW p \in Purger, purge'[p].on
    PROVE  \/ PurgeStart(p)
           \/ /\ purge[p].on /\ purge'[p].views = purge[p].views
              /\ purge'[p].active = purge[p].active /\ purge'[p].horizon = purge[p].horizon
<1>0. purge \in [Purger -> PurgeState] /\ purge[p] \in PurgeState
  BY DEF TypeOK, PurgeTypeOK
<1> DEFINE Kept2 == /\ purge'[p].on = purge[p].on /\ purge'[p].views = purge[p].views
                    /\ purge'[p].active = purge[p].active /\ purge'[p].horizon = purge[p].horizon
<1>1. CASE Kept2
  BY <1>1, Zenon
<1>2. ASSUME NEW tab, RowWritten(tab) \/ UNCHANGED purge
      PROVE  Kept2
  BY <1>0, <1>2 DEF RowWritten, PurgeState
<1>3. ASSUME NEW o \in Purger, PurgePass(o) \/ PurgeYield(o), o # p
      PROVE  Kept2
  BY <1>0, <1>3 DEF PurgePass, PurgeStart, PurgeTable, PurgeRow, PurgeTableEnd, PurgeEnd,
                    PurgeYield
<1>4. CASE PurgeEnd(p) \/ PurgeYield(p)
  <2>1. purge'[p] = NoPurge
    BY <1>0, <1>4 DEF PurgeEnd, PurgeYield
  <2> QED BY <2>1 DEF NoPurge
<1>5. ASSUME NEW tab \in Table, PurgeTable(p, tab) PROVE Kept2
  <2>1. \/ purge'[p] = [purge[p] EXCEPT !.todo = @ \ {tab}]
        \/ purge'[p] = [purge[p] EXCEPT !.todo = @ \ {tab}, !.tab = tab, !.cursor = 1,
                                       !.left = FALSE, !.current = TRUE]
    BY <1>0, <1>5 DEF PurgeTable
  <2> QED BY <1>0, <2>1 DEF PurgeState
<1>6. CASE PurgeRow(p)
  <2>1. PICK n, b : purge' = [purge EXCEPT ![p].cursor = n, ![p].left = b]
    BY <1>6 DEF PurgeRow
  <2>2. purge'[p] = [purge[p] EXCEPT !.cursor = n, !.left = b]
    BY <1>0, <2>1
  <2>3. Kept2
    BY <1>0, <2>2 DEF PurgeState
  <2> QED BY <1>1, <2>3
<1>7. CASE PurgeTableEnd(p)
  <2>1. Kept2
    BY <1>0, <1>7 DEF PurgeTableEnd, PurgeState
  <2> QED BY <1>1, <2>1
<1>8. ASSUME NEW t \in Txn, Session(t) \/ Engine(t)
      PROVE  \E tab : RowWritten(tab) \/ UNCHANGED purge
  BY <1>8 DEF Session, Begin, BeginStatement, BeginFreshReads, EndFreshReads, Scan, IndexScan,
         Insert, Update, Delete, WriteRefused, LockRow, LockRowRefused, LockTable, Savepoint,
         RollbackTo, ReleaseSavepoint, Rollback, CommitStage, CommitAtOnce, CommitConflict,
         CommitAppendFails, Taken, FinishCommit, Engine, UndoStep, AbortEnd, CommitFinish, rowVars
<1>9. CASE UNCHANGED vars
  BY <1>1, <1>2, <1>9 DEF vars, rowVars
<1>10. CASE \E t \in Txn : Session(t) \/ Engine(t)
  BY <1>1, <1>2, <1>8, <1>10
<1>11. ASSUME NEW o \in Purger, PurgePass(o) \/ PurgeYield(o)
       PROVE  Kept2 \/ PurgeStart(p) \/ ~purge'[p].on
  BY <1>3, <1>4, <1>5, <1>6, <1>7, <1>11 DEF PurgePass
<1> QED BY <1>1, <1>9, <1>10, <1>11 DEF Next

\* What a purge pass noted when it started stays true while it runs.
LEMMA HorizonStep ==
    ASSUME LockInv, HorizonInv, [Next]_vars
    PROVE  HorizonInv'
<1>0. TypeOK /\ purge \in [Purger -> PurgeState]
  BY DEF LockInv, TypeOK, PurgeTypeOK
<1>1. /\ nextTxn \in Nat /\ nextTxn' \in Nat /\ nextTxn <= nextTxn'
      /\ \A x \in active' : x < nextTxn => x \in active
      /\ active' \subseteq Nat
  BY IdStep, TypeStep DEF LockInv, TypeOK, TxnTypeOK, Txn
<1>2. \A p \in Purger : purge[p].horizon \in Nat
  BY <1>0 DEF PurgeState
<1> SUFFICES ASSUME NEW p \in Purger, purge'[p].on
             PROVE  /\ purge'[p].horizon <= nextTxn'
                    /\ \A x \in active' : x < purge'[p].horizon => x \in purge'[p].active
  BY DEF HorizonInv
<1>3. CASE PurgeStart(p)
  <2>1. purge'[p].horizon = nextTxn /\ purge'[p].active = active
    BY <1>0, <1>3 DEF PurgeStart, NoPurge
  <2>2. nextTxn' = nextTxn /\ active' = active
    BY <1>3 DEF PurgeStart, txnVars
  <2> QED BY <1>1, <2>1, <2>2
<1>4. CASE /\ purge[p].on
           /\ purge'[p].active = purge[p].active /\ purge'[p].horizon = purge[p].horizon
  <2>1. /\ purge[p].horizon <= nextTxn
        /\ \A x \in active : x < purge[p].horizon => x \in purge[p].active
    BY <1>4 DEF HorizonInv
  <2> QED BY <1>1, <1>2, <1>4, <2>1
<1> QED BY <1>0, <1>3, <1>4, PassStep

-----------------------------------------------------------------------------
(* What a step does to logs and chains                                     *)

NewVersion(t, k) == [xmin |-> t, xmax |-> NoTxn, tuple |-> <<t, k>>]

SameLogs(T) == \A u \in T : Log(u)' = Log(u)

\* Nothing that the stored versions or the logs say changes.
Quiet == UNCHANGED <<active, chain, minted, aborted>> /\ SameLogs(Txn)

\* A transaction begins.
Opened(t) ==
    /\ t = nextTxn /\ active' = active \cup {t}
    /\ UNCHANGED <<chain, minted, aborted>> /\ SameLogs(Txn)

\* A row write: what admission found, and what it did to the row's chain c.
WriteOver(t, v) ==
    /\ v.xmax = NoTxn
    /\ v.xmin \in active => v.xmin = t
    /\ Sees(pinned[t], v.xmin)
Pushed(t, k, op, c, d) ==
    \/ /\ op.op = "Inserted" /\ c = <<>>
       /\ d = <<NewVersion(t, k)>>
    \/ /\ op.op = "Updated" /\ c # <<>> /\ op.old = c[1] /\ WriteOver(t, c[1])
       /\ d = <<NewVersion(t, k)>> \o c
    \/ /\ op.op = "Deleted" /\ c # <<>> /\ op.old = c[1] /\ WriteOver(t, c[1])
       /\ d = [c EXCEPT ![1] = [c[1] EXCEPT !.xmax = t]]
Wrote(t, r, op) ==
    /\ t \in live \ staged /\ undoing[t] = <<>> /\ op.row = r
    /\ Log(t)' = Append(Log(t), op) /\ SameLogs(Txn \ {t})
    /\ chain' = [chain EXCEPT ![r] = chain'[r]]
    /\ Pushed(t, Len(Log(t)) + 1, op, chain[r], chain'[r])
    /\ op.op = "Deleted" => DeletesFresh(t, r)
    /\ minted' = minted \cup {r}
    /\ UNCHANGED <<active, aborted>>

\* The last operation of a log is undone.
LastOp(t) == Log(t)[Len(Log(t))]
Popped(t) ==
    /\ t \in active \ staged /\ Log(t) # <<>>
    /\ Log(t)' = SubSeq(Log(t), 1, Len(Log(t)) - 1) /\ SameLogs(Txn \ {t})
    /\ chain' = [chain EXCEPT ![LastOp(t).row] = Undone(LastOp(t), chain[LastOp(t).row])]
    /\ UNCHANGED <<active, minted, aborted>>

\* A purge pass handles a row.
Purged(p, r) ==
    /\ purge[p].on /\ chain[r] # <<>>
    /\ chain' = [chain EXCEPT ![r] = PurgedChain(p, chain[r])]
    /\ UNCHANGED <<active, minted, aborted>> /\ SameLogs(Txn)

\* A transaction leaves the active set, committed or with nothing left to undo.
Left(t) ==
    /\ t \in active /\ active' = active \ {t}
    /\ Log(t)' = <<>> /\ SameLogs(Txn \ {t})
    /\ UNCHANGED <<chain, minted>>
    /\ aborted' = aborted \/ (Log(t) = <<>> /\ aborted' = aborted \cup {t})

StepKind ==
    \/ Quiet
    \/ \E t \in Txn : Opened(t) \/ Popped(t) \/ Left(t)
    \/ \E t \in Txn, r \in Row, op \in UndoOp : Wrote(t, r, op)
    \/ \E p \in Purger, r \in Row : Purged(p, r)

\* Writing appends to the log.
LEMMA LogPush ==
    ASSUME TypeOK, NEW t \in Txn, undoing[t] = <<>>, NEW e \in UndoOp,
           undo' = [undo EXCEPT ![t] = Append(@, e)], UNCHANGED undoing
    PROVE  /\ Log(t) = undo[t] /\ Log(t)' = Append(Log(t), e)
           /\ SameLogs(Txn \ {t})
<1>0. undo \in [Txn -> Seq(UndoOp)] /\ undoing \in [Txn -> Seq(UndoOp)]
  BY DEF TypeOK, LogTypeOK
<1>1. Log(t) = undo[t]
  BY <1>0, ConcatEmptySeq DEF Log
<1>2. undo'[t] = Append(undo[t], e) /\ undoing'[t] = <<>> /\ undo'[t] \in Seq(UndoOp)
  BY <1>0
<1>3. Log(t)' = undo'[t]
  BY <1>2, ConcatEmptySeq DEF Log
<1>4. SameLogs(Txn \ {t})
  BY <1>0 DEF SameLogs, Log
<1> QED BY <1>1, <1>2, <1>3, <1>4

\* Setting work aside to be undone leaves the log as it is.
LEMMA LogSplit ==
    ASSUME TypeOK, SavesInv, LifeInv, NEW t \in Txn,
           \/ \E name \in SaveName : RollbackTo(t, name)
           \/ Idle(t) /\ Taken(t)
    PROVE  SameLogs(Txn)
<1>0. undo \in [Txn -> Seq(UndoOp)] /\ undoing \in [Txn -> Seq(UndoOp)]
  BY DEF TypeOK, LogTypeOK
<1>1. undoing[t] = <<>>
  BY DEF RollbackTo, Idle
<1>2. Log(t) = undo[t]
  BY <1>0, <1>1, ConcatEmptySeq DEF Log
<1>3. SameLogs(Txn \ {t})
  BY <1>0 DEF SameLogs, Log, RollbackTo, Taken, Forget
<1>4. Log(t)' = undo[t]
  <2>1. ASSUME NEW name \in SaveName, RollbackTo(t, name)
        PROVE  Log(t)' = undo[t]
    <3> DEFINE mark == saves[t][SaveAt(t, name)].mark
    <3>1. SaveAt(t, name) \in 1..Len(saves[t])
      BY <2>1, SaveAtType DEF RollbackTo
    <3>2. mark \in Nat /\ mark <= Len(undo[t]) /\ Len(undo[t]) \in Nat
      BY <1>0, <3>1, SaveRecType DEF SavesInv, TypeOK
    <3>3. /\ undo'[t] = SubSeq(undo[t], 1, mark)
          /\ undoing'[t] = SubSeq(undo[t], mark + 1, Len(undo[t]))
      BY <1>0, <2>1 DEF RollbackTo
    <3> HIDE DEF mark
    <3>4. SubSeq(undo[t], 1, mark) \o SubSeq(undo[t], mark + 1, Len(undo[t]))
          = SubSeq(undo[t], 1, Len(undo[t]))
      <4>1. /\ 1 \in 1..(Len(undo[t]) + 1) /\ mark \in (1 - 1)..Len(undo[t])
            /\ Len(undo[t]) \in mark..Len(undo[t])
        BY <3>2
      <4> QED BY <1>0, <4>1, ConcatAdjacentSubSeq
    <3>5. SubSeq(undo[t], 1, Len(undo[t])) = undo[t]
      BY <1>0, SubSeqFull
    <3> QED BY <3>3, <3>4, <3>5 DEF Log
  <2>2. ASSUME Taken(t)
        PROVE  Log(t)' = undo[t]
    <3>1. undo'[t] = <<>> /\ undoing'[t] = undo[t]
      BY <1>0, <2>2 DEF Taken, Forget
    <3> QED BY <1>0, <3>1, ConcatEmptySeq DEF Log
  <2> QED BY <2>1, <2>2
<1> QED BY <1>2, <1>3, <1>4 DEF SameLogs

\* undo_ops takes the last operation off the log.
LEMMA LogPop ==
    ASSUME TypeOK, LifeInv, NEW t \in Txn, UndoStep(t)
    PROVE  Popped(t)
<1>0. /\ undo[t] \in Seq(UndoOp) /\ undoing[t] \in Seq(UndoOp) /\ undoing[t] # <<>>
      /\ undo \in [Txn -> Seq(UndoOp)] /\ undoing \in [Txn -> Seq(UndoOp)]
  BY DEF TypeOK, LogTypeOK, UndoStep
<1> DEFINE m == Len(undo[t])
           n == Len(undoing[t])
           s == SubSeq(undoing[t], 1, n - 1)
<1>1. m \in Nat /\ n \in Nat /\ n > 0
  BY <1>0
<1>2. /\ undo'[t] = undo[t] /\ undoing'[t] = s
      /\ \A u \in Txn : u # t => undo'[u] = undo[u] /\ undoing'[u] = undoing[u]
  BY <1>0 DEF UndoStep
<1>3. /\ Log(t) \in Seq(UndoOp) /\ Len(Log(t)) = m + n
      /\ \A i \in 1..m : Log(t)[i] = undo[t][i]
      /\ \A i \in (m + 1)..(m + n) : Log(t)[i] = undoing[t][i - m]
  BY <1>0, ConcatProperties DEF Log
<1>4. LastOp(t) = undoing[t][n]
  <2> HIDE DEF m, n
  <2>1. m + n \in (m + 1)..(m + n) /\ (m + n) - m = n
    BY <1>1
  <2> QED BY <1>3, <2>1 DEF LastOp
<1>5. /\ s \in Seq(UndoOp) /\ Len(s) = n - 1
      /\ \A i \in 1..(n - 1) : s[i] = undoing[t][i]
  BY <1>0, LastUndoing DEF TypeOK
<1> HIDE DEF s, m, n
<1>6. Log(t)' = SubSeq(Log(t), 1, Len(Log(t)) - 1)
  <2>1. /\ undo[t] \o s \in Seq(UndoOp) /\ Len(undo[t] \o s) = m + n - 1
        /\ \A i \in 1..m : (undo[t] \o s)[i] = undo[t][i]
        /\ \A i \in (m + 1)..(m + n - 1) : (undo[t] \o s)[i] = s[i - m]
    BY <1>0, <1>1, <1>5, ConcatProperties DEF m
  <2>2. /\ SubSeq(Log(t), 1, m + n - 1) \in Seq(UndoOp)
        /\ Len(SubSeq(Log(t), 1, m + n - 1)) = m + n - 1
        /\ \A i \in 1..(m + n - 1) : SubSeq(Log(t), 1, m + n - 1)[i] = Log(t)[i]
    BY <1>1, <1>3, SubSeqProperties
  <2>3. \A i \in 1..(m + n - 1) : (undo[t] \o s)[i] = Log(t)[i]
    <3> TAKE i \in 1..(m + n - 1)
    <3>1. CASE i \in 1..m
      BY <1>3, <2>1, <3>1
    <3>2. CASE i \in (m + 1)..(m + n - 1)
      <4>1. i - m \in 1..(n - 1) /\ i \in (m + 1)..(m + n)
        BY <1>1, <3>2
      <4> QED BY <1>3, <1>5, <2>1, <3>2, <4>1
    <3>3. i \in 1..m \/ i \in (m + 1)..(m + n - 1)
      BY <1>1
    <3> QED BY <3>1, <3>2, <3>3
  <2> DEFINE a == undo[t] \o s
             b == SubSeq(Log(t), 1, m + n - 1)
  <2>4. a = b
    <3> HIDE DEF a, b
    <3>1. /\ a \in Seq(UndoOp) /\ b \in Seq(UndoOp) /\ Len(a) = Len(b)
          /\ \A i \in 1..Len(a) : a[i] = b[i]
      BY <2>1, <2>2, <2>3 DEF a, b
    <3> QED BY <3>1, SeqEqual
  <2>5. Log(t)' = a
    BY <1>2 DEF Log
  <2>6. Len(Log(t)) - 1 = m + n - 1
    BY <1>1, <1>3
  <2> QED BY <2>4, <2>5, <2>6
<1>7. Log(t) # <<>>
  BY <1>1, <1>3
<1>8. t \in active \ staged /\ UNCHANGED <<active, minted, aborted>>
  BY DEF UndoStep, LifeInv, txnVars, histVars
<1>9. chain' = [chain EXCEPT ![LastOp(t).row] = Undone(LastOp(t), chain[LastOp(t).row])]
  BY <1>4 DEF UndoStep, n
<1>10. SameLogs(Txn \ {t})
  BY <1>2 DEF SameLogs, Log
<1> QED BY <1>6, <1>7, <1>8, <1>9, <1>10 DEF Popped

\* Every step is one of these kinds.
LEMMA StepKinds ==
    ASSUME BaseInv, [Next]_vars
    PROVE  StepKind
<1> USE MvccAssumption
<1>0. /\ undo \in [Txn -> Seq(UndoOp)] /\ undoing \in [Txn -> Seq(UndoOp)]
      /\ chain \in [Row -> Seq(Version)] /\ TypeOK /\ SavesInv /\ LifeInv
  BY DEF BaseInv, LockInv, TypeOK, LogTypeOK, RowTypeOK
<1>1. CASE UNCHANGED <<active, chain, minted, aborted, undo, undoing>>
  <2>1. Quiet
    BY <1>1 DEF Quiet, SameLogs, Log
  <2> QED BY <2>1 DEF StepKind
<1>2. ASSUME NEW t \in Txn, NEW lvl \in Level, Begin(t, lvl)
      PROVE  StepKind
  <2>1. Opened(t)
    BY <1>2 DEF Begin, Opened, SameLogs, Log, rowVars
  <2> QED BY <2>1 DEF StepKind
<1>3. ASSUME NEW t \in Txn, NEW r \in Row,
             Insert(t, r) \/ Update(t, r) \/ (DeletesFresh(t, r) /\ Delete(t, r))
      PROVE  StepKind
  <2> DEFINE Op(kind, old) == [op |-> kind, row |-> r, old |-> old]
  <2>1. t \in live \ staged /\ undoing[t] = <<>> /\ UNCHANGED <<active, aborted, undoing>>
    BY <1>3 DEF Insert, Update, Delete, CanWrite, Idle, txnVars
  <2>2. chain' = [chain EXCEPT ![r] = chain'[r]]
    BY <1>0, <1>3 DEF Insert, Update, Delete
  <2>3. Log(t) = undo[t]
    BY <1>0, <2>1, ConcatEmptySeq DEF Log
  <2>4. NewVersion(t, Len(Log(t)) + 1) = [xmin |-> t, xmax |-> NoTxn, tuple |-> NewTuple(t)]
    BY <2>3 DEF NewVersion, NewTuple
  <2>5. CASE Insert(t, r)
    <3>1. Op("Inserted", NoVersion) \in UndoOp
      BY DEF UndoOp
    <3>2. undo' = [undo EXCEPT ![t] = Append(@, Op("Inserted", NoVersion))]
      BY <2>5 DEF Insert, PushUndo
    <3>3. Log(t)' = Append(Log(t), Op("Inserted", NoVersion)) /\ SameLogs(Txn \ {t})
      BY <1>0, <2>1, <3>1, <3>2, LogPush
    <3>4. chain[r] = <<>> /\ minted' = minted \cup {r}
      BY <2>5 DEF Insert, BaseInv, MintedInv
    <3>5. chain'[r] = <<NewVersion(t, Len(Log(t)) + 1)>>
      BY <1>0, <2>4, <2>5 DEF Insert
    <3>6. Wrote(t, r, Op("Inserted", NoVersion))
      BY <2>1, <2>2, <3>3, <3>4, <3>5 DEF Wrote, Pushed
    <3> QED BY <3>1, <3>6 DEF StepKind
  <2>6. CASE Update(t, r) \/ (DeletesFresh(t, r) /\ Delete(t, r))
    <3> DEFINE kind == IF Update(t, r) THEN "Updated" ELSE "Deleted"
               e == Op(kind, chain[r][1])
    <3>0. chain[r] # <<>> /\ Admitted(t, chain[r][1]) /\ UNCHANGED minted
      BY <2>6 DEF Update, Delete
    <3>1. chain[r] \in Seq(Version) /\ chain[r][1] \in Version
      BY <1>0, <3>0
    <3>2. e \in UndoOp
      BY <3>1 DEF UndoOp
    <3>3. undo' = [undo EXCEPT ![t] = Append(@, e)]
      BY <2>6 DEF Update, Delete, PushUndo
    <3> HIDE DEF e
    <3>4. Log(t)' = Append(Log(t), e) /\ SameLogs(Txn \ {t})
      BY <1>0, <2>1, <3>2, <3>3, LogPush
    <3>5. minted' = minted \cup {r}
      BY <3>0 DEF BaseInv, MintedInv
    <3>6. WriteOver(t, chain[r][1])
      BY <3>0 DEF Admitted, WriteOver
    <3>7. CASE Update(t, r)
      <4>1. chain'[r] = <<NewVersion(t, Len(Log(t)) + 1)>> \o chain[r]
        BY <1>0, <2>4, <3>7 DEF Update
      <4>2. e.op = "Updated" /\ e.row = r /\ e.old = chain[r][1]
        BY <3>7 DEF e
      <4>3. Wrote(t, r, e)
        BY <2>1, <2>2, <3>0, <3>4, <3>5, <3>6, <4>1, <4>2 DEF Wrote, Pushed
      <4> QED BY <3>2, <4>3 DEF StepKind
    <3>8. CASE ~Update(t, r)
      <4>1. chain'[r] = [chain[r] EXCEPT ![1] = [chain[r][1] EXCEPT !.xmax = t]]
        BY <1>0, <2>6, <3>8 DEF Delete
      <4>2. e.op = "Deleted" /\ e.row = r /\ e.old = chain[r][1]
        BY <3>8 DEF e
      <4>3. Wrote(t, r, e)
        BY <2>1, <2>2, <2>6, <3>0, <3>4, <3>5, <3>6, <3>8, <4>1, <4>2 DEF Wrote, Pushed
      <4> QED BY <3>2, <4>3 DEF StepKind
    <3> QED BY <3>7, <3>8
  <2> QED BY <1>3, <2>5, <2>6
<1>4. ASSUME NEW t \in Txn, (\E name \in SaveName : RollbackTo(t, name)) \/ (Idle(t) /\ Taken(t))
      PROVE  StepKind
  <2>1. SameLogs(Txn)
    BY <1>0, <1>4, LogSplit
  <2>2. UNCHANGED <<active, chain, minted, aborted>>
    BY <1>4 DEF RollbackTo, Taken, txnVars, rowVars
  <2> QED BY <2>1, <2>2 DEF StepKind, Quiet
<1>5. ASSUME NEW t \in Txn, t \in live, undoing[t] = <<>>, FinishCommit(t)
      PROVE  StepKind
  <2>1. /\ undo' = [undo EXCEPT ![t] = <<>>] /\ UNCHANGED undoing
        /\ active' = active \ {t} /\ UNCHANGED <<chain, minted, aborted>>
    BY <1>5 DEF FinishCommit, Forget, rowVars
  <2>2. Log(t)' = <<>>
    <3>1. undo'[t] = <<>> /\ undoing'[t] = <<>>
      BY <1>0, <1>5, <2>1
    <3>2. <<>> \o <<>> = <<>>
      BY ConcatEmptySeq
    <3> QED BY <3>1, <3>2 DEF Log
  <2>3. SameLogs(Txn \ {t})
    BY <1>0, <2>1 DEF SameLogs, Log
  <2>4. Left(t)
    BY <1>0, <1>5, <2>1, <2>2, <2>3 DEF Left, LifeInv
  <2> QED BY <2>4 DEF StepKind
<1>6. ASSUME NEW t \in Txn, Session(t)
      PROVE  StepKind
  <2>1. CASE CommitAtOnce(t)
    BY <1>5, <2>1 DEF CommitAtOnce, Idle
  <2>2. CASE Rollback(t) \/ CommitConflict(t) \/ CommitAppendFails(t)
    BY <1>4, <2>2 DEF Rollback, CommitConflict, CommitAppendFails
  <2> QED BY <1>1, <1>2, <1>3, <1>4, <1>6, <2>1, <2>2
         DEF Session, BeginStatement, BeginFreshReads, EndFreshReads, Scan, IndexScan,
             WriteRefused, LockRow, LockRowRefused, LockTable, Savepoint, ReleaseSavepoint,
             CommitStage, txnVars, stateVars, histVars, rowVars
<1>7. ASSUME NEW t \in Txn, Engine(t)
      PROVE  StepKind
  <2>1. CASE UndoStep(t)
    BY <1>0, <2>1, LogPop DEF StepKind
  <2>2. CASE AbortEnd(t)
    <3>1. /\ t \in active /\ active' = active \ {t} /\ undo[t] = <<>> /\ undoing[t] = <<>>
          /\ aborted' = aborted \cup {t} /\ UNCHANGED <<undo, undoing, chain, minted>>
      BY <1>0, <2>2 DEF AbortEnd, LifeInv, stateVars, rowVars
    <3>2. Log(t) = <<>>
      <4>1. <<>> \o <<>> = <<>>
        BY ConcatEmptySeq
      <4> QED BY <3>1, <4>1 DEF Log
    <3>3. SameLogs(Txn)
      BY <3>1 DEF SameLogs, Log
    <3>4. Left(t)
      BY <3>1, <3>2, <3>3 DEF Left, SameLogs
    <3> QED BY <3>4 DEF StepKind
  <2>3. CASE CommitFinish(t)
    BY <1>0, <1>5, <2>3 DEF CommitFinish, LifeInv
  <2> QED BY <1>7, <2>1, <2>2, <2>3 DEF Engine
<1>8. ASSUME NEW p \in Purger, PurgePass(p) \/ PurgeYield(p)
      PROVE  StepKind
  <2>1. CASE PurgeRow(p)
    <3>1. PICK r \in PurgeAhead(p) : chain' = [chain EXCEPT ![r] = PurgedChain(p, chain[r])]
      BY <2>1 DEF PurgeRow
    <3>2. r \in Row /\ chain[r] # <<>>
      BY DEF PurgeAhead, RowsOf
    <3>3. UNCHANGED <<active, minted, aborted, undo, undoing>> /\ purge[p].on
      BY <2>1 DEF PurgeRow, txnVars, stateVars, histVars
    <3>4. Purged(p, r)
      BY <3>1, <3>2, <3>3 DEF Purged, SameLogs, Log
    <3> QED BY <3>2, <3>4 DEF StepKind
  <2> QED BY <1>1, <1>8, <2>1
         DEF PurgePass, PurgeStart, PurgeTable, PurgeTableEnd, PurgeEnd, PurgeYield,
             txnVars, stateVars, histVars
<1>9. CASE UNCHANGED vars
  BY <1>1, <1>9 DEF vars, txnVars, stateVars, rowVars, histVars
<1> QED BY <1>6, <1>7, <1>8, <1>9 DEF Next

-----------------------------------------------------------------------------
(* Logs and chains tell the same story                                     *)

\* Operation k of log L is the last one on row r.
LastOn(L, r, k) ==
    /\ k \in 1..Len(L) /\ L[k].row = r
    /\ \A m \in (k + 1)..Len(L) : L[m].row # r

\* In the log L of t, an operation on a row t has written before it parked or
\* stamped the version of the operation before it; an insert comes first on its
\* row, a delete last.
Stacked(t, L) ==
    \A k \in 1..Len(L) : \A m \in 1..(k - 1) :
        (L[m].row = L[k].row /\ \A j \in (m + 1)..(k - 1) : L[j].row # L[k].row) =>
            /\ L[m].op # "Deleted" /\ L[k].op # "Inserted"
            /\ L[k].old.xmin = t /\ L[k].old.tuple = <<t, m>>

\* The newest version of a row in L is what the last operation on it made of it.
TopStamp(t, L, r, c) ==
    \A k \in 1..Len(L) : LastOn(L, r, k) =>
        /\ c # <<>>
        /\ IF L[k].op = "Deleted"
           THEN /\ c[1].xmax = t
                /\ c[1].xmin = L[k].old.xmin /\ c[1].tuple = L[k].old.tuple
           ELSE c[1] = NewVersion(t, k)

\* Every version t made comes from an operation of its log, and lies over the
\* one that the operation parked; later operations made newer versions.  A
\* delete mark of t is that of its last operation on the row.
Linked(t, L, r, c) ==
    \A i \in 1..Len(c) :
        /\ c[i].xmin = t =>
              /\ c[i].tuple[2] \in 1..Len(L) /\ L[c[i].tuple[2]].row = r
              /\ \/ L[c[i].tuple[2]].op = "Inserted" /\ i = Len(c)
                 \/ /\ L[c[i].tuple[2]].op = "Updated" /\ i < Len(c)
                    /\ c[i + 1] = L[c[i].tuple[2]].old
              /\ \A j \in (i + 1)..Len(c) : c[j].xmin = t => c[j].tuple[2] < c[i].tuple[2]
        /\ c[i].xmax = t => \E k \in 1..Len(L) : LastOn(L, r, k) /\ L[k].op = "Deleted"

\* Unfinished versions are on top and of one transaction; only a newest version
\* is delete-stamped, and if it is unfinished by its own maker.
Ordered(act, c) ==
    \A i \in 1..Len(c) :
        /\ c[i].xmin \in act => \A j \in 1..i : c[j].xmin = c[i].xmin
        /\ c[i].xmax # NoTxn => i = 1 /\ (c[i].xmin \in act => c[i].xmax = c[i].xmin)

\* Two logs agree on a row.
SameOn(L, M, r) ==
    /\ \A k \in 1..Len(L) : L[k].row = r => k \in 1..Len(M) /\ M[k] = L[k]
    /\ \A k \in 1..Len(M) : M[k].row = r => k \in 1..Len(L) /\ M[k] = L[k]

\* What a log says of a row's chain is about its operations on the row alone.
LEMMA SameOnKeeps ==
    ASSUME NEW t, NEW L \in Seq(UndoOp), NEW M \in Seq(UndoOp), NEW r, SameOn(L, M, r), NEW c
    PROVE  /\ TopStamp(t, L, r, c) => TopStamp(t, M, r, c)
           /\ Linked(t, L, r, c) => Linked(t, M, r, c)
<1>0. Len(L) \in Nat /\ Len(M) \in Nat
  OBVIOUS
<1>1. ASSUME NEW k, LastOn(L, r, k) PROVE LastOn(M, r, k) /\ M[k] = L[k]
  <2>1. k \in 1..Len(L) /\ L[k].row = r /\ k \in 1..Len(M) /\ M[k] = L[k]
    BY <1>1 DEF LastOn, SameOn
  <2>2. ASSUME NEW m \in (k + 1)..Len(M), M[m].row = r PROVE FALSE
    <3>1. m \in 1..Len(M)
      BY <1>0, <2>1
    <3>2. m \in 1..Len(L) /\ L[m].row = r
      BY <2>2, <3>1 DEF SameOn
    <3> QED BY <1>0, <1>1, <2>1, <3>2 DEF LastOn
  <2> QED BY <2>1, <2>2 DEF LastOn
<1>2. ASSUME NEW k, LastOn(M, r, k) PROVE LastOn(L, r, k) /\ M[k] = L[k]
  <2>1. k \in 1..Len(M) /\ M[k].row = r /\ k \in 1..Len(L) /\ M[k] = L[k]
    BY <1>2 DEF LastOn, SameOn
  <2>2. ASSUME NEW m \in (k + 1)..Len(L), L[m].row = r PROVE FALSE
    <3>1. m \in 1..Len(L)
      BY <1>0, <2>1
    <3>2. m \in 1..Len(M) /\ M[m].row = r
      BY <2>2, <3>1 DEF SameOn
    <3> QED BY <1>0, <1>2, <2>1, <3>2 DEF LastOn
  <2> QED BY <2>1, <2>2 DEF LastOn
<1>3. TopStamp(t, L, r, c) => TopStamp(t, M, r, c)
  <2> SUFFICES ASSUME TopStamp(t, L, r, c), NEW k \in 1..Len(M), LastOn(M, r, k)
               PROVE  /\ c # <<>>
                      /\ IF M[k].op = "Deleted"
                         THEN /\ c[1].xmax = t
                              /\ c[1].xmin = M[k].old.xmin /\ c[1].tuple = M[k].old.tuple
                         ELSE c[1] = NewVersion(t, k)
    BY DEF TopStamp
  <2>1. LastOn(L, r, k) /\ M[k] = L[k] /\ k \in 1..Len(L)
    BY <1>2 DEF LastOn
  <2> QED BY <2>1 DEF TopStamp
<1>4. Linked(t, L, r, c) => Linked(t, M, r, c)
  <2> SUFFICES ASSUME Linked(t, L, r, c), NEW i \in 1..Len(c)
               PROVE  /\ c[i].xmin = t =>
                            /\ c[i].tuple[2] \in 1..Len(M) /\ M[c[i].tuple[2]].row = r
                            /\ \/ M[c[i].tuple[2]].op = "Inserted" /\ i = Len(c)
                               \/ /\ M[c[i].tuple[2]].op = "Updated" /\ i < Len(c)
                                  /\ c[i + 1] = M[c[i].tuple[2]].old
                            /\ \A j \in (i + 1)..Len(c) : c[j].xmin = t => c[j].tuple[2] < c[i].tuple[2]
                      /\ c[i].xmax = t => \E k \in 1..Len(M) : LastOn(M, r, k) /\ M[k].op = "Deleted"
    BY DEF Linked
  <2>1. ASSUME c[i].xmax = t PROVE \E k \in 1..Len(M) : LastOn(M, r, k) /\ M[k].op = "Deleted"
    <3>1. PICK k \in 1..Len(L) : LastOn(L, r, k) /\ L[k].op = "Deleted"
      BY <2>1 DEF Linked
    <3>2. LastOn(M, r, k) /\ M[k] = L[k] /\ k \in 1..Len(M)
      BY <1>1, <3>1 DEF LastOn
    <3> QED BY <3>1, <3>2
  <2>2. ASSUME c[i].xmin = t
        PROVE  c[i].tuple[2] \in 1..Len(M) /\ M[c[i].tuple[2]] = L[c[i].tuple[2]]
    BY <2>2 DEF Linked, SameOn
  <2> QED BY <2>1, <2>2 DEF Linked
<1> QED BY <1>3, <1>4

\* Appending to and shortening a log, as far as it matters here.
LEMMA PushFacts ==
    ASSUME NEW L \in Seq(UndoOp), NEW op \in UndoOp
    PROVE  /\ Append(L, op) \in Seq(UndoOp) /\ Len(L) \in Nat
           /\ Len(Append(L, op)) = Len(L) + 1
           /\ \A i \in 1..Len(L) : Append(L, op)[i] = L[i]
           /\ Append(L, op)[Len(L) + 1] = op
           /\ \A r : r # op.row => SameOn(L, Append(L, op), r)
           /\ \A k : LastOn(Append(L, op), op.row, k) <=> k = Len(L) + 1
<1> DEFINE M == Append(L, op)
<1>1. /\ M \in Seq(UndoOp) /\ Len(L) \in Nat /\ Len(M) = Len(L) + 1
      /\ \A i \in 1..Len(L) : M[i] = L[i]
      /\ M[Len(L) + 1] = op
  OBVIOUS
<1> HIDE DEF M
<1>2. ASSUME NEW r, r # op.row PROVE SameOn(L, M, r)
  BY <1>1, <1>2 DEF SameOn
<1>3. ASSUME NEW k PROVE LastOn(M, op.row, k) <=> k = Len(L) + 1
  <2>1. k = Len(L) + 1 => LastOn(M, op.row, k)
    BY <1>1 DEF LastOn
  <2>2. ASSUME LastOn(M, op.row, k), k # Len(L) + 1 PROVE FALSE
    <3>1. k \in 1..Len(L)
      BY <1>1, <2>2 DEF LastOn
    <3>2. Len(L) + 1 \in (k + 1)..Len(M)
      BY <1>1, <3>1
    <3> QED BY <1>1, <2>2, <3>2 DEF LastOn
  <2> QED BY <2>1, <2>2
<1> QED BY <1>1, <1>2, <1>3 DEF M

LEMMA PopFacts ==
    ASSUME NEW L \in Seq(UndoOp), L # <<>>
    PROVE  /\ SubSeq(L, 1, Len(L) - 1) \in Seq(UndoOp) /\ Len(L) \in Nat \ {0}
           /\ Len(SubSeq(L, 1, Len(L) - 1)) = Len(L) - 1
           /\ \A i \in 1..(Len(L) - 1) : SubSeq(L, 1, Len(L) - 1)[i] = L[i]
           /\ \A r : r # L[Len(L)].row => SameOn(L, SubSeq(L, 1, Len(L) - 1), r)
<1> DEFINE n == Len(L)
           M == SubSeq(L, 1, n - 1)
<1>1. n \in Nat \ {0} /\ L \in Seq(UndoOp) /\ \A i \in 1..(n - 1) : L[i] \in UndoOp
  OBVIOUS
<1>2. M \in Seq(UndoOp) /\ Len(M) = n - 1 /\ \A i \in 1..(n - 1) : M[i] = L[i]
  <2> HIDE DEF n
  <2> QED BY <1>1, SubSeqProperties
<1> HIDE DEF M
<1>3. ASSUME NEW r, r # L[n].row PROVE SameOn(L, M, r)
  BY <1>1, <1>2, <1>3 DEF SameOn
<1> QED BY <1>1, <1>2, <1>3 DEF M

\* A log stays stacked when a write over its own last version, or on a row new
\* to it, is appended, and when it is shortened.
LEMMA PushStacked ==
    ASSUME NEW t \in Txn, NEW L \in Seq(UndoOp), Stacked(t, L), NEW op \in UndoOp,
           \A k \in 1..Len(L) : LastOn(L, op.row, k) =>
               /\ L[k].op # "Deleted" /\ op.op # "Inserted"
               /\ op.old.xmin = t /\ op.old.tuple = <<t, k>>
    PROVE  Stacked(t, Append(L, op))
<1> DEFINE M == Append(L, op)
           n == Len(L)
<1>1. /\ M \in Seq(UndoOp) /\ n \in Nat /\ Len(M) = n + 1
      /\ \A i \in 1..n : M[i] = L[i]
      /\ M[n + 1] = op
  BY PushFacts
<1> HIDE DEF M, n
<1> SUFFICES ASSUME NEW k \in 1..Len(M), NEW m \in 1..(k - 1),
                    M[m].row = M[k].row, \A j \in (m + 1)..(k - 1) : M[j].row # M[k].row
             PROVE  /\ M[m].op # "Deleted" /\ M[k].op # "Inserted"
                    /\ M[k].old.xmin = t /\ M[k].old.tuple = <<t, m>>
  BY DEF Stacked, M
<1>2. m \in 1..n /\ M[m] = L[m]
  BY <1>1
<1>3. CASE k \in 1..n
  <2>0. \A j \in (m + 1)..(k - 1) : j \in 1..n
    BY <1>1, <1>2, <1>3
  <2>1. M[k] = L[k] /\ \A j \in (m + 1)..(k - 1) : M[j] = L[j]
    BY <1>1, <1>3, <2>0
  <2> QED BY <1>2, <1>3, <2>1 DEF Stacked, n
<1>4. CASE k = n + 1
  <2>1. \A j \in (m + 1)..n : L[j].row # op.row
    BY <1>1, <1>2, <1>4
  <2>2. LastOn(L, op.row, m)
    BY <1>1, <1>2, <1>4, <2>1 DEF LastOn, n
  <2> QED BY <1>1, <1>2, <1>4, <2>2 DEF n
<1> QED BY <1>1, <1>3, <1>4

LEMMA PopStacked ==
    ASSUME NEW t \in Txn, NEW L \in Seq(UndoOp), L # <<>>, Stacked(t, L)
    PROVE  Stacked(t, SubSeq(L, 1, Len(L) - 1))
<1> DEFINE n == Len(L)
           M == SubSeq(L, 1, n - 1)
<1>1. /\ n \in Nat \ {0} /\ Len(M) = n - 1 /\ \A i \in 1..(n - 1) : M[i] = L[i]
  BY PopFacts
<1> HIDE DEF M, n
<1> SUFFICES ASSUME NEW k \in 1..Len(M), NEW m \in 1..(k - 1),
                    M[m].row = M[k].row, \A j \in (m + 1)..(k - 1) : M[j].row # M[k].row
             PROVE  /\ M[m].op # "Deleted" /\ M[k].op # "Inserted"
                    /\ M[k].old.xmin = t /\ M[k].old.tuple = <<t, m>>
  BY DEF Stacked, M, n
<1>2. /\ k \in 1..n /\ m \in 1..(k - 1) /\ M[k] = L[k] /\ M[m] = L[m]
      /\ \A j \in (m + 1)..(k - 1) : M[j] = L[j]
  BY <1>1
<1> QED BY <1>2 DEF Stacked, n

-----------------------------------------------------------------------------
(* A row write keeps logs and chains in step                               *)

\* Nobody but the writer has an unfinished write on a row that admission lets
\* through.
LEMMA NobodyElse ==
    ASSUME NEW t \in Txn, NEW c \in Seq(Version), c = <<>> \/ WriteOver(t, c[1]),
           NEW u \in Txn, u # t, u \in active, Ordered(active, c), NEW M \in Seq(UndoOp), NEW r,
           TopStamp(u, M, r, c)
    PROVE  /\ \A k : ~LastOn(M, r, k)
           /\ \A i \in 1..Len(c) : c[i].xmin # u /\ c[i].xmax # u
<1>0. u # NoTxn
  BY DEF Txn, NoTxn
<1>1. CASE c = <<>>
  BY <1>1 DEF TopStamp, LastOn
<1>2. CASE c # <<>> /\ WriteOver(t, c[1])
  <2>1. c[1].xmax # u /\ c[1].xmin # u
    BY <1>0, <1>2 DEF WriteOver
  <2>2. \A k : ~LastOn(M, r, k)
    <3> SUFFICES ASSUME NEW k, LastOn(M, r, k) PROVE FALSE
      OBVIOUS
    <3>1. k \in 1..Len(M)
      BY DEF LastOn
    <3>2. c[1].xmax = u \/ c[1] = NewVersion(u, k)
      BY <3>1 DEF TopStamp
    <3> QED BY <2>1, <3>2 DEF NewVersion
  <2>3. ASSUME NEW i \in 1..Len(c), c[i].xmin = u PROVE FALSE
    <3>1. 1 \in 1..i
      OBVIOUS
    <3> QED BY <2>1, <2>3, <3>1 DEF Ordered
  <2>4. ASSUME NEW i \in 1..Len(c), c[i].xmax = u PROVE FALSE
    BY <1>0, <2>1, <2>4 DEF Ordered
  <2> QED BY <2>2, <2>3, <2>4
<1> QED BY <1>1, <1>2

\* What the log of the writer may say of the row: its last operation there, if
\* any, made the version now on top.
LEMMA WriterOnTop ==
    ASSUME NEW t \in Txn, NEW L \in Seq(UndoOp), NEW c \in Seq(Version),
           NEW op \in UndoOp, TopStamp(t, L, op.row, c), NEW n, NEW d, Pushed(t, n, op, c, d)
    PROVE  \A k \in 1..Len(L) : LastOn(L, op.row, k) =>
               /\ L[k].op # "Deleted" /\ op.op # "Inserted"
               /\ op.old.xmin = t /\ op.old.tuple = <<t, k>>
<1> SUFFICES ASSUME NEW k \in 1..Len(L), LastOn(L, op.row, k)
             PROVE  /\ L[k].op # "Deleted" /\ op.op # "Inserted"
                    /\ op.old.xmin = t /\ op.old.tuple = <<t, k>>
  OBVIOUS
<1>1. c # <<>>
  BY DEF TopStamp
<1>2. op.op # "Inserted" /\ op.old = c[1] /\ c[1].xmax = NoTxn
  BY <1>1 DEF Pushed, WriteOver
<1>3. L[k].op # "Deleted"
  BY <1>2 DEF TopStamp, Txn, NoTxn
<1>4. c[1] = NewVersion(t, k)
  BY <1>3 DEF TopStamp
<1> QED BY <1>2, <1>3, <1>4 DEF NewVersion

\* insert.
LEMMA InsertKeepsRow ==
    ASSUME NEW t \in Txn, t \in active, NEW L \in Seq(UndoOp), NEW r \in Row,
           NEW op \in UndoOp, op.row = r, op.op = "Inserted"
    PROVE  /\ TopStamp(t, Append(L, op), r, <<NewVersion(t, Len(L) + 1)>>)
           /\ Linked(t, Append(L, op), r, <<NewVersion(t, Len(L) + 1)>>)
           /\ Ordered(active, <<NewVersion(t, Len(L) + 1)>>)
<1> DEFINE M == Append(L, op)
           n == Len(L)
           v == NewVersion(t, n + 1)
           d == <<v>>
<1>1. /\ n \in Nat /\ Len(M) = n + 1 /\ M[n + 1] = op
      /\ \A k : LastOn(M, r, k) <=> k = n + 1
  BY PushFacts
<1>2. Len(d) = 1 /\ d[1] = v /\ d # <<>>
  OBVIOUS
<1>3. v.xmin = t /\ v.xmax = NoTxn /\ v.tuple[2] = n + 1 /\ t # NoTxn
  BY DEF NewVersion, Txn, NoTxn
<1> HIDE DEF M, n, v, d
<1>4. TopStamp(t, M, r, d)
  BY <1>1, <1>2 DEF TopStamp, v
<1>5. Linked(t, M, r, d)
  BY <1>1, <1>2, <1>3 DEF Linked
<1>6. Ordered(active, d)
  BY <1>2, <1>3 DEF Ordered
<1> QED BY <1>4, <1>5, <1>6 DEF M, n, v, d

\* update: the new version over the chain.
LEMMA UpdateKeepsRow ==
    ASSUME NEW t \in Txn, t \in active, NEW L \in Seq(UndoOp), NEW r \in Row,
           NEW c \in Seq(Version), c # <<>>, NEW op \in UndoOp, op.row = r,
           op.op = "Updated", op.old = c[1], WriteOver(t, c[1]),
           Linked(t, L, r, c), Ordered(active, c)
    PROVE  /\ TopStamp(t, Append(L, op), r, <<NewVersion(t, Len(L) + 1)>> \o c)
           /\ Linked(t, Append(L, op), r, <<NewVersion(t, Len(L) + 1)>> \o c)
           /\ Ordered(active, <<NewVersion(t, Len(L) + 1)>> \o c)
<1> DEFINE M == Append(L, op)
           n == Len(L)
           v == NewVersion(t, n + 1)
           d == <<v>> \o c
<1>1. /\ n \in Nat /\ Len(M) = n + 1 /\ M[n + 1] = op /\ \A i \in 1..n : M[i] = L[i]
      /\ \A k : LastOn(M, r, k) <=> k = n + 1
  BY PushFacts
<1>2. /\ Len(c) \in Nat /\ Len(c) > 0 /\ Len(d) = Len(c) + 1
      /\ d[1] = v /\ \A i \in 2..(Len(c) + 1) : d[i] = c[i - 1]
      /\ d # <<>>
  OBVIOUS
<1>3. v.xmin = t /\ v.xmax = NoTxn /\ v.tuple[2] = n + 1 /\ t # NoTxn
  BY DEF NewVersion, Txn, NoTxn
<1> HIDE DEF M, n, v, d
<1>4. TopStamp(t, M, r, d)
  BY <1>1, <1>2 DEF TopStamp, v
<1>5. ASSUME NEW i \in 1..Len(d), d[i].xmin = t
      PROVE  /\ d[i].tuple[2] \in 1..Len(M) /\ M[d[i].tuple[2]].row = r
             /\ \/ M[d[i].tuple[2]].op = "Inserted" /\ i = Len(d)
                \/ /\ M[d[i].tuple[2]].op = "Updated" /\ i < Len(d)
                   /\ d[i + 1] = M[d[i].tuple[2]].old
             /\ \A j \in (i + 1)..Len(d) : d[j].xmin = t => d[j].tuple[2] < d[i].tuple[2]
  <2>1. CASE i = 1
    <3>1. d[1 + 1] = c[1]
      BY <1>2
    <3>2. ASSUME NEW j \in 2..Len(d), d[j].xmin = t PROVE d[j].tuple[2] < n + 1
      <4>1. j - 1 \in 1..Len(c) /\ d[j] = c[j - 1]
        BY <1>2
      <4>2. c[j - 1].tuple[2] \in 1..n
        BY <3>2, <4>1 DEF Linked, n
      <4> QED BY <1>1, <4>1, <4>2
    <3> QED BY <1>1, <1>2, <1>3, <2>1, <3>1, <3>2
  <2>2. CASE i # 1
    <3>1. i - 1 \in 1..Len(c) /\ d[i] = c[i - 1] /\ c[i - 1].xmin = t /\ i \in Nat
      BY <1>2, <1>5, <2>2
    <3> DEFINE k == c[i - 1].tuple[2]
    <3>2. /\ k \in 1..n /\ L[k].row = r
          /\ \/ L[k].op = "Inserted" /\ i - 1 = Len(c)
             \/ L[k].op = "Updated" /\ i - 1 < Len(c) /\ c[(i - 1) + 1] = L[k].old
          /\ \A j \in ((i - 1) + 1)..Len(c) : c[j].xmin = t => c[j].tuple[2] < k
      BY <3>1 DEF Linked, n
    <3> HIDE DEF k
    <3>3. M[k] = L[k] /\ k \in 1..Len(M)
      BY <1>1, <3>2
    <3>4. L[k].op = "Updated" => d[i + 1] = c[i]
      BY <1>2, <3>1, <3>2
    <3>5. \A j \in (i + 1)..Len(d) : j - 1 \in ((i - 1) + 1)..Len(c) /\ d[j] = c[j - 1]
      BY <1>2, <3>1
    <3>6. \A j \in (i + 1)..Len(d) : d[j].xmin = t => d[j].tuple[2] < k
      BY <3>2, <3>5
    <3>7. d[i].tuple[2] = k
      BY <3>1 DEF k
    <3>8. (i - 1) + 1 = i
      BY <3>1
    <3> QED BY <1>2, <3>1, <3>2, <3>3, <3>4, <3>6, <3>7, <3>8
  <2> QED BY <2>1, <2>2
<1>6. \A i \in 1..Len(d) : d[i].xmax = NoTxn
  <2> TAKE i \in 1..Len(d)
  <2>1. CASE i = 1
    BY <1>2, <1>3, <2>1
  <2>2. CASE i # 1
    <3>1. i - 1 \in 1..Len(c) /\ d[i] = c[i - 1]
      BY <1>2, <2>2
    <3>2. c[i - 1].xmax # NoTxn => i - 1 = 1
      BY <3>1 DEF Ordered
    <3> QED BY <3>1, <3>2 DEF WriteOver
  <2> QED BY <2>1, <2>2
<1>7. Linked(t, M, r, d)
  BY <1>3, <1>5, <1>6 DEF Linked
<1>8. ASSUME NEW i \in 1..Len(d), d[i].xmin \in active, NEW j \in 1..i
      PROVE  d[j].xmin = d[i].xmin
  <2>1. CASE i = 1
    BY <2>1
  <2>2. CASE i # 1
    <3>1. i - 1 \in 1..Len(c) /\ d[i] = c[i - 1] /\ 1 \in 1..(i - 1)
      BY <1>2, <2>2
    <3>2. c[1].xmin = c[i - 1].xmin /\ c[i - 1].xmin \in active
      BY <1>8, <3>1 DEF Ordered
    <3>3. d[i].xmin = t
      BY <3>1, <3>2 DEF WriteOver
    <3>4. CASE j = 1
      BY <1>2, <1>3, <3>3, <3>4
    <3>5. CASE j # 1
      <4>1. j - 1 \in 1..(i - 1) /\ d[j] = c[j - 1]
        BY <1>2, <3>5
      <4> QED BY <1>8, <3>1, <3>3, <4>1 DEF Ordered
    <3> QED BY <3>4, <3>5
  <2> QED BY <2>1, <2>2
<1>9. Ordered(active, d)
  BY <1>6, <1>8 DEF Ordered
<1> QED BY <1>4, <1>7, <1>9 DEF M, n, v, d

\* delete: the stamp on the newest version.
LEMMA DeleteKeepsRow ==
    ASSUME NEW t \in Txn, t \in active, NEW L \in Seq(UndoOp), NEW r \in Row,
           NEW c \in Seq(Version), c # <<>>, NEW op \in UndoOp, op.row = r,
           op.op = "Deleted", op.old = c[1], WriteOver(t, c[1]),
           Linked(t, L, r, c), Ordered(active, c)
    PROVE  /\ TopStamp(t, Append(L, op), r, [c EXCEPT ![1] = [c[1] EXCEPT !.xmax = t]])
           /\ Linked(t, Append(L, op), r, [c EXCEPT ![1] = [c[1] EXCEPT !.xmax = t]])
           /\ Ordered(active, [c EXCEPT ![1] = [c[1] EXCEPT !.xmax = t]])
<1> DEFINE M == Append(L, op)
           n == Len(L)
           v == [c[1] EXCEPT !.xmax = t]
           d == [c EXCEPT ![1] = v]
<1>1. /\ n \in Nat /\ Len(M) = n + 1 /\ M[n + 1] = op /\ \A i \in 1..n : M[i] = L[i]
      /\ \A k : LastOn(M, r, k) <=> k = n + 1
  BY PushFacts
<1>2. Len(c) \in Nat /\ 1 \in 1..Len(c) /\ c[1] \in Version
  OBVIOUS
<1>3. v.xmin = c[1].xmin /\ v.xmax = t /\ v.tuple = c[1].tuple /\ v \in Version /\ t # NoTxn
  BY <1>2, StampType DEF Version, Txn, NoTxn
<1> HIDE DEF v
<1>4. d \in Seq(Version) /\ Len(d) = Len(c) /\ d # <<>> /\ \A j \in 1..Len(c) : d[j] = IF j = 1 THEN v ELSE c[j]
  BY <1>2, <1>3, ExceptSeq
<1> HIDE DEF M, n, d
<1>5. TopStamp(t, M, r, d)
  BY <1>1, <1>2, <1>3, <1>4 DEF TopStamp
<1>6. \A i \in 1..Len(d) : d[i].xmin = c[i].xmin /\ d[i].tuple = c[i].tuple
  BY <1>2, <1>3, <1>4
<1>7. ASSUME NEW i \in 1..Len(d), d[i].xmin = t
      PROVE  /\ d[i].tuple[2] \in 1..Len(M) /\ M[d[i].tuple[2]].row = r
             /\ \/ M[d[i].tuple[2]].op = "Inserted" /\ i = Len(d)
                \/ /\ M[d[i].tuple[2]].op = "Updated" /\ i < Len(d)
                   /\ d[i + 1] = M[d[i].tuple[2]].old
             /\ \A j \in (i + 1)..Len(d) : d[j].xmin = t => d[j].tuple[2] < d[i].tuple[2]
  <2> DEFINE k == c[i].tuple[2]
  <2>1. /\ k \in 1..n /\ L[k].row = r
        /\ \/ L[k].op = "Inserted" /\ i = Len(c)
           \/ L[k].op = "Updated" /\ i < Len(c) /\ c[i + 1] = L[k].old
        /\ \A j \in (i + 1)..Len(c) : c[j].xmin = t => c[j].tuple[2] < k
    BY <1>4, <1>6, <1>7 DEF Linked, n
  <2> HIDE DEF k
  <2>2. M[k] = L[k] /\ k \in 1..Len(M) /\ d[i].tuple[2] = k
    BY <1>1, <1>4, <1>6, <2>1 DEF k
  <2>3. i < Len(c) => d[i + 1] = c[i + 1]
    BY <1>4
  <2>4. \A j \in (i + 1)..Len(d) : j \in 1..Len(d) /\ j \in (i + 1)..Len(c)
    BY <1>4
  <2> QED BY <1>4, <1>6, <2>1, <2>2, <2>3, <2>4
<1>8. \E k \in 1..Len(M) : LastOn(M, r, k) /\ M[k].op = "Deleted"
  BY <1>1
<1>9. Linked(t, M, r, d)
  BY <1>7, <1>8 DEF Linked
<1>10. ASSUME NEW i \in 1..Len(d), d[i].xmin \in active, NEW j \in 1..i
      PROVE  d[j].xmin = d[i].xmin
  <2>1. j \in 1..Len(d) /\ i \in 1..Len(c)
    BY <1>4
  <2> QED BY <1>6, <1>10, <2>1 DEF Ordered
<1>11. ASSUME NEW i \in 1..Len(d), d[i].xmax # NoTxn
       PROVE  i = 1 /\ (d[i].xmin \in active => d[i].xmax = d[i].xmin)
  <2>1. CASE i = 1
    BY <1>2, <1>3, <1>4, <2>1 DEF WriteOver
  <2>2. CASE i # 1
    BY <1>4, <1>11, <2>2 DEF Ordered
  <2> QED BY <2>1, <2>2
<1>12. Ordered(active, d)
  BY <1>10, <1>11 DEF Ordered
<1> QED BY <1>5, <1>9, <1>12 DEF M, n, v, d

\* What a write does to the version it is laid over or stamped on.
LEMMA PushedStamps ==
    ASSUME NEW t \in Txn, NEW k, NEW op, NEW c \in Seq(Version), NEW d, Pushed(t, k, op, c, d)
    PROVE  /\ d # <<>> /\ Len(d) \in Nat
           /\ \A i \in 1..Len(d) :
                 /\ d[i].xmin = t \/ \E j \in 1..Len(c) : d[i].xmin = c[j].xmin
                 /\ d[i].xmax \in {t, NoTxn} \/ \E j \in 1..Len(c) : d[i].xmax = c[j].xmax
<1>1. CASE op.op = "Inserted" /\ c = <<>> /\ d = <<NewVersion(t, k)>>
  BY <1>1 DEF NewVersion
<1>2. CASE c # <<>> /\ d = <<NewVersion(t, k)>> \o c
  <2> DEFINE v == NewVersion(t, k)
  <2>0. v.xmin = t /\ v.xmax = NoTxn
    BY DEF NewVersion
  <2> HIDE DEF v
  <2>1. /\ Len(c) \in Nat /\ Len(d) = Len(c) + 1 /\ d # <<>>
        /\ d[1] = v /\ \A i \in 2..(Len(c) + 1) : d[i] = c[i - 1]
    BY <1>2 DEF v
  <2>2. ASSUME NEW i \in 1..Len(d)
        PROVE  \/ d[i].xmin = t /\ d[i].xmax = NoTxn
               \/ \E j \in 1..Len(c) : d[i] = c[j]
    <3>1. CASE i = 1
      BY <2>0, <2>1, <3>1
    <3>2. CASE i # 1
      <4>1. i - 1 \in 1..Len(c) /\ d[i] = c[i - 1]
        BY <2>1, <3>2
      <4> QED BY <4>1
    <3> QED BY <3>1, <3>2
  <2>3. Len(d) \in Nat
    BY <2>1
  <2> QED BY <2>1, <2>2, <2>3
<1>3. CASE c # <<>> /\ d = [c EXCEPT ![1] = [c[1] EXCEPT !.xmax = t]]
  <2> DEFINE v == [c[1] EXCEPT !.xmax = t]
  <2>0. Len(c) \in Nat /\ 1 \in 1..Len(c) /\ c[1] \in Version
    BY <1>3
  <2>1. v.xmin = c[1].xmin /\ v.xmax = t /\ v \in Version
    BY <2>0, StampType DEF Version
  <2> HIDE DEF v
  <2>2. Len(d) = Len(c) /\ d # <<>> /\ \A j \in 1..Len(c) : d[j] = IF j = 1 THEN v ELSE c[j]
    BY <1>3, <2>0, <2>1, ExceptSeq DEF v
  <2> QED BY <2>0, <2>1, <2>2
<1> QED BY <1>1, <1>2, <1>3 DEF Pushed

\* A write leaves the other unfinished transactions' story alone: they have
\* none on the row.
LEMMA WriteKeepsOthers ==
    ASSUME NEW t \in Txn, NEW k, NEW op, NEW c \in Seq(Version), NEW d, Pushed(t, k, op, c, d),
           NEW u \in Txn, u # t, u \in active, Ordered(active, c), NEW M \in Seq(UndoOp), NEW r,
           TopStamp(u, M, r, c)
    PROVE  TopStamp(u, M, r, d) /\ Linked(u, M, r, d)
<1>1. /\ \A m : ~LastOn(M, r, m)
      /\ \A i \in 1..Len(c) : c[i].xmin # u /\ c[i].xmax # u
  BY NobodyElse DEF Pushed
<1>2. \A i \in 1..Len(d) :
        /\ d[i].xmin = t \/ \E j \in 1..Len(c) : d[i].xmin = c[j].xmin
        /\ d[i].xmax \in {t, NoTxn} \/ \E j \in 1..Len(c) : d[i].xmax = c[j].xmax
  BY PushedStamps
<1>3. u # NoTxn
  BY DEF Txn, NoTxn
<1>4. \A i \in 1..Len(d) : d[i].xmin # u /\ d[i].xmax # u
  BY <1>1, <1>2, <1>3
<1> QED BY <1>1, <1>4 DEF TopStamp, Linked

\* The writer's own story goes on with the new operation.
LEMMA WriteKeepsWriter ==
    ASSUME NEW t \in Txn, t \in active, NEW L \in Seq(UndoOp), NEW r \in Row,
           NEW c \in Seq(Version), NEW op \in UndoOp, op.row = r, NEW d,
           Pushed(t, Len(L) + 1, op, c, d),
           Linked(t, L, r, c), Ordered(active, c)
    PROVE  /\ TopStamp(t, Append(L, op), r, d) /\ Linked(t, Append(L, op), r, d)
           /\ Ordered(active, d)
<1>1. CASE op.op = "Inserted" /\ d = <<NewVersion(t, Len(L) + 1)>>
  BY <1>1, InsertKeepsRow
<1>2. CASE /\ op.op = "Updated" /\ c # <<>> /\ op.old = c[1] /\ WriteOver(t, c[1])
           /\ d = <<NewVersion(t, Len(L) + 1)>> \o c
  BY <1>2, UpdateKeepsRow
<1>3. CASE /\ op.op = "Deleted" /\ c # <<>> /\ op.old = c[1] /\ WriteOver(t, c[1])
           /\ d = [c EXCEPT ![1] = [c[1] EXCEPT !.xmax = t]]
  BY <1>3, DeleteKeepsRow
<1> QED BY <1>1, <1>2, <1>3 DEF Pushed

-----------------------------------------------------------------------------
(* Undoing the last operation takes the last step of the story back         *)

\* What undo_ops makes of the chain: the operation's version or mark is on top
\* of it, and what is left is the chain as it was before the operation.
Reverted(t, op, k, c, d) ==
    \/ op.op = "Inserted" /\ Len(c) = 1 /\ c[1] = NewVersion(t, k) /\ d = <<>>
    \/ /\ op.op = "Updated" /\ Len(c) > 1 /\ c[1] = NewVersion(t, k)
       /\ Len(d) = Len(c) - 1 /\ \A i \in 1..Len(d) : d[i] = c[i + 1]
       /\ d[1] = op.old
    \/ /\ op.op = "Deleted" /\ c # <<>> /\ c[1].xmax = t
       /\ Len(d) = Len(c) /\ d[1] = op.old /\ \A i \in 2..Len(d) : d[i] = c[i]
       /\ c[1].xmin = op.old.xmin /\ c[1].tuple = op.old.tuple

LEMMA UndoneReverts ==
    ASSUME NEW t \in Txn, NEW L \in Seq(UndoOp), L # <<>>, NEW r \in Row,
           L[Len(L)].row = r, NEW c \in Seq(Version), TopStamp(t, L, r, c),
           Linked(t, L, r, c),
           L[Len(L)].op # "Inserted" => L[Len(L)].old.xmax = NoTxn
    PROVE  Reverted(t, L[Len(L)], Len(L), c, Undone(L[Len(L)], c))
<1> DEFINE n == Len(L)
           op == L[n]
           d == Undone(op, c)
<1>1. n \in Nat \ {0} /\ op \in UndoOp /\ LastOn(L, r, n)
  BY DEF LastOn
<1> HIDE DEF n, op
<1>2. /\ c # <<>> /\ Len(c) \in Nat /\ Len(c) > 0 /\ 1 \in 1..Len(c) /\ c[1] \in Version
      /\ IF op.op = "Deleted"
         THEN /\ c[1].xmax = t /\ c[1].xmin = op.old.xmin /\ c[1].tuple = op.old.tuple
         ELSE c[1] = NewVersion(t, n)
  BY <1>1 DEF TopStamp, n, op, LastOn
<1>3. ASSUME c[1] = NewVersion(t, n)
      PROVE  \/ op.op = "Inserted" /\ Len(c) = 1
             \/ op.op = "Updated" /\ 1 < Len(c) /\ c[2] = op.old
  <2>1. c[1].xmin = t /\ c[1].tuple[2] = n
    BY <1>3 DEF NewVersion
  <2>2. \/ L[n].op = "Inserted" /\ 1 = Len(c)
        \/ L[n].op = "Updated" /\ 1 < Len(c) /\ c[1 + 1] = L[n].old
    BY <1>2, <2>1 DEF Linked
  <2> QED BY <2>2 DEF op
<1>4. CASE op.op = "Inserted"
  <2>1. d = <<>>
    BY <1>4 DEF Undone
  <2> QED BY <1>2, <1>3, <1>4, <2>1 DEF Reverted, n, op
<1>5. CASE op.op = "Updated"
  <2> DEFINE e == SubSeq(c, 3, Len(c))
  <2>1. /\ e \in Seq(Version)
        /\ Len(e) = IF 3 <= Len(c) THEN Len(c) - 2 ELSE 0
        /\ \A i \in 1..(Len(c) - 2) : e[i] = c[i + 2]
    BY <1>2, SubSeqProperties
  <2>2. 1 < Len(c) /\ c[2] = op.old /\ op.old \in Version
    BY <1>1, <1>2, <1>3, <1>5 DEF UndoOp
  <2>3. d = <<op.old>> \o e
    BY <1>5 DEF Undone
  <2> HIDE DEF d, e
  <2>4. /\ Len(d) = 1 + Len(e) /\ d[1] = op.old
        /\ \A i \in 2..(1 + Len(e)) : d[i] = e[i - 1]
    BY <2>1, <2>2, <2>3
  <2>5. Len(d) = Len(c) - 1
    <3>1. CASE 3 <= Len(c)
      BY <1>2, <2>1, <2>4, <3>1
    <3>2. CASE ~(3 <= Len(c))
      <4>1. Len(e) = 0
        BY <2>1, <3>2
      <4>2. Len(c) \in Nat /\ 1 < Len(c)
        BY <1>2, <2>2
      <4>3. \A m \in Nat : 1 < m /\ ~(3 <= m) => m = 2
        OBVIOUS
      <4>4. Len(c) = 2
        BY <3>2, <4>2, <4>3
      <4> QED BY <2>4, <4>1, <4>4
    <3> QED BY <3>1, <3>2
  <2>6. ASSUME NEW i \in 1..Len(d) PROVE d[i] = c[i + 1]
    <3>1. CASE i = 1
      BY <2>2, <2>4, <3>1
    <3>2. CASE i # 1
      <4>1. i \in 2..(1 + Len(e)) /\ i - 1 \in 1..(Len(c) - 2) /\ (i - 1) + 2 = i + 1
        BY <1>2, <2>1, <2>2, <2>4, <2>5, <3>2
      <4> QED BY <2>1, <2>4, <4>1
    <3> QED BY <3>1, <3>2
  <2> QED BY <1>2, <1>5, <2>2, <2>4, <2>5, <2>6 DEF Reverted, n, op, d
<1>6. CASE op.op = "Deleted"
  <2> DEFINE v == [c[1] EXCEPT !.xmax = op.old.xmax]
  <2>1. op.old \in Version /\ op.old.xmax = NoTxn
    BY <1>1, <1>6 DEF UndoOp, n, op
  <2>2. v = op.old
    BY <1>2, <1>6, <2>1 DEF Version
  <2>3. d = [c EXCEPT ![1] = v]
    BY <1>6 DEF Undone
  <2> HIDE DEF v, d
  <2>4. Len(d) = Len(c) /\ \A j \in 1..Len(c) : d[j] = IF j = 1 THEN v ELSE c[j]
    BY <1>2, <2>1, <2>2, <2>3, ExceptSeq
  <2> QED BY <1>2, <1>6, <2>2, <2>4 DEF Reverted, n, op, d
<1> QED BY <1>1, <1>4, <1>5, <1>6 DEF UndoOp

\* Undoing keeps the chain ordered.
LEMMA RevertedOrdered ==
    ASSUME NEW t \in Txn, NEW op \in UndoOp, NEW k, NEW c \in Seq(Version), NEW d \in Seq(Version),
           Reverted(t, op, k, c, d), Ordered(active, c),
           op.op # "Inserted" => op.old.xmax = NoTxn
    PROVE  Ordered(active, d)
<1>0. Len(c) \in Nat /\ Len(d) \in Nat
  OBVIOUS
<1>1. CASE op.op = "Inserted"
  <2>1. d = <<>>
    BY <1>1 DEF Reverted
  <2> QED BY <2>1 DEF Ordered
<1>2. CASE op.op = "Updated"
  <2>1. Len(d) = Len(c) - 1 /\ \A i \in 1..Len(d) : d[i] = c[i + 1] /\ i + 1 \in 1..Len(c)
    BY <1>0, <1>2 DEF Reverted
  <2>2. \A i \in 1..Len(d) : d[i].xmax = NoTxn
    BY <1>0, <2>1 DEF Ordered
  <2>3. ASSUME NEW i \in 1..Len(d), d[i].xmin \in active, NEW j \in 1..i
        PROVE  d[j].xmin = d[i].xmin
    <3>1. i + 1 \in 1..Len(c) /\ j + 1 \in 1..(i + 1) /\ d[i] = c[i + 1] /\ d[j] = c[j + 1]
      BY <1>0, <2>1
    <3> QED BY <2>3, <3>1 DEF Ordered
  <2> QED BY <2>2, <2>3 DEF Ordered
<1>3. CASE op.op = "Deleted"
  <2>1. /\ Len(d) = Len(c) /\ d[1] = op.old /\ \A i \in 2..Len(d) : d[i] = c[i]
        /\ op.old.xmax = NoTxn /\ c[1].xmin = op.old.xmin
    BY <1>3 DEF Reverted
  <2>2. \A i \in 1..Len(d) : d[i].xmin = c[i].xmin /\ d[i].xmax = NoTxn
    BY <1>0, <2>1 DEF Ordered
  <2>3. ASSUME NEW i \in 1..Len(d), d[i].xmin \in active, NEW j \in 1..i
        PROVE  d[j].xmin = d[i].xmin
    <3>1. j \in 1..Len(d) /\ i \in 1..Len(c)
      BY <2>1
    <3> QED BY <2>2, <2>3, <3>1 DEF Ordered
  <2> QED BY <2>2, <2>3 DEF Ordered
<1> QED BY <1>1, <1>2, <1>3 DEF UndoOp

\* What the shortened log says of the row.
LEMMA RevertedLinked ==
    ASSUME NEW t \in Txn, NEW L \in Seq(UndoOp), L # <<>>, NEW r \in Row,
           L[Len(L)].row = r, NEW c \in Seq(Version), NEW d \in Seq(Version),
           Reverted(t, L[Len(L)], Len(L), c, d), Linked(t, L, r, c), Ordered(active, c),
           L[Len(L)].op # "Inserted" => L[Len(L)].old.xmax = NoTxn
    PROVE  Linked(t, SubSeq(L, 1, Len(L) - 1), r, d)
<1> DEFINE n == Len(L)
           M == SubSeq(L, 1, n - 1)
           op == L[n]
<1>1. /\ n \in Nat \ {0} /\ Len(M) = n - 1 /\ \A i \in 1..(n - 1) : M[i] = L[i]
      /\ op \in UndoOp
  BY PopFacts
<1>2. Reverted(t, op, n, c, d) /\ (op.op # "Inserted" => op.old.xmax = NoTxn)
  OBVIOUS
<1>3. Len(c) \in Nat /\ Len(d) \in Nat /\ t # NoTxn
  BY DEF Txn, NoTxn
<1>4. \A i \in 1..Len(c) : c[i].xmin = t =>
        /\ c[i].tuple[2] \in 1..n /\ L[c[i].tuple[2]].row = r
        /\ \/ L[c[i].tuple[2]].op = "Inserted" /\ i = Len(c)
           \/ /\ L[c[i].tuple[2]].op = "Updated" /\ i < Len(c)
              /\ c[i + 1] = L[c[i].tuple[2]].old
        /\ \A j \in (i + 1)..Len(c) : c[j].xmin = t => c[j].tuple[2] < c[i].tuple[2]
  BY DEF Linked
<1> HIDE DEF n, M, op
<1>5. CASE op.op = "Inserted"
  <2>1. d = <<>>
    BY <1>2, <1>5 DEF Reverted
  <2> QED BY <2>1 DEF Linked
<1>6. CASE op.op = "Updated"
  <2>1. /\ Len(c) > 1 /\ c[1] = NewVersion(t, n) /\ Len(d) = Len(c) - 1
        /\ \A i \in 1..Len(d) : d[i] = c[i + 1]
    BY <1>2, <1>6 DEF Reverted
  <2>2. c[1].xmin = t /\ c[1].tuple[2] = n
    BY <2>1 DEF NewVersion
  <2>3. ASSUME NEW i \in 1..Len(d), d[i].xmin = t
        PROVE  /\ d[i].tuple[2] \in 1..Len(M) /\ M[d[i].tuple[2]].row = r
               /\ \/ M[d[i].tuple[2]].op = "Inserted" /\ i = Len(d)
                  \/ /\ M[d[i].tuple[2]].op = "Updated" /\ i < Len(d)
                     /\ d[i + 1] = M[d[i].tuple[2]].old
               /\ \A j \in (i + 1)..Len(d) : d[j].xmin = t => d[j].tuple[2] < d[i].tuple[2]
    <3>1. i + 1 \in 1..Len(c) /\ d[i] = c[i + 1] /\ c[i + 1].xmin = t /\ i + 1 \in 2..Len(c)
      BY <1>3, <2>1, <2>3
    <3> DEFINE k == c[i + 1].tuple[2]
    <3>2. /\ k \in 1..n /\ L[k].row = r
          /\ \/ L[k].op = "Inserted" /\ i + 1 = Len(c)
             \/ L[k].op = "Updated" /\ i + 1 < Len(c) /\ c[(i + 1) + 1] = L[k].old
          /\ \A j \in ((i + 1) + 1)..Len(c) : c[j].xmin = t => c[j].tuple[2] < k
      BY <1>4, <3>1
    <3>3. k < n
      <4>1. 1 \in 1..Len(c) /\ i + 1 \in (1 + 1)..Len(c)
        BY <1>3, <3>1
      <4> QED BY <1>4, <2>2, <3>1, <4>1
    <3> HIDE DEF k
    <3>4. M[k] = L[k] /\ k \in 1..Len(M)
      BY <1>1, <3>2, <3>3
    <3>5. i + 1 < Len(c) => d[i + 1] = c[(i + 1) + 1] /\ i < Len(d)
      BY <1>3, <2>1
    <3>6. i + 1 = Len(c) => i = Len(d)
      BY <1>3, <2>1
    <3>7. \A j \in (i + 1)..Len(d) : j + 1 \in ((i + 1) + 1)..Len(c) /\ d[j] = c[j + 1]
      BY <1>3, <2>1
    <3>8. \A j \in (i + 1)..Len(d) : d[j].xmin = t => d[j].tuple[2] < k
      BY <3>2, <3>7
    <3>9. d[i].tuple[2] = k
      BY <3>1 DEF k
    <3> QED BY <3>2, <3>4, <3>5, <3>6, <3>8, <3>9
  <2>4. \A i \in 1..Len(d) : d[i].xmax # t
    <3> SUFFICES ASSUME NEW i \in 1..Len(d), d[i].xmax = t PROVE FALSE
      OBVIOUS
    <3>1. i + 1 \in 1..Len(c) /\ d[i] = c[i + 1] /\ i + 1 # 1
      BY <1>3, <2>1
    <3> QED BY <1>3, <3>1 DEF Ordered
  <2> QED BY <2>3, <2>4 DEF Linked, n, M
<1>7. CASE op.op = "Deleted"
  <2>1. /\ Len(d) = Len(c) /\ d[1] = op.old /\ \A i \in 2..Len(d) : d[i] = c[i]
        /\ op.old.xmax = NoTxn /\ c[1].xmin = op.old.xmin /\ c[1].tuple = op.old.tuple
    BY <1>2, <1>7 DEF Reverted
  <2>2. \A i \in 1..Len(d) : d[i].xmin = c[i].xmin /\ d[i].tuple = c[i].tuple /\ d[i].xmax = NoTxn
    BY <1>3, <2>1 DEF Ordered
  <2>3. ASSUME NEW i \in 1..Len(d), d[i].xmin = t
        PROVE  /\ d[i].tuple[2] \in 1..Len(M) /\ M[d[i].tuple[2]].row = r
               /\ \/ M[d[i].tuple[2]].op = "Inserted" /\ i = Len(d)
                  \/ /\ M[d[i].tuple[2]].op = "Updated" /\ i < Len(d)
                     /\ d[i + 1] = M[d[i].tuple[2]].old
               /\ \A j \in (i + 1)..Len(d) : d[j].xmin = t => d[j].tuple[2] < d[i].tuple[2]
    <3> DEFINE k == c[i].tuple[2]
    <3>1. /\ k \in 1..n /\ L[k].row = r
          /\ \/ L[k].op = "Inserted" /\ i = Len(c)
             \/ L[k].op = "Updated" /\ i < Len(c) /\ c[i + 1] = L[k].old
          /\ \A j \in (i + 1)..Len(c) : c[j].xmin = t => c[j].tuple[2] < k
      BY <1>4, <2>1, <2>2, <2>3
    <3> HIDE DEF k
    <3>2. k # n
      BY <1>7, <3>1 DEF op
    <3>3. M[k] = L[k] /\ k \in 1..Len(M)
      BY <1>1, <3>1, <3>2
    <3>4. i < Len(c) => d[i + 1] = c[i + 1]
      BY <1>3, <2>1
    <3>5. \A j \in (i + 1)..Len(d) : j \in 1..Len(d)
      BY <1>3
    <3>6. \A j \in (i + 1)..Len(d) : d[j].xmin = t => d[j].tuple[2] < k
      BY <2>1, <2>2, <3>1, <3>5
    <3>7. d[i].tuple[2] = k
      BY <2>2 DEF k
    <3> QED BY <2>1, <3>1, <3>3, <3>4, <3>6, <3>7
  <2> QED BY <1>3, <2>2, <2>3 DEF Linked, n, M
<1> QED BY <1>1, <1>5, <1>6, <1>7 DEF UndoOp

\* ... and that its last operation on the row is on top again.
LEMMA RevertedTop ==
    ASSUME NEW t \in Txn, NEW L \in Seq(UndoOp), L # <<>>, NEW r \in Row,
           L[Len(L)].row = r, NEW c \in Seq(Version), NEW d \in Seq(Version),
           Reverted(t, L[Len(L)], Len(L), c, d), Stacked(t, L),
           L[Len(L)].op # "Inserted" => L[Len(L)].old.xmax = NoTxn
    PROVE  TopStamp(t, SubSeq(L, 1, Len(L) - 1), r, d)
<1> DEFINE n == Len(L)
           M == SubSeq(L, 1, n - 1)
           op == L[n]
<1>1. /\ n \in Nat \ {0} /\ Len(M) = n - 1 /\ \A i \in 1..(n - 1) : M[i] = L[i]
      /\ op \in UndoOp
  BY PopFacts
<1>2. Reverted(t, op, n, c, d) /\ (op.op # "Inserted" => op.old.xmax = NoTxn)
  OBVIOUS
<1>3. op.row = r
  OBVIOUS
<1> HIDE DEF n, M, op
<1> SUFFICES ASSUME NEW k \in 1..Len(M), LastOn(M, r, k)
             PROVE  d # <<>> /\ M[k].op # "Deleted" /\ d[1] = NewVersion(t, k)
  BY DEF TopStamp, M, n
<1>4. k \in 1..(n - 1) /\ M[k] = L[k] /\ L[k].row = r /\ n \in 1..n
  BY <1>1 DEF LastOn
<1>5. \A j \in (k + 1)..(n - 1) : L[j].row # r
  BY <1>1, <1>4 DEF LastOn
<1>6. /\ L[k].op # "Deleted" /\ op.op # "Inserted"
      /\ op.old.xmin = t /\ op.old.tuple = <<t, k>>
  BY <1>3, <1>4, <1>5 DEF Stacked, n, op
<1>7. op.old \in Version
  BY <1>1, <1>6 DEF UndoOp
<1>8. op.old = NewVersion(t, k)
  BY <1>2, <1>6, <1>7 DEF Version, NewVersion
<1>9. d[1] = op.old /\ Len(d) > 0
  BY <1>2, <1>6 DEF Reverted
<1> QED BY <1>4, <1>6, <1>8, <1>9

\* Undoing leaves the other unfinished transactions' story alone: they have
\* none on the row.
LEMMA RevertedOthers ==
    ASSUME NEW t \in Txn, t \in active, NEW op \in UndoOp, NEW k, NEW c \in Seq(Version),
           NEW d \in Seq(Version), Reverted(t, op, k, c, d), Ordered(active, c),
           op.op # "Inserted" => op.old.xmax = NoTxn,
           NEW u \in Txn, u # t, u \in active, NEW M \in Seq(UndoOp), NEW r,
           TopStamp(u, M, r, c), Ordered(active, d)
    PROVE  TopStamp(u, M, r, d) /\ Linked(u, M, r, d)
<1>0. u # NoTxn /\ t # NoTxn /\ Len(c) \in Nat /\ Len(d) \in Nat
  BY DEF Txn, NoTxn
<1>1. c # <<>> /\ Len(c) > 0 /\ 1 \in 1..Len(c)
  BY <1>0 DEF Reverted
<1>2. c[1].xmin # u /\ c[1].xmax # u
  <2>1. CASE op.op = "Deleted"
    <3>1. c[1].xmax = t
      BY <2>1 DEF Reverted
    <3>2. c[1].xmin \in active => c[1].xmin = t
      BY <1>0, <1>1, <3>1 DEF Ordered
    <3> QED BY <3>1, <3>2
  <2>2. CASE op.op # "Deleted"
    <3>1. c[1] = NewVersion(t, k)
      BY <2>2 DEF Reverted
    <3> QED BY <1>0, <3>1 DEF NewVersion
  <2> QED BY <2>1, <2>2
<1>3. ASSUME NEW m, LastOn(M, r, m) PROVE FALSE
  <2>1. m \in 1..Len(M)
    BY <1>3 DEF LastOn
  <2>2. c[1].xmax = u \/ c[1] = NewVersion(u, m)
    BY <1>3, <2>1 DEF TopStamp
  <2> QED BY <1>2, <2>2 DEF NewVersion
<1>4. ASSUME NEW i \in 1..Len(d) PROVE d[i].xmin # u /\ d[i].xmax # u
  <2>1. \A j \in 1..Len(c) : c[j].xmin # u
    <3> SUFFICES ASSUME NEW j \in 1..Len(c), c[j].xmin = u PROVE FALSE
      OBVIOUS
    <3>1. 1 \in 1..j
      OBVIOUS
    <3> QED BY <1>2, <3>1 DEF Ordered
  <2>2. CASE op.op = "Inserted"
    BY <2>2 DEF Reverted
  <2>3. CASE op.op = "Updated"
    <3>1. i + 1 \in 1..Len(c) /\ d[i] = c[i + 1] /\ i + 1 # 1
      BY <1>0, <2>3 DEF Reverted
    <3> QED BY <1>0, <2>1, <3>1 DEF Ordered
  <2>4. CASE op.op = "Deleted"
    <3>1. /\ Len(d) = Len(c) /\ d[1] = op.old /\ \A j \in 2..Len(d) : d[j] = c[j]
          /\ op.old.xmax = NoTxn /\ c[1].xmin = op.old.xmin
      BY <2>4 DEF Reverted
    <3>2. CASE i = 1
      BY <1>0, <1>2, <3>1, <3>2
    <3>3. CASE i # 1
      <4>1. d[i] = c[i] /\ i \in 1..Len(c)
        BY <1>0, <3>1, <3>3
      <4> QED BY <1>0, <2>1, <3>3, <4>1 DEF Ordered
    <3> QED BY <3>2, <3>3
  <2> QED BY <2>2, <2>3, <2>4 DEF UndoOp
<1> QED BY <1>3, <1>4 DEF TopStamp, Linked

-----------------------------------------------------------------------------
(* Purge touches nothing unfinished                                        *)

\* What a pass takes for settled has ended.
LEMMA SettledHasEnded ==
    ASSUME TypeOK, HorizonInv, NEW p \in Purger, purge[p].on, NEW x \in Nat, Settled(p, x)
    PROVE  x \notin active
  BY DEF Settled, HorizonInv

\* A purged row keeps what an unfinished transaction did to it.
LEMMA PurgedKeeps ==
    ASSUME TypeOK, HorizonInv, NEW p \in Purger, purge[p].on,
           NEW c \in Seq(Version), c # <<>>, Ordered(active, c)
    PROVE  /\ Ordered(active, PurgedChain(p, c))
           /\ \A i \in 1..Len(PurgedChain(p, c)) : i \in 1..Len(c) /\ PurgedChain(p, c)[i] = c[i]
           /\ \A u \in active, M \in Seq(UndoOp), r \in Row :
                 TopStamp(u, M, r, c) /\ Linked(u, M, r, c) =>
                     TopStamp(u, M, r, PurgedChain(p, c)) /\ Linked(u, M, r, PurgedChain(p, c))
<1> DEFINE d == PurgedChain(p, c)
<1>0. /\ Len(c) \in Nat /\ Len(c) > 0 /\ 1 \in 1..Len(c) /\ c[1] \in Version
      /\ active \subseteq Txn
  BY DEF TypeOK, TxnTypeOK
<1>1. c[1].xmin \in Nat /\ c[1].xmax \in Nat /\ NoTxn \notin active
  BY <1>0 DEF Version, Txn, NoTxn
<1>2. CASE c[1].xmax # NoTxn /\ Settled(p, c[1].xmax)
  <2>1. d = <<>>
    BY <1>2 DEF PurgedChain
  <2>2. c[1].xmax \notin active
    BY <1>1, <1>2, SettledHasEnded
  <2>3. c[1].xmin \notin active
    BY <1>0, <1>2, <2>2 DEF Ordered
  <2>4. ASSUME NEW u \in active, NEW M \in Seq(UndoOp), NEW r \in Row, TopStamp(u, M, r, c),
               NEW k, LastOn(M, r, k)
        PROVE  FALSE
    <3>1. c[1].xmax = u \/ c[1] = NewVersion(u, k)
      BY <2>4 DEF TopStamp, LastOn
    <3> QED BY <2>2, <2>3, <3>1 DEF NewVersion
  <2> HIDE DEF d
  <2>5. Len(d) = 0
    BY <2>1
  <2>6. ASSUME NEW u \in active, NEW M \in Seq(UndoOp), NEW r \in Row, TopStamp(u, M, r, c)
        PROVE  TopStamp(u, M, r, d) /\ Linked(u, M, r, d)
    BY <2>4, <2>5, <2>6 DEF TopStamp, Linked
  <2> QED BY <2>5, <2>6 DEF Ordered, d
<1>3. CASE ~(c[1].xmax # NoTxn /\ Settled(p, c[1].xmax)) /\ Settled(p, c[1].xmin)
  <2>1. d = <<c[1]>>
    BY <1>3 DEF PurgedChain
  <2>2. c[1].xmin \notin active
    BY <1>1, <1>3, SettledHasEnded
  <2> HIDE DEF d
  <2>3. Len(d) = 1 /\ d[1] = c[1] /\ d # <<>>
    BY <2>1
  <2>4. Ordered(active, d)
    BY <1>0, <2>3 DEF Ordered
  <2>5. \A i \in 1..Len(d) : i \in 1..Len(c) /\ d[i] = c[i]
    BY <1>0, <2>3
  <2>6. ASSUME NEW u \in active, NEW M \in Seq(UndoOp), NEW r \in Row, TopStamp(u, M, r, c),
               Linked(u, M, r, c)
        PROVE  TopStamp(u, M, r, d) /\ Linked(u, M, r, d)
    <3>1. TopStamp(u, M, r, d)
      BY <2>3, <2>6 DEF TopStamp
    <3>2. ASSUME NEW i \in 1..Len(d)
          PROVE  d[i].xmin # u
                 /\ (d[i].xmax = u => \E k \in 1..Len(M) : LastOn(M, r, k) /\ M[k].op = "Deleted")
      BY <1>0, <2>2, <2>3, <2>6 DEF Linked
    <3> QED BY <3>1, <3>2 DEF Linked
  <2> QED BY <2>4, <2>5, <2>6 DEF d
<1>4. CASE ~(c[1].xmax # NoTxn /\ Settled(p, c[1].xmax)) /\ ~Settled(p, c[1].xmin)
  <2>1. d = c
    BY <1>4 DEF PurgedChain
  <2> QED BY <2>1
<1> QED BY <1>2, <1>3, <1>4

-----------------------------------------------------------------------------
(* The version invariant                                                   *)

\* No stamp of a transaction whose abort is complete.
Unaborted(ab, c) == \A i \in 1..Len(c) : c[i].xmin \notin ab /\ c[i].xmax \notin ab

\* The inductive invariant behind EndedIsCommitted and UncommittedOnTop: the log
\* of every unfinished transaction tells what it has in the store, version by
\* version, so that undoing it to the end leaves nothing of it.
StoryInv ==
    /\ \A t \in Txn : Stacked(t, Log(t))
    /\ \A t \in Txn, r \in Row : TopStamp(t, Log(t), r, chain[r])
    /\ \A t \in active, r \in Row : Linked(t, Log(t), r, chain[r])
    /\ \A r \in Row : Ordered(active, chain[r]) /\ Unaborted(aborted, chain[r])
VersionInv == BaseInv /\ StoryInv

\* Logs are logs; those of the transactions that are not active are empty.
LEMMA LogType ==
    ASSUME BaseInv, NEW t \in Txn
    PROVE  /\ Log(t) \in Seq(UndoOp)
           /\ t \notin active => Log(t) = <<>>
           /\ \A k \in 1..Len(Log(t)) : Log(t)[k].op # "Inserted" => Log(t)[k].old.xmax = NoTxn
<1> DEFINE a == undo[t]
           b == undoing[t]
           m == Len(a)
           n == Len(b)
<1>0. a \in Seq(UndoOp) /\ b \in Seq(UndoOp) /\ m \in Nat /\ n \in Nat
  BY DEF BaseInv, LockInv, TypeOK, LogTypeOK
<1>1. Log(t) = a \o b
  BY DEF Log
<1>2. /\ \A i \in 1..m : a[i].op # "Inserted" => a[i].old.xmax = NoTxn
      /\ \A i \in 1..n : b[i].op # "Inserted" => b[i].old.xmax = NoTxn
  BY DEF BaseInv, LockInv, LogLocked, OldLocked
<1>3. t \notin active => Log(t) = <<>>
  <2>1. t \notin active => a = <<>> /\ b = <<>>
    BY DEF BaseInv, LifeInv
  <2>2. <<>> \o <<>> = <<>>
    BY ConcatEmptySeq
  <2> QED BY <1>1, <2>1, <2>2
<1> HIDE DEF a, b
<1>4. /\ Log(t) \in Seq(UndoOp) /\ Len(Log(t)) = m + n
      /\ \A i \in 1..m : Log(t)[i] = a[i]
      /\ \A i \in (m + 1)..(m + n) : Log(t)[i] = b[i - m]
  BY <1>0, <1>1, ConcatProperties
<1> HIDE DEF m, n
<1>5. ASSUME NEW k \in 1..Len(Log(t)), Log(t)[k].op # "Inserted"
      PROVE  Log(t)[k].old.xmax = NoTxn
  <2>1. CASE k \in 1..m
    BY <1>2, <1>4, <1>5, <2>1
  <2>2. CASE k \in (m + 1)..(m + n)
    <3>1. k - m \in 1..n
      BY <1>0, <2>2
    <3> QED BY <1>2, <1>4, <1>5, <2>2, <3>1
  <2>3. k \in 1..m \/ k \in (m + 1)..(m + n)
    BY <1>0, <1>4
  <2> QED BY <2>1, <2>2, <2>3
<1> QED BY <1>3, <1>4, <1>5

\* Every kind of step keeps the story true.
LEMMA StoryStep ==
    ASSUME VersionInv, [Next]_vars
    PROVE  StoryInv' /\ MintedInv'
<1> USE MvccAssumption
<1>0. /\ TypeOK /\ TypeOK' /\ LifeInv /\ HorizonInv /\ MintedInv /\ BaseInv /\ LifeInv'
      /\ chain \in [Row -> Seq(Version)] /\ chain' \in [Row -> Seq(Version)]
      /\ active \subseteq Txn /\ aborted \subseteq Txn /\ NoTxn \notin active /\ NoTxn \notin aborted
      /\ NoTxn \notin Txn /\ nextTxn \in Nat
  <2>1. LockInv /\ LifeInv /\ HorizonInv /\ MintedInv /\ BaseInv
    BY DEF VersionInv, BaseInv
  <2>2. TypeOK /\ TypeOK' /\ LifeInv'
    BY <2>1, TypeStep, LifeStep DEF LockInv
  <2>3. /\ chain \in [Row -> Seq(Version)] /\ chain' \in [Row -> Seq(Version)]
        /\ active \subseteq Txn /\ aborted \subseteq Txn /\ nextTxn \in Nat
    BY <2>2 DEF TypeOK, RowTypeOK, TxnTypeOK
  <2>4. NoTxn \notin Txn
    BY DEF Txn, NoTxn
  <2> QED BY <2>1, <2>2, <2>3, <2>4
<1>1. \A u \in Txn :
        /\ Log(u) \in Seq(UndoOp) /\ (u \notin active => Log(u) = <<>>)
        /\ \A k \in 1..Len(Log(u)) : Log(u)[k].op # "Inserted" => Log(u)[k].old.xmax = NoTxn
  BY <1>0, LogType
<1>2. /\ \A u \in Txn : Stacked(u, Log(u))
      /\ \A u \in Txn, q \in Row : TopStamp(u, Log(u), q, chain[q])
      /\ \A u \in active, q \in Row : Linked(u, Log(u), q, chain[q])
      /\ \A q \in Row : Ordered(active, chain[q]) /\ Unaborted(aborted, chain[q])
  BY DEF VersionInv, StoryInv
<1>3. \A u \in Txn, q \in Row, c \in Seq(Version) : TopStamp(u, <<>>, q, c)
  BY DEF TopStamp
<1>4. CASE Quiet
  <2>1. \A u \in Txn : Log(u)' = Log(u)
    BY <1>4 DEF Quiet, SameLogs
  <2>2. UNCHANGED <<active, chain, minted, aborted>>
    BY <1>4 DEF Quiet
  <2> QED BY <1>0, <1>2, <2>1, <2>2 DEF StoryInv, MintedInv
<1>5. ASSUME NEW t \in Txn, Opened(t)
      PROVE  StoryInv' /\ MintedInv'
  <2>1. /\ \A u \in Txn : Log(u)' = Log(u)
        /\ t = nextTxn /\ active' = active \cup {t} /\ UNCHANGED <<chain, minted, aborted>>
    BY <1>5 DEF Opened, SameLogs
  <2>2. \A q \in Row : \A i \in 1..Len(chain[q]) : chain[q][i].xmin < nextTxn /\ chain[q][i].xmax < nextTxn
    BY DEF VersionInv, BaseInv, LockInv, StampsLocked, ChainLocked
  <2>3. \A q \in Row : \A i \in 1..Len(chain[q]) : chain[q][i].xmin # t /\ chain[q][i].xmax # t
    BY <1>0, <2>1, <2>2
  <2>4. \A q \in Row : Linked(t, Log(t), q, chain[q])
    BY <2>3 DEF Linked
  <2>5. \A q \in Row : Ordered(active', chain[q])
    BY <1>2, <2>1, <2>3 DEF Ordered
  <2>6. (\A u \in active, q \in Row : Linked(u, Log(u), q, chain[q]))'
    BY <1>0, <1>2, <2>1, <2>4
  <2>7. (\A u \in Txn : Stacked(u, Log(u)))' /\ (\A u \in Txn, q \in Row : TopStamp(u, Log(u), q, chain[q]))'
    BY <1>2, <2>1
  <2>8. \A q \in Row : Unaborted(aborted, chain[q])'
    BY <1>2, <2>1
  <2>9. \A q \in Row : Ordered(active, chain[q])'
    BY <2>1, <2>5
  <2>10. MintedInv'
    BY <1>0, <2>1 DEF MintedInv
  <2> QED BY <2>6, <2>7, <2>8, <2>9, <2>10 DEF StoryInv
<1>6. ASSUME NEW t \in Txn, NEW r \in Row, NEW op \in UndoOp, Wrote(t, r, op)
      PROVE  StoryInv' /\ MintedInv'
  <2> DEFINE L == Log(t)
  <2>1. /\ t \in active /\ t \notin aborted /\ op.row = r
        /\ Log(t)' = Append(L, op) /\ \A u \in Txn \ {t} : Log(u)' = Log(u)
        /\ Pushed(t, Len(L) + 1, op, chain[r], chain'[r])
        /\ \A q \in Row : q # r => chain'[q] = chain[q]
        /\ minted' = minted \cup {r} /\ UNCHANGED <<active, aborted>>
    <3>1. chain' = [chain EXCEPT ![r] = chain'[r]]
      BY <1>6 DEF Wrote
    <3> QED BY <1>0, <1>6, <3>1 DEF Wrote, SameLogs, LifeInv
  <2> DEFINE c == chain[r]
             d == chain'[r]
  <2>2. c \in Seq(Version) /\ d \in Seq(Version) /\ L \in Seq(UndoOp)
    BY <1>0, <1>1
  <2>3. TopStamp(t, L, r, c) /\ Linked(t, L, r, c) /\ Ordered(active, c) /\ Stacked(t, L)
    BY <1>2, <2>1
  <2> HIDE DEF L, c, d
  <2>4. Pushed(t, Len(L) + 1, op, c, d)
    BY <2>1 DEF c, d
  <2>5. Stacked(t, Append(L, op))
    <3>1. \A k \in 1..Len(L) : LastOn(L, op.row, k) =>
             /\ L[k].op # "Deleted" /\ op.op # "Inserted"
             /\ op.old.xmin = t /\ op.old.tuple = <<t, k>>
      <4>1. TopStamp(t, L, op.row, c)
        BY <2>1, <2>3
      <4> QED BY <2>2, <2>4, <4>1, WriterOnTop
    <3> QED BY <2>2, <2>3, <3>1, PushStacked
  <2>6. TopStamp(t, Append(L, op), r, d) /\ Linked(t, Append(L, op), r, d) /\ Ordered(active, d)
    BY <2>1, <2>2, <2>3, <2>4, WriteKeepsWriter
  <2>7. ASSUME NEW q \in Row, q # r
        PROVE  TopStamp(t, Append(L, op), q, chain[q]) /\ Linked(t, Append(L, op), q, chain[q])
    <3>1. SameOn(L, Append(L, op), q) /\ Append(L, op) \in Seq(UndoOp)
      BY <2>1, <2>2, <2>7, PushFacts
    <3>2. TopStamp(t, L, q, chain[q]) /\ Linked(t, L, q, chain[q])
      BY <1>2, <2>1 DEF L
    <3> QED BY <2>2, <3>1, <3>2, SameOnKeeps
  <2>8. ASSUME NEW u \in active, u # t
        PROVE  TopStamp(u, Log(u), r, d) /\ Linked(u, Log(u), r, d)
    <3>1. u \in Txn /\ Log(u) \in Seq(UndoOp) /\ TopStamp(u, Log(u), r, c)
      BY <1>0, <1>1, <1>2 DEF c
    <3> QED BY <2>2, <2>3, <2>4, <2>8, <3>1, WriteKeepsOthers
  <2>9. \A u \in Txn : u \notin active => TopStamp(u, Log(u), r, d)
    BY <1>1, <1>3, <2>2
  <2>10. Unaborted(aborted, d)
    <3>1. \A i \in 1..Len(d) :
             /\ d[i].xmin = t \/ \E j \in 1..Len(c) : d[i].xmin = c[j].xmin
             /\ d[i].xmax \in {t, NoTxn} \/ \E j \in 1..Len(c) : d[i].xmax = c[j].xmax
      BY <2>2, <2>4, PushedStamps
    <3>2. \A j \in 1..Len(c) : c[j].xmin \notin aborted /\ c[j].xmax \notin aborted
      BY <1>2 DEF Unaborted, c
    <3> QED BY <1>0, <2>1, <3>1, <3>2 DEF Unaborted
  <2>11. (\A u \in Txn : Stacked(u, Log(u)))'
    BY <1>2, <2>1, <2>5
  <2>12. ASSUME NEW u \in Txn, NEW q \in Row
         PROVE  TopStamp(u, Log(u)', q, chain'[q]) /\ (u \in active => Linked(u, Log(u)', q, chain'[q]))
    <3>1. CASE u = t /\ q = r
      BY <2>1, <2>6, <3>1 DEF d
    <3>2. CASE u = t /\ q # r
      BY <2>1, <2>7, <3>2
    <3>3. CASE u # t /\ q = r
      BY <2>1, <2>8, <2>9, <3>3 DEF d
    <3>4. CASE u # t /\ q # r
      BY <1>2, <2>1, <3>4
    <3> QED BY <3>1, <3>2, <3>3, <3>4
  <2>13. \A q \in Row : Ordered(active, chain'[q]) /\ Unaborted(aborted, chain'[q])
    BY <1>2, <2>1, <2>6, <2>10 DEF d
  <2>14. MintedInv'
    BY <1>0, <2>1 DEF MintedInv
  <2> QED BY <1>0, <2>1, <2>11, <2>12, <2>13, <2>14 DEF StoryInv
<1>7. ASSUME NEW t \in Txn, Popped(t)
      PROVE  StoryInv' /\ MintedInv'
  <2> DEFINE L == Log(t)
             M == SubSeq(L, 1, Len(L) - 1)
             op == L[Len(L)]
             r == op.row
             c == chain[r]
             d == chain'[r]
  <2>1. /\ t \in active /\ L # <<>> /\ Log(t)' = M
        /\ \A u \in Txn \ {t} : Log(u)' = Log(u)
        /\ chain' = [chain EXCEPT ![r] = Undone(op, chain[r])]
        /\ UNCHANGED <<active, minted, aborted>>
    BY <1>7 DEF Popped, SameLogs, LastOp
  <2>2. /\ L \in Seq(UndoOp) /\ op \in UndoOp /\ r \in Row /\ Len(L) \in 1..Len(L)
        /\ op.op # "Inserted" => op.old.xmax = NoTxn
    <3>1. L \in Seq(UndoOp) /\ L # <<>>
      BY <1>1, <2>1
    <3>2. Len(L) \in 1..Len(L) /\ op \in UndoOp
      <4> HIDE DEF L
      <4> QED BY <3>1
    <3>3. op.row \in Row
      BY <3>2 DEF UndoOp
    <3> QED BY <1>1, <3>1, <3>2, <3>3
  <2>3. c \in Seq(Version) /\ d \in Seq(Version) /\ d = Undone(op, c)
    BY <1>0, <2>1, <2>2
  <2>4. TopStamp(t, L, r, c) /\ Linked(t, L, r, c) /\ Ordered(active, c) /\ Stacked(t, L)
    BY <1>2, <2>1, <2>2
  <2>5. \A q \in Row : q # r => chain'[q] = chain[q]
    BY <1>0, <2>1
  <2> HIDE DEF L, M, r, c, d
  <2>6. Reverted(t, op, Len(L), c, d)
    BY <2>1, <2>2, <2>3, <2>4, UndoneReverts DEF r
  <2> HIDE DEF op
  <2>7. Ordered(active, d)
    BY <2>2, <2>3, <2>4, <2>6, RevertedOrdered
  <2>8. Linked(t, M, r, d) /\ TopStamp(t, M, r, d) /\ Stacked(t, M)
    BY <2>1, <2>2, <2>3, <2>4, <2>6, RevertedLinked, RevertedTop, PopStacked DEF M, op, r
  <2>9. ASSUME NEW q \in Row, q # r
        PROVE  TopStamp(t, M, q, chain[q]) /\ Linked(t, M, q, chain[q])
    <3>1. SameOn(L, M, q) /\ M \in Seq(UndoOp)
      BY <2>1, <2>2, <2>9, PopFacts DEF M, op, r
    <3>2. TopStamp(t, L, q, chain[q]) /\ Linked(t, L, q, chain[q])
      BY <1>2, <2>1 DEF L
    <3> QED BY <2>2, <3>1, <3>2, SameOnKeeps
  <2>10. ASSUME NEW u \in active, u # t
         PROVE  TopStamp(u, Log(u), r, d) /\ Linked(u, Log(u), r, d)
    <3>1. u \in Txn /\ Log(u) \in Seq(UndoOp) /\ TopStamp(u, Log(u), r, c)
      BY <1>0, <1>1, <1>2, <2>2 DEF c
    <3> QED BY <2>1, <2>2, <2>3, <2>4, <2>6, <2>7, <2>10, <3>1, RevertedOthers
  <2>11. \A u \in Txn : u \notin active => TopStamp(u, Log(u), r, d)
    BY <1>1, <1>3, <2>2, <2>3
  <2>12. Unaborted(aborted, d)
    <3>1. \A j \in 1..Len(c) : c[j].xmin \notin aborted /\ c[j].xmax \notin aborted
      BY <1>2, <2>2 DEF Unaborted, c
    <3>2. Len(c) \in Nat /\ Len(d) \in Nat
      BY <2>3
    <3>3. ASSUME NEW i \in 1..Len(d) PROVE d[i].xmin \notin aborted /\ d[i].xmax \notin aborted
      <4>1. CASE op.op = "Inserted"
        <5>1. d = <<>>
          BY <2>6, <4>1 DEF Reverted
        <5> QED BY <5>1
      <4>2. CASE op.op = "Updated"
        <5>1. i + 1 \in 1..Len(c) /\ d[i] = c[i + 1]
          BY <2>6, <3>2, <4>2 DEF Reverted
        <5> QED BY <3>1, <5>1
      <4>3. CASE op.op = "Deleted"
        <5>1. /\ Len(d) = Len(c) /\ d[1] = op.old /\ \A j \in 2..Len(d) : d[j] = c[j]
              /\ op.old.xmax = NoTxn /\ c[1].xmin = op.old.xmin
          BY <2>2, <2>6, <4>3 DEF Reverted
        <5> QED BY <1>0, <3>1, <3>2, <5>1
      <4> QED BY <2>2, <4>1, <4>2, <4>3 DEF UndoOp
    <3> QED BY <3>3 DEF Unaborted
  <2>13. (\A u \in Txn : Stacked(u, Log(u)))'
    BY <1>2, <2>1, <2>8
  <2>14. ASSUME NEW u \in Txn, NEW q \in Row
         PROVE  TopStamp(u, Log(u)', q, chain'[q]) /\ (u \in active => Linked(u, Log(u)', q, chain'[q]))
    <3>1. CASE u = t /\ q = r
      BY <2>1, <2>8, <3>1 DEF d
    <3>2. CASE u = t /\ q # r
      BY <2>1, <2>5, <2>9, <3>2
    <3>3. CASE u # t /\ q = r
      BY <2>1, <2>10, <2>11, <3>3 DEF d
    <3>4. CASE u # t /\ q # r
      BY <1>2, <2>1, <2>5, <3>4
    <3> QED BY <3>1, <3>2, <3>3, <3>4
  <2>15. \A q \in Row : Ordered(active, chain'[q]) /\ Unaborted(aborted, chain'[q])
    BY <1>2, <2>5, <2>7, <2>12 DEF d
  <2>16. MintedInv'
    <3>1. c # <<>>
      BY <2>3, <2>6 DEF Reverted
    <3> QED BY <1>0, <2>1, <2>2, <2>5, <3>1 DEF MintedInv, c
  <2> QED BY <1>0, <2>1, <2>13, <2>14, <2>15, <2>16 DEF StoryInv
<1>8. ASSUME NEW p \in Purger, NEW r \in Row, Purged(p, r)
      PROVE  StoryInv' /\ MintedInv'
  <2>1. /\ purge[p].on /\ chain[r] # <<>> /\ chain[r] \in Seq(Version)
        /\ chain'[r] = PurgedChain(p, chain[r])
        /\ \A q \in Row : q # r => chain'[q] = chain[q]
        /\ UNCHANGED <<active, minted, aborted>>
        /\ \A u \in Txn : Log(u)' = Log(u)
    BY <1>0, <1>8 DEF Purged, SameLogs
  <2> DEFINE c == chain[r]
             d == chain'[r]
  <2>2. c \in Seq(Version) /\ c # <<>> /\ Ordered(active, c) /\ d = PurgedChain(p, c)
    BY <1>2, <2>1
  <2> HIDE DEF c, d
  <2>3. /\ Ordered(active, d)
        /\ \A i \in 1..Len(d) : i \in 1..Len(c) /\ d[i] = c[i]
        /\ \A u \in active, M \in Seq(UndoOp), q \in Row :
              TopStamp(u, M, q, c) /\ Linked(u, M, q, c) => TopStamp(u, M, q, d) /\ Linked(u, M, q, d)
    BY <1>0, <2>1, <2>2, PurgedKeeps
  <2>4. \A u \in active : TopStamp(u, Log(u), r, d) /\ Linked(u, Log(u), r, d)
    BY <1>0, <1>1, <1>2, <2>3 DEF c
  <2>5. \A u \in Txn : u \notin active => TopStamp(u, Log(u), r, d)
    BY <1>0, <1>1, <1>3 DEF d
  <2>6. Unaborted(aborted, d)
    BY <1>2, <2>3 DEF Unaborted, c
  <2>7. ASSUME NEW u \in Txn, NEW q \in Row
        PROVE  TopStamp(u, Log(u)', q, chain'[q]) /\ (u \in active => Linked(u, Log(u)', q, chain'[q]))
    BY <1>2, <2>1, <2>4, <2>5 DEF d
  <2>8. \A q \in Row : Ordered(active, chain'[q]) /\ Unaborted(aborted, chain'[q])
    BY <1>2, <2>1, <2>3, <2>6 DEF d
  <2>9. (\A u \in Txn : Stacked(u, Log(u)))'
    BY <1>2, <2>1
  <2>10. MintedInv'
    BY <1>0, <2>1 DEF MintedInv
  <2> QED BY <1>0, <2>1, <2>7, <2>8, <2>9, <2>10 DEF StoryInv
<1>9. ASSUME NEW t \in Txn, Left(t)
      PROVE  StoryInv' /\ MintedInv'
  <2>1. /\ t \in active /\ active' = active \ {t} /\ Log(t)' = <<>>
        /\ \A u \in Txn \ {t} : Log(u)' = Log(u)
        /\ UNCHANGED <<chain, minted>>
        /\ aborted' = aborted \/ (Log(t) = <<>> /\ aborted' = aborted \cup {t})
    BY <1>9 DEF Left, SameLogs
  <2>2. Stacked(t, <<>>) /\ \A q \in Row : TopStamp(t, <<>>, q, chain[q])
    BY <1>0, <1>3 DEF Stacked
  <2>3. \A q \in Row : Ordered(active', chain[q])
    BY <1>2, <2>1 DEF Ordered
  <2>4. ASSUME NEW q \in Row PROVE Unaborted(aborted', chain[q])
    <3>1. CASE aborted' = aborted
      BY <1>2, <3>1
    <3>2. CASE Log(t) = <<>> /\ aborted' = aborted \cup {t}
      <4>1. Linked(t, <<>>, q, chain[q])
        BY <1>2, <2>1, <3>2
      <4>2. \A i \in 1..Len(chain[q]) : chain[q][i].xmin # t /\ chain[q][i].xmax # t
        BY <4>1 DEF Linked
      <4> QED BY <1>2, <3>2, <4>2 DEF Unaborted
    <3> QED BY <2>1, <3>1, <3>2
  <2>5. (\A u \in Txn : Stacked(u, Log(u)))'
    BY <1>2, <2>1, <2>2
  <2>6. (\A u \in Txn, q \in Row : TopStamp(u, Log(u), q, chain[q]))'
    BY <1>2, <2>1, <2>2
  <2>7. (\A u \in active, q \in Row : Linked(u, Log(u), q, chain[q]))'
    BY <1>0, <1>2, <2>1
  <2>8. MintedInv'
    BY <1>0, <2>1 DEF MintedInv
  <2> QED BY <2>1, <2>3, <2>4, <2>5, <2>6, <2>7, <2>8 DEF StoryInv
<1> QED BY <1>0, <1>4, <1>5, <1>6, <1>7, <1>8, <1>9, StepKinds DEF StepKind

\* Every step keeps the version invariant.
LEMMA VersionStep ==
    ASSUME VersionInv, [Next]_vars
    PROVE  VersionInv'
<1>1. LockInv'
  BY LockInvStep DEF VersionInv, BaseInv
<1>2. LifeInv' /\ HorizonInv'
  BY LifeStep, HorizonStep DEF VersionInv, BaseInv
<1> QED BY <1>1, <1>2, StoryStep DEF VersionInv, BaseInv

\* The version invariant holds in every reachable state.
THEOREM LogsTellTheStore == Spec => []VersionInv
<1>1. Init => VersionInv
  <2> SUFFICES ASSUME Init PROVE VersionInv
    OBVIOUS
  <2>1. LockInv
    BY LockInit
  <2>2. LifeInv /\ HorizonInv
    BY DEF Init, LifeInv, HorizonInv, NoPurge
  <2>3. MintedInv
    BY DEF Init, MintedInv
  <2>4. \A t \in Txn : Log(t) = <<>>
    <3>1. <<>> \o <<>> = <<>>
      BY ConcatEmptySeq
    <3> QED BY <3>1 DEF Init, Log
  <2>5. \A t \in Txn : Stacked(t, Log(t)) /\ \A r \in Row : TopStamp(t, Log(t), r, chain[r])
    BY <2>4 DEF Stacked, TopStamp
  <2>6. active = {} /\ aborted = {}
    BY DEF Init
  <2>7. ASSUME NEW r \in Row PROVE Ordered(active, chain[r])
    <3>1. \/ chain[r] = <<>>
          \/ chain[r] = <<[xmin |-> 1, xmax |-> 0, tuple |-> InitTuple(r)]>>
      BY DEF Init, Loader, NoTxn
    <3> QED BY <2>6, <3>1 DEF Ordered, NoTxn
  <2>8. \A r \in Row : Unaborted(aborted, chain[r])
    BY <2>6 DEF Unaborted
  <2> QED BY <2>1, <2>2, <2>3, <2>5, <2>6, <2>7, <2>8 DEF VersionInv, BaseInv, StoryInv
<1>2. VersionInv /\ [Next]_vars => VersionInv'
  BY VersionStep
<1> QED BY <1>1, <1>2, PTL DEF Spec

\* A view takes "ended and present" for "committed": for any number of
\* transactions, rows and savepoints, no stored version carries the stamp of a
\* transaction whose abort is complete.
THEOREM AbortLeavesNothing == Spec => []EndedIsCommitted
<1>1. VersionInv => EndedIsCommitted
  BY DEF VersionInv, StoryInv, Unaborted, EndedIsCommitted
<1> QED BY <1>1, LogsTellTheStore, PTL

\* At most one unfinished transaction has written a row, its versions lie on top
\* of every committed one, and only a newest version is delete-stamped.
THEOREM UnfinishedOnTop == Spec => []UncommittedOnTop
<1>1. VersionInv => UncommittedOnTop
  <2> SUFFICES ASSUME VersionInv, NEW r \in Row, NEW i \in 1..Len(chain[r])
               PROVE  /\ chain[r][i].xmin \in active =>
                            \A j \in 1..i : chain[r][j].xmin = chain[r][i].xmin
                      /\ chain[r][i].xmax # NoTxn => i = 1
                      /\ {chain[r][i].xmin, chain[r][i].xmax} \subseteq active =>
                            chain[r][i].xmin = chain[r][i].xmax
    BY DEF UncommittedOnTop
  <2>1. Ordered(active, chain[r]) /\ NoTxn \notin active
    BY DEF VersionInv, StoryInv, BaseInv, LockInv, TypeOK, TxnTypeOK, Txn, NoTxn
  <2> QED BY <2>1 DEF Ordered
<1> QED BY <1>1, LogsTellTheStore, PTL

=============================================================================
