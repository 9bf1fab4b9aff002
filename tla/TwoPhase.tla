------------------------------- MODULE TwoPhase -------------------------------
(***************************************************************************)
(* Two-phase commit (nusadb-btree/src/engine/prepared.rs): PREPARE         *)
(* TRANSACTION, COMMIT PREPARED and ROLLBACK PREPARED beside ordinary      *)
(* transactions, checkpoints that carry the prepared ones in the image,    *)
(* crashes, and recovery through LogReplay.                                *)
(*                                                                         *)
(* What a transaction has written is kept as its net effect.  The group    *)
(* fsync and the shape of the file are module EngineWal's; here a thread   *)
(* waits until `durable` has reached the position it needs.                *)
(***************************************************************************)
EXTENDS LogReplay

CONSTANTS
    Gid,            \* global transaction identifiers
    MaxTxn,         \* bound: transaction ids are 1..MaxTxn
    MaxPrepared,    \* max_prepared_transactions
    MaxLsn,         \* bound: log positions
    MaxUpset        \* bound: checkpoints, crashes and failed appends together

ASSUME TwoPhaseAssumption ==
    /\ MaxTxn \in Nat /\ MaxPrepared \in Nat /\ MaxLsn \in Nat /\ MaxUpset \in Nat
    /\ IsFiniteSet(Row)

Txn == 1..MaxTxn
Nobody == 0

VARIABLES
    mode,           \* "up", "down", or "refused": open found two holders of a lock
    log,            \* the log's frames, buffered ones included
    nextLsn,        \* WalWriter.next_lsn
    durable,        \* the position the group fsync has reached
    image,          \* the checkpoint image's records
    covered,        \* the position the image stands for
    ckpt,           \* TRUE: image published, log not yet truncated; every latch held
    nextTxn,        \* TxnDomain.next_txn_id
    status,         \* where each transaction is
    sets,           \* what it has written and not undone
    lock,           \* who holds each row
    gids,           \* TxnDomain.prepared_gids
    gate,           \* who holds the commit gate across an fsync (a ROLLBACK PREPARED)
    rows,           \* committed value of every row
    preparing,      \* positions PREPAREs wait for (0: none)
    finishing,      \* positions committers and finishers wait for
    \* History and bounds.
    promised,       \* what clients have been told
    folded,         \* transactions that had ended when the image was taken
    base,           \* rows as the last recovery left them
    order,          \* commit markers since, with what they commit
    stray,          \* the log holds the frame of an append that failed
    misread,        \* a restart has read such a frame
    upsets          \* checkpoints, crashes and failed appends

logVars  == <<log, nextLsn, durable, image, covered, ckpt>>
txnVars  == <<nextTxn, status, sets, lock, gids, gate, rows>>
waitVars == <<preparing, finishing>>
histVars == <<promised, folded, base, order>>
boundVars == <<stray, misread, upsets>>
vars == <<mode, logVars, txnVars, waitVars, histVars, boundVars>>

-----------------------------------------------------------------------------
(* The log                                                                 *)

Framed(recs) == [i \in 1..Len(recs) |-> [lsn |-> nextLsn + i - 1, rec |-> recs[i]]]

Logged(recs) ==
    /\ nextLsn + Len(recs) - 1 <= MaxLsn
    /\ log' = log \o Framed(recs)
    /\ nextLsn' = nextLsn + Len(recs)
    /\ UNCHANGED <<durable, image, covered, ckpt>>

\* Mutant of DurableAt: one position too far.
DurableAtNext(recs) == nextLsn + Len(recs)

\* The position the fsync of recs has to reach.
DurableAt(recs) == nextLsn + Len(recs) - 1

Upset == upsets < MaxUpset /\ upsets' = upsets + 1

\* append whose spill fails at the last of recs, the ones before it being in: its
\* frame stays in the buffer and its position is not counted (module EngineWal).
LoggedInPart(recs) ==
    /\ Upset /\ stray' = TRUE /\ UNCHANGED misread
    /\ nextLsn + Len(recs) - 1 <= MaxLsn
    /\ log' = log \o Framed(recs)
    /\ nextLsn' = nextLsn + Len(recs) - 1
    /\ UNCHANGED <<durable, image, covered, ckpt>>

-----------------------------------------------------------------------------
(* Ordinary transactions                                                   *)

Up == mode = "up" /\ ~ckpt
Gated == Up /\ gate = Nobody
Unlocked(t) == [r \in Row |-> IF lock[r] = t THEN Nobody ELSE lock[r]]
Holds(t) == {r \in Row : lock[r] = t}

Begin(t) ==
    /\ Up /\ t = nextTxn
    /\ nextTxn' = nextTxn + 1
    /\ status' = [status EXCEPT ![t] = "running"]
    /\ UNCHANGED <<mode, logVars, sets, lock, gids, gate, rows, waitVars, histVars, boundVars>>

\* SELECT ... FOR UPDATE: a lock and no record.
LockRow(t, r) ==
    /\ Up /\ status[t] = "running" /\ lock[r] = Nobody
    /\ lock' = [lock EXCEPT ![r] = t]
    /\ UNCHANGED <<mode, logVars, nextTxn, status, sets, gids, gate, rows, waitVars, histVars,
                   boundVars>>

\* A write: row r gets a value of t's own.
Write(t, r) ==
    /\ Up /\ status[t] = "running" /\ r \notin DOMAIN sets[t]
    /\ lock[r] \in {Nobody, t}
    /\ lock' = [lock EXCEPT ![r] = t]
    /\ sets' = [sets EXCEPT ![t] = With(@, r, t)]
    /\ Logged(<<Op(t, r, t)>>)
    /\ UNCHANGED <<mode, nextTxn, status, gids, gate, rows, waitVars, histVars, boundVars>>

\* ROLLBACK TO a savepoint set before the write: undone, its inverse logged, its
\* lock kept.
Unwrite(t, r) ==
    /\ Up /\ status[t] = "running" /\ r \in DOMAIN sets[t]
    /\ sets' = [sets EXCEPT ![t] = Without(@, {r})]
    /\ Logged(<<Op(t, r, rows[r])>>)
    /\ UNCHANGED <<mode, nextTxn, status, lock, gids, gate, rows, waitVars, histVars, boundVars>>

\* The writes are undone in memory and the locks released.
Undone(t) ==
    /\ status' = [status EXCEPT ![t] = "aborted"]
    /\ sets' = [sets EXCEPT ![t] = <<>>]
    /\ lock' = Unlocked(t)
    /\ promised' = [promised EXCEPT ![t] = "aborted"]

Rollback(t) ==
    /\ Up /\ status[t] = "running"
    /\ Undone(t)
    /\ Logged(<<AbortTxn(t)>>)
    /\ UNCHANGED <<mode, nextTxn, gids, gate, rows, waitVars, folded, base, order, boundVars>>

\* commit up to its fsync.
CommitStage(t) ==
    /\ Gated /\ status[t] = "running" /\ sets[t] # <<>>
    /\ Logged(<<CommitTxn(t)>>)
    /\ status' = [status EXCEPT ![t] = "committing"]
    /\ finishing' = [finishing EXCEPT ![t] = nextLsn]
    /\ order' = Append(order, [txn |-> t, sets |-> sets[t]])
    /\ UNCHANGED <<mode, nextTxn, sets, lock, gids, gate, rows, preparing, promised, folded,
                   base, boundVars>>

-----------------------------------------------------------------------------
(* PREPARE TRANSACTION                                                     *)

\* The name is in use, the limit is reached, or the antidependency check fails
\* (module MvccEngine says when): rolled back.
PrepareRefused(t) ==
    /\ Gated /\ status[t] = "running"
    /\ Undone(t)
    /\ Logged(<<AbortTxn(t)>>)
    /\ UNCHANGED <<mode, nextTxn, gids, gate, rows, waitVars, folded, base, order, boundVars>>

NameFree(g) == gids[g] = Nobody
Waiting == {t \in Txn : \E g \in Gid : gids[g] = t}

\* prepare_records: the net effect, and every lock held.
Prepared(t, g) == PrepareRecords(t, g, Holds(t), sets[t])

\* prepare_txn, under the gate: the records, then the name.  From here anyone may
\* finish it, the fsync still to come.
PrepareTxn(t, g) ==
    /\ Gated /\ status[t] = "running"
    /\ NameFree(g) /\ Cardinality(Waiting) < MaxPrepared
    /\ Logged(Prepared(t, g))
    /\ gids' = [gids EXCEPT ![g] = t]
    /\ status' = [status EXCEPT ![t] = "prepared"]
    /\ preparing' = [preparing EXCEPT ![t] = DurableAt(Prepared(t, g))]
    /\ UNCHANGED <<mode, nextTxn, sets, lock, gate, rows, finishing, histVars, boundVars>>

\* The append failed part way: rolled back, with a marker to say so.
PrepareAppendFails(t, g) ==
    /\ Gated /\ status[t] = "running"
    /\ NameFree(g) /\ Cardinality(Waiting) < MaxPrepared
    /\ \E k \in 1..Len(Prepared(t, g)) : LoggedInPart(SubSeq(Prepared(t, g), 1, k))
    /\ status' = [status EXCEPT ![t] = "refused"]
    /\ UNCHANGED <<mode, nextTxn, sets, lock, gids, gate, rows, waitVars, histVars>>

\* refuse_prepare after it: the gate is free by now.
PrepareAborted(t) ==
    /\ Up /\ status[t] = "refused"
    /\ Undone(t)
    /\ Logged(<<AbortTxn(t)>>)
    /\ UNCHANGED <<mode, nextTxn, gids, gate, rows, waitVars, folded, base, order, boundVars>>

Told(t, d) == promised' = [promised EXCEPT ![t] = IF @ \in {"committed", "aborted"} THEN @ ELSE d]

\* The fsync covered the Prepare record.
PrepareReturns(t) ==
    /\ Up /\ preparing[t] # 0 /\ durable >= preparing[t]
    /\ preparing' = [preparing EXCEPT ![t] = 0]
    /\ Told(t, "prepared")
    /\ UNCHANGED <<mode, logVars, txnVars, finishing, folded, base, order, boundVars>>

-----------------------------------------------------------------------------
(* COMMIT PREPARED and ROLLBACK PREPARED                                   *)

\* finish_prepared, up to its fsync: the name is claimed and the marker logged
\* under the gate.  A rollback keeps the gate until it is undone.
FinishCommit(g) ==
    LET t == gids[g]
    IN  /\ Gated /\ t # Nobody
        /\ Logged(<<CommitTxn(t)>>)
        /\ gids' = [gids EXCEPT ![g] = Nobody]
        /\ status' = [status EXCEPT ![t] = "committing"]
        /\ finishing' = [finishing EXCEPT ![t] = nextLsn]
        /\ order' = Append(order, [txn |-> t, sets |-> sets[t]])
        /\ UNCHANGED <<mode, nextTxn, sets, lock, gate, rows, preparing, promised, folded, base,
                       boundVars>>

\* Mutant of FinishRollback: no marker, as for an ordinary rollback whose marker
\* is lost.
FinishRollbackUnlogged(g) ==
    LET t == gids[g]
    IN  /\ Gated /\ t # Nobody
        /\ gids' = [gids EXCEPT ![g] = Nobody]
        /\ status' = [status EXCEPT ![t] = "aborting"]
        /\ gate' = t
        /\ UNCHANGED <<mode, logVars, nextTxn, sets, lock, rows, waitVars, histVars, boundVars>>

FinishRollback(g) ==
    LET t == gids[g]
    IN  /\ Gated /\ t # Nobody
        /\ Logged(<<AbortTxn(t)>>)
        /\ gids' = [gids EXCEPT ![g] = Nobody]
        /\ status' = [status EXCEPT ![t] = "aborting"]
        /\ finishing' = [finishing EXCEPT ![t] = nextLsn]
        /\ gate' = t
        /\ UNCHANGED <<mode, nextTxn, sets, lock, rows, preparing, histVars, boundVars>>

\* The marker cannot be appended: the name is put back.
FinishAppendFails(g) ==
    /\ Gated /\ gids[g] # Nobody
    /\ LoggedInPart(<<CommitTxn(gids[g])>>) \/ LoggedInPart(<<AbortTxn(gids[g])>>)
    /\ UNCHANGED <<mode, txnVars, waitVars, histVars>>

\* The marker is durable: the writes become visible, or are undone, and the
\* client is told.
Committed1(t) ==
    /\ Up /\ status[t] = "committing" /\ durable >= finishing[t]
    /\ status' = [status EXCEPT ![t] = "committed"]
    /\ rows' = Overlay(sets[t], rows)
    /\ sets' = [sets EXCEPT ![t] = <<>>]
    /\ lock' = Unlocked(t)
    /\ finishing' = [finishing EXCEPT ![t] = 0]
    /\ Told(t, "committed")
    /\ UNCHANGED <<mode, logVars, nextTxn, gids, gate, preparing, folded, base, order, boundVars>>

\* Mutant of Undo1: the gate is not given back.
Undo1KeepsGate(t) ==
    /\ Up /\ status[t] = "aborting" /\ durable >= finishing[t]
    /\ Undone(t)
    /\ finishing' = [finishing EXCEPT ![t] = 0]
    /\ UNCHANGED <<mode, logVars, nextTxn, gids, gate, rows, preparing, folded, base, order,
                   boundVars>>

Undo1(t) ==
    /\ Up /\ status[t] = "aborting" /\ durable >= finishing[t]
    /\ Undone(t)
    /\ finishing' = [finishing EXCEPT ![t] = 0]
    /\ gate' = Nobody
    /\ UNCHANGED <<mode, logVars, nextTxn, gids, rows, preparing, folded, base, order, boundVars>>

\* The group's fsync reaches the log's tail.
Fsync ==
    /\ Up /\ durable < nextLsn - 1
    /\ \E t \in Txn : preparing[t] > durable \/ finishing[t] > durable
    /\ durable' = nextLsn - 1
    /\ UNCHANGED <<mode, log, nextLsn, image, covered, ckpt, txnVars, waitVars, histVars,
                   boundVars>>

-----------------------------------------------------------------------------
(* Checkpoints                                                             *)

\* running(): begun, not ended, and not waiting under a name.
Running == {t \in Txn : status[t] \in {"running", "refused", "committing", "aborting"}}
Name(t) == CHOOSE g \in Gid : gids[g] = t

\* Mutant of Carried: the image holds committed state only.
CarriedNothing(ts) == <<>>

\* park_prepared: the prepared transactions follow the committed state.  The code
\* writes them in the order of their prepares; here ts is any order of them.
Carried(ts) == Concat([i \in 1..Len(ts) |-> Prepared(ts[i], Name(ts[i]))])

Publish ==
    /\ Gated /\ Upset /\ nextTxn <= MaxTxn
    /\ Running = {}
    /\ \E ts \in SetToSeqs(Waiting) : image' = <<Image(nextTxn, rows)>> \o Carried(ts)
    /\ covered' = nextLsn - 1
    /\ ckpt' = TRUE
    /\ nextTxn' = nextTxn + 1
    /\ status' = [status EXCEPT ![nextTxn] = "committed"]
    /\ folded' = {t \in Txn : status'[t] \in {"committed", "aborted"}}
    /\ UNCHANGED <<mode, log, nextLsn, durable, sets, lock, gids, gate, rows, waitVars,
                   promised, base, order, stray, misread>>

\* The log is cut, or (archive or truncation failed) stays as it is.
Truncate ==
    /\ mode = "up" /\ ckpt
    /\ ckpt' = FALSE
    /\ \/ log' = <<>> /\ stray' = FALSE
       \/ UNCHANGED <<log, stray>>
    /\ UNCHANGED <<mode, nextLsn, durable, image, covered, txnVars, waitVars, histVars, misread,
                   upsets>>

-----------------------------------------------------------------------------
(* Crash and recovery                                                      *)

\* What open reads, and where that says each transaction stands.
DiskWith(frames) == image \o Climbing(frames, covered)
OnDisk(frames) ==
    LET disk == DiskWith(frames)
        prepared == DOMAIN Replay(disk, Empty).prepared
        committed == Committed(disk)
    IN  [t \in Txn |-> IF t \in prepared THEN "prepared"
                       ELSE IF t \in folded THEN status[t]
                       ELSE IF t \in committed THEN "committed"
                       ELSE IF t < nextTxn THEN "aborted" ELSE "none"]

\* A power loss keeps what was fsynced and some of what follows.  While the process
\* is down `status` is what the disk says.
Crash ==
    /\ mode = "up" /\ Upset
    /\ mode' = "down"
    /\ \E k \in 0..Len(log) :
          /\ \A i \in 1..Len(log) : log[i].lsn <= durable => i <= k
          /\ log' = SubSeq(log, 1, k)
          /\ status' = OnDisk(log')
    /\ misread' = (misread \/ stray)
    /\ ckpt' = FALSE
    /\ UNCHANGED <<nextLsn, durable, image, covered, nextTxn, sets, lock, gids, gate, rows,
                   waitVars, histVars, stray>>

Recovered == Replay(DiskWith(log), Empty)
\* Mutant of LocksBack: the locks are not taken again.
LocksBackNone(p) == [r \in Row |-> Nobody]

LocksBack(p) ==
    [r \in Row |-> IF \E t \in DOMAIN p : r \in p[t].locks
                   THEN CHOOSE t \in DOMAIN p : r \in p[t].locks ELSE Nobody]

\* restore_prepared files them in the order of their prepares.
LastUnder(p, g) ==
    CHOOSE t \in DOMAIN p : /\ p[t].gid = g
                            /\ \A u \in DOMAIN p : p[u].gid = g => p[u].seq <= p[t].seq

Highest(S) == CHOOSE x \in S : \A y \in S : y <= x

\* open_impl: the prepared transactions are back under their ids, names and
\* locks.  (Ids no record names are handed out again; the model does not reuse
\* them.)
Recover ==
    /\ mode = "down" /\ ~LocksClash(Recovered)
    /\ mode' = "up"
    /\ LET p == Recovered.prepared
           top == Highest({covered} \cup {log[i].lsn : i \in 1..Len(log)})
       IN  /\ rows' = Recovered.rows /\ base' = Recovered.rows
           /\ sets' = [t \in Txn |-> IF t \in DOMAIN p THEN p[t].sets ELSE <<>>]
           /\ lock' = LocksBack(p)
           /\ gids' = [g \in Gid |-> IF \E t \in DOMAIN p : p[t].gid = g
                                     THEN LastUnder(p, g) ELSE Nobody]
           /\ nextLsn' = top + 1 /\ durable' = top
    /\ gate' = Nobody
    /\ preparing' = [t \in Txn |-> 0] /\ finishing' = [t \in Txn |-> 0]
    /\ order' = <<>>
    /\ UNCHANGED <<log, image, covered, ckpt, nextTxn, status, promised, folded, boundVars>>

RefuseClash ==
    /\ mode = "down" /\ LocksClash(Recovered)
    /\ mode' = "refused"
    /\ UNCHANGED <<logVars, txnVars, waitVars, histVars, boundVars>>

-----------------------------------------------------------------------------
(* The specification                                                       *)

Init ==
    /\ mode = "up"
    /\ log = <<>> /\ nextLsn = 1 /\ durable = 0 /\ covered = 0 /\ ckpt = FALSE
    /\ image = <<>>
    /\ nextTxn = 1
    /\ status = [t \in Txn |-> "none"] /\ sets = [t \in Txn |-> <<>>]
    /\ lock = [r \in Row |-> Nobody] /\ gids = [g \in Gid |-> Nobody] /\ gate = Nobody
    /\ rows = [r \in Row |-> NoValue]
    /\ preparing = [t \in Txn |-> 0] /\ finishing = [t \in Txn |-> 0]
    /\ promised = [t \in Txn |-> "open"] /\ folded = {}
    /\ base = [r \in Row |-> NoValue] /\ order = <<>>
    /\ stray = FALSE /\ misread = FALSE /\ upsets = 0

Session(t) ==
    \/ Begin(t) \/ Rollback(t) \/ CommitStage(t) \/ PrepareRefused(t)
    \/ \E r \in Row : LockRow(t, r) \/ Write(t, r) \/ Unwrite(t, r)
    \/ \E g \in Gid : PrepareTxn(t, g) \/ PrepareAppendFails(t, g)

\* What a call under way has still to do.
Engine(t) == PrepareReturns(t) \/ PrepareAborted(t) \/ Committed1(t) \/ Undo1(t)

Next ==
    \/ \E t \in Txn : Session(t) \/ Engine(t)
    \/ \E g \in Gid : FinishCommit(g) \/ FinishRollback(g) \/ FinishAppendFails(g)
    \/ Fsync \/ Publish \/ Truncate \/ Crash \/ Recover \/ RefuseClash

Spec == Init /\ [][Next]_vars

\* Threads inside a call run on, and so does the fsync they wait for; a checkpoint
\* that has published its image ends.
FairSpec == Spec /\ WF_vars(Fsync) /\ WF_vars(Truncate) /\ \A t \in Txn : WF_vars(Engine(t))

-----------------------------------------------------------------------------
(* Properties                                                              *)

Nets == UNION {[S -> Txn \cup {NoValue}] : S \in SUBSET Row}

\* Type correctness of the transaction table, the log and the histories; whoever waits
\* for the log waits for a position that has been handed out.
TypeOK ==
    /\ mode \in {"up", "down", "refused"} /\ ckpt \in BOOLEAN
    /\ nextLsn \in Nat \ {0} /\ durable \in Nat /\ covered \in Nat
    /\ \A i \in 1..Len(log) : log[i].lsn \in Nat /\ log[i].rec.txn \in Txn
    /\ nextTxn \in 1..(MaxTxn + 1)
    /\ status \in [Txn -> {"none", "running", "refused", "prepared", "committing", "aborting",
                           "committed", "aborted"}]
    /\ sets \in [Txn -> Nets]
    /\ lock \in [Row -> Txn \cup {Nobody}] /\ gids \in [Gid -> Txn \cup {Nobody}]
    /\ gate \in Txn \cup {Nobody}
    /\ rows \in [Row -> Txn \cup {NoValue}] /\ base \in [Row -> Txn \cup {NoValue}]
    /\ preparing \in [Txn -> 0..(nextLsn - 1)] /\ finishing \in [Txn -> 0..(nextLsn - 1)]
    /\ promised \in [Txn -> {"open", "prepared", "committed", "aborted"}]
    /\ folded \subseteq Txn

\* Where a transaction stands, by its markers.
Stands(s) == CASE s \in {"none", "running", "refused"} -> "open"
               [] s = "committing" -> "committed"
               [] s = "aborting" -> "aborted"
               [] OTHER -> s
Decision == [t \in Txn |-> Stands(status[t])]

PD == INSTANCE PreparedDecision WITH decision <- Decision

\* Two-phase commit keeps its promises: every step is one PreparedDecision allows, as
\* long as no restart has read the frame of an append that failed.  A PREPARE that was
\* answered is there after any crash until someone finishes it, a COMMIT PREPARED or
\* ROLLBACK PREPARED that was answered is final, and no transaction takes both ways.
KeepsPromises == PD!Init /\ [][~misread' => PD!Next]_<<Decision, promised>>

\* The rows the first n commit markers make of `base`.
Applied(n) == [r \in Row |->
    LET at == {i \in 1..n : r \in DOMAIN order[i].sets}
    IN  IF at = {} THEN base[r] ELSE order[Highest(at)].sets[r]]

\* Recovery rebuilds the rows of some point in the order of the commit markers,
\* and every prepared transaction as it was: the same writes (what a savepoint
\* undid stays undone) under the same locks, whether it comes from the log or
\* from an image that carried it.
RecoversPrepared ==
    [][mode = "down" /\ mode' = "up" /\ ~misread =>
          /\ \E n \in 0..Len(order) : rows' = Applied(n)
          /\ \A t \in Txn : status'[t] = "prepared" =>
                sets'[t] = sets[t] /\ \A r \in Row : lock[r] = t => lock'[r] = t]_vars

\* A prepared transaction is isolated until it ends, across restarts: it waits
\* under exactly one name, and holds every row it wrote.
PreparedIsHeld ==
    mode = "up" /\ ~misread =>
        /\ Waiting = {t \in Txn : status[t] = "prepared"}
        /\ \A g, h \in Gid : gids[g] = gids[h] /\ gids[g] # Nobody => g = h
        /\ \A t \in Waiting : \A r \in DOMAIN sets[t] : lock[r] = t

\* No two transactions come back holding the same lock: open never refuses the
\* database for it.
OpensAgain == mode = "refused" => misread

Finishing(t) == mode = "up" /\ (status[t] \in {"committing", "aborting"} \/ gate = t)

\* The commit gate, which a ROLLBACK PREPARED keeps across its fsync, comes free,
\* and whoever waits for a marker is answered, unless the process goes down.
FinishersEnd == \A t \in Txn : Finishing(t) ~> ~Finishing(t)
=============================================================================
