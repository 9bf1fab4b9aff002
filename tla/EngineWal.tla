------------------------------ MODULE EngineWal ------------------------------
(***************************************************************************)
(* Durability of the engine: the log writer and its append buffer          *)
(* (nusadb-wal/src/writer.rs), the group fsync (group_commit.rs), the      *)
(* logging half of writes, savepoint rollbacks, commits, aborts and        *)
(* nextval, the checkpoint, crashes, and recovery (reader.rs; open_impl    *)
(* and replay in nusadb-btree/src/engine.rs).                              *)
(*                                                                         *)
(* Rows hold one committed value each; what a transaction has written and  *)
(* not committed lives in its undo log.  The versions and snapshots that   *)
(* make this so are the subject of module MvccEngine.  One action is one   *)
(* hold of the log's mutex, or of the coordinator's.                       *)
(***************************************************************************)
EXTENDS Naturals, Sequences, FiniteSets

CONSTANTS
    Row,            \* rows
    MaxTxn,         \* bound: transaction ids are 1..MaxTxn
    MaxOps,         \* bound: length of one transaction's undo log
    MaxSeq,         \* bound: values one sequence hands out (0: no nextval)
    MaxCkpt,        \* bound: checkpoints taken
    MaxCrash,       \* bound: crashes
    MaxLsn,         \* bound: log positions
    MaxFault,       \* bound: failed writes the engine goes on after
    SpillAt,        \* APPEND_BUF_CAP, in records
    PowerLoss,      \* TRUE: a crash may lose what was not fsynced
    SpillFails,     \* TRUE: the write of a spilling append may fail
    FlushFails,     \* TRUE: the write of a flush may fail
    SyncFails       \* TRUE: an fsync may fail, leaving the pages dirty

ASSUME WalAssumption ==
    /\ MaxTxn \in Nat /\ MaxOps \in Nat /\ MaxSeq \in Nat /\ MaxCkpt \in Nat
    /\ MaxCrash \in Nat /\ MaxLsn \in Nat /\ MaxFault \in Nat
    /\ SpillAt \in Nat \ {0}
    /\ {PowerLoss, SpillFails, FlushFails, SyncFails} \subseteq BOOLEAN

Txn == 1..MaxTxn
SeqCaller == 0                      \* the thread in sequence_next (they serialize)
Thread == Txn \cup {SeqCaller}
NoThread == MaxTxn + 1

VARIABLES
    mode,           \* "up"; "stopped": faulted, all new work refused; "down" after
                    \* a crash; "refused": open found a hole
    \* The log.
    buf,            \* WalWriter.append_buf
    nextLsn,        \* WalWriter.next_lsn
    file,           \* the log file as the page cache has it
    survived,       \* history: failed writes to the log the engine went on after
    safe,           \* how many of file's frames an fsync has covered
    image,          \* the checkpoint image
    \* GroupCommit.
    durable,        \* Inner.durable
    leader,         \* the thread that set Inner.syncing
    tail,           \* the leader's tail LSN; 0 before it has flushed
    need,           \* the LSN each waiting thread asked for; 0: not waiting
    \* The engine.
    nextTxn,        \* TxnDomain.next_txn_id
    status,         \* where each transaction is
    undo,           \* TxnState.undo: row, value before and value after
    undoing,        \* operations a rollback_to has yet to compensate
    lock,           \* who holds a row's exclusive lock
    db,             \* committed value of every row
    seq,            \* SequenceState.current (0: not called yet)
    seqPrior,       \* the value to put back when nextval fails
    ckpt,           \* TRUE: image published, log not yet truncated
    \* History and bounds.
    base,           \* db as the last recovery left it
    order,          \* commits since, in the order of their markers
    acked,          \* positions in `order` whose commit returned
    given,          \* the highest value nextval returned
    ckpts, crashes

logVars   == <<buf, nextLsn, file, survived>>
groupVars == <<durable, leader, tail, need>>
txnVars   == <<nextTxn, status, undo, undoing, lock>>
seqVars   == <<seq, seqPrior>>
histVars  == <<base, order, acked, given>>
boundVars == <<ckpts, crashes>>
vars == <<mode, logVars, safe, image, groupVars, txnVars, db, seqVars, ckpt,
          histVars, boundVars>>

Value == Txn \X (1..MaxOps)
NoValue == <<0, 0>>                 \* the row is not there

-----------------------------------------------------------------------------
(* WalWriter                                                               *)

OpRec(t, r, v)  == [kind |-> "op", txn |-> t, row |-> r, val |-> v]
MarkRec(k, t)   == [kind |-> k, txn |-> t]
SeqRec(v)       == [kind |-> "seq", txn |-> 0, val |-> v]

Frame(rec) == [lsn |-> nextLsn, rec |-> rec, whole |-> TRUE]
Torn(f) == [f EXCEPT !.whole = FALSE]

\* What a failed write of the frames b may leave behind f: some of them, and a
\* piece of the next.
PartWritten(f, b) ==
    UNION {{f \o SubSeq(b, 1, k), f \o SubSeq(b, 1, k) \o <<Torn(b[k + 1])>>} :
              k \in 0..(Len(b) - 1)}

\* append: into the buffer, which is written out when it has reached its cap.
AppendRec(rec) ==
    LET all == Append(buf, Frame(rec))
    IN  /\ nextLsn <= MaxLsn
        /\ nextLsn' = nextLsn + 1
        /\ IF Len(all) >= SpillAt
           THEN buf' = <<>> /\ file' = file \o all
           ELSE buf' = all /\ UNCHANGED file
        /\ UNCHANGED survived

Survived == survived < MaxFault /\ survived' = survived + 1

\* append whose spill fails: the error returns before next_lsn moves on, with
\* the frame still in the buffer.
AppendFails(rec) ==
    LET all == Append(buf, Frame(rec))
    IN  /\ SpillFails /\ nextLsn <= MaxLsn /\ Len(all) >= SpillAt
        /\ buf' = all
        /\ file' \in PartWritten(file, all)
        /\ Survived
        /\ UNCHANGED nextLsn

-----------------------------------------------------------------------------
(* Transactions                                                            *)

\* No crash, and no checkpoint holding every latch.  What a thread already in the
\* engine goes on doing asks no more than this; new work passes ensure_healthy.
Alive == mode \in {"up", "stopped"} /\ ~ckpt
Up == mode = "up" /\ ~ckpt
Running(t) == Up /\ status[t] = "running" /\ undoing[t] = <<>>
Live == {t \in Txn : status[t] \in {"running", "failed", "staged"}}

\* The value t sees in row r: its own last write, or the committed one.
Current(t, r) ==
    LET own == {i \in 1..Len(undo[t]) : undo[t][i].row = r}
        i == CHOOSE k \in own : \A j \in own : j <= k
    IN  IF own = {} THEN db[r] ELSE undo[t][i].new

Begin(t) ==
    /\ Up /\ t = nextTxn /\ t <= MaxTxn
    /\ nextTxn' = nextTxn + 1
    /\ status' = [status EXCEPT ![t] = "running"]
    /\ UNCHANGED <<mode, logVars, safe, image, groupVars, undo, undoing, lock, db, seqVars,
                   ckpt, histVars, boundVars>>

\* insert, update or delete of row r: memory and the undo entry first, then the
\* log.  A new value v or, for a delete, none.
Pushed(t, r, v) ==
    /\ Len(undo[t]) < MaxOps
    /\ lock[r] \in {0, t}
    /\ lock' = [lock EXCEPT ![r] = t]
    /\ undo' = [undo EXCEPT ![t] = Append(@, [row |-> r, old |-> Current(t, r), new |-> v])]

Write(t, r, v) ==
    /\ Running(t) /\ Pushed(t, r, v)
    /\ AppendRec(OpRec(t, r, v))
    /\ UNCHANGED <<mode, safe, image, groupVars, nextTxn, status, undoing, db, seqVars, ckpt,
                   histVars, boundVars>>

\* A write whose record cannot be appended fails its statement, and the session
\* then accepts only a rollback, of the transaction or to a savepoint.
WriteFails(t, r, v) ==
    /\ Running(t) /\ Pushed(t, r, v)
    /\ AppendFails(OpRec(t, r, v))
    /\ status' = [status EXCEPT ![t] = "failed"]
    /\ UNCHANGED <<mode, safe, image, groupVars, nextTxn, undoing, db, seqVars, ckpt,
                   histVars, boundVars>>

\* rollback_to a savepoint set when the undo log had `mark` entries.
RollbackTo(t, mark) ==
    /\ Up /\ status[t] \in {"running", "failed"} /\ undoing[t] = <<>>
    /\ mark < Len(undo[t])
    /\ undo' = [undo EXCEPT ![t] = SubSeq(@, 1, mark)]
    /\ undoing' = [undoing EXCEPT ![t] = SubSeq(undo[t], mark + 1, Len(undo[t]))]
    /\ status' = [status EXCEPT ![t] = "running"]
    /\ UNCHANGED <<mode, logVars, safe, image, groupVars, nextTxn, lock, db, seqVars, ckpt,
                   histVars, boundVars>>

\* Mutant of Inverse: the value written, not the value overwritten.
InverseNew(t, op) == OpRec(t, op.row, op.new)

\* log_compensations: the inverse of an undone write.
Inverse(t, op) == OpRec(t, op.row, op.old)

\* One compensation, newest first.
Compensate(t) ==
    /\ Alive /\ undoing[t] # <<>>
    /\ AppendRec(Inverse(t, undoing[t][Len(undoing[t])]))
    /\ undoing' = [undoing EXCEPT ![t] = SubSeq(@, 1, Len(@) - 1)]
    /\ UNCHANGED <<mode, safe, image, groupVars, nextTxn, status, undo, lock, db, seqVars,
                   ckpt, histVars, boundVars>>

\* A compensation that cannot be logged stops the engine (rollback_tail,
\* guarded): the undone writes have left the undo log and the log lacks their
\* inverses.
CompensateFails(t) ==
    /\ Alive /\ undoing[t] # <<>>
    /\ AppendFails(Inverse(t, undoing[t][Len(undoing[t])]))
    /\ undoing' = [undoing EXCEPT ![t] = <<>>]
    /\ mode' = "stopped"
    /\ UNCHANGED <<safe, image, groupVars, nextTxn, status, undo, lock, db, seqVars, ckpt,
                   histVars, boundVars>>

Unlocked(t) == [r \in Row |-> IF lock[r] = t THEN 0 ELSE lock[r]]

\* abort_with: the writes are undone in memory, the locks released, and the
\* advisory marker is still to be logged.
Aborted(t) ==
    /\ status' = [status EXCEPT ![t] = "aborting"]
    /\ undo' = [undo EXCEPT ![t] = <<>>]
    /\ lock' = Unlocked(t)

Rollback(t) ==
    /\ Alive /\ status[t] \in {"running", "failed"} /\ undoing[t] = <<>>
    /\ Aborted(t)
    /\ UNCHANGED <<mode, logVars, safe, image, groupVars, nextTxn, undoing, db, seqVars, ckpt,
                   histVars, boundVars>>

\* The AbortTxn marker: best effort.
AbortMarker(t) ==
    /\ Alive /\ status[t] = "aborting"
    /\ AppendRec(MarkRec("abort", t)) \/ AppendFails(MarkRec("abort", t))
    /\ status' = [status EXCEPT ![t] = "ended"]
    /\ UNCHANGED <<mode, safe, image, groupVars, nextTxn, undo, undoing, lock, db, seqVars,
                   ckpt, histVars, boundVars>>

\* The rows t changed, and what it made of them.
WriteSet(t) == [r \in {undo[t][i].row : i \in 1..Len(undo[t])} |-> Current(t, r)]
Overlay(sets, rows) == [r \in Row |-> IF r \in DOMAIN sets THEN sets[r] ELSE rows[r]]

\* commit of a transaction that wrote nothing: no marker, no fsync.
CommitReadOnly(t) ==
    /\ Running(t) /\ undo[t] = <<>>
    /\ status' = [status EXCEPT ![t] = "ended"]
    /\ lock' = Unlocked(t)
    /\ UNCHANGED <<mode, logVars, safe, image, groupVars, nextTxn, undo, undoing, db, seqVars,
                   ckpt, histVars, boundVars>>

\* commit, up to the fsync: the marker's LSN is what the group has to cover.
CommitStage(t) ==
    /\ Running(t) /\ undo[t] # <<>>
    /\ AppendRec(MarkRec("commit", t))
    /\ status' = [status EXCEPT ![t] = "staged"]
    /\ need' = [need EXCEPT ![t] = nextLsn]
    /\ order' = Append(order, [txn |-> t, sets |-> WriteSet(t)])
    /\ UNCHANGED <<mode, safe, image, durable, leader, tail, nextTxn, undo, undoing, lock, db,
                   seqVars, ckpt, base, acked, given, boundVars>>

\* commit whose marker cannot be appended: aborted, and reported as failed.
CommitAppendFails(t) ==
    /\ Running(t) /\ undo[t] # <<>>
    /\ AppendFails(MarkRec("commit", t))
    /\ Aborted(t)
    /\ UNCHANGED <<mode, safe, image, groupVars, nextTxn, undoing, db, seqVars, ckpt,
                   histVars, boundVars>>

\* commit after the group fsync covered the marker: visible, and reported.
CommitFinish(t) ==
    /\ Alive /\ status[t] = "staged" /\ durable >= need[t]
    /\ status' = [status EXCEPT ![t] = "ended"]
    /\ need' = [need EXCEPT ![t] = 0]
    /\ db' = Overlay(WriteSet(t), db)
    /\ undo' = [undo EXCEPT ![t] = <<>>]
    /\ lock' = Unlocked(t)
    /\ acked' = acked \cup {i \in 1..Len(order) : order[i].txn = t}
    /\ UNCHANGED <<mode, logVars, safe, image, durable, leader, tail, nextTxn, undoing,
                   seqVars, ckpt, base, order, given, boundVars>>

-----------------------------------------------------------------------------
(* GroupCommit::commit, over flush_and_sync                                *)

Waiting(th) == Alive /\ need[th] # 0 /\ durable < need[th]

\* The first thread to find no fsync under way leads.
Lead(th) ==
    /\ Waiting(th) /\ leader = NoThread
    /\ leader' = th /\ tail' = 0
    /\ UNCHANGED <<mode, logVars, safe, image, durable, need, txnVars, db, seqVars, ckpt,
                   histVars, boundVars>>

\* flush: the buffer is written to the file and the tail LSN noted, in one hold
\* of the log's mutex.
LeaderFlush ==
    /\ Alive /\ leader # NoThread /\ tail = 0
    /\ file' = file \o buf /\ buf' = <<>>
    /\ tail' = nextLsn - 1
    /\ UNCHANGED <<mode, nextLsn, survived, safe, image, durable, leader, need, txnVars, db, seqVars,
                   ckpt, histVars, boundVars>>

\* Mutant of LeaderSync: it claims whatever has been appended meanwhile.
LeaderSyncClaimsAll ==
    /\ Alive /\ leader # NoThread /\ tail # 0
    /\ safe' = Len(file)
    /\ durable' = nextLsn - 1
    /\ leader' = NoThread /\ tail' = 0
    /\ UNCHANGED <<mode, logVars, image, need, txnVars, db, seqVars, ckpt, histVars, boundVars>>

\* Mutant of LeaderSync: syncing is not reset.
LeaderSyncKeepsOn ==
    /\ Alive /\ leader # NoThread /\ tail # 0
    /\ safe' = Len(file)
    /\ durable' = IF tail > durable THEN tail ELSE durable
    /\ UNCHANGED <<mode, logVars, image, leader, tail, need, txnVars, db, seqVars, ckpt,
                   histVars, boundVars>>

\* sync_data outside the mutex, then the coordinator learns of it.
LeaderSync ==
    /\ Alive /\ leader # NoThread /\ tail # 0
    /\ safe' = Len(file)
    /\ durable' = IF tail > durable THEN tail ELSE durable
    /\ leader' = NoThread /\ tail' = 0
    /\ UNCHANGED <<mode, logVars, image, need, txnVars, db, seqVars, ckpt, histVars, boundVars>>

\* Nothing in memory outlives a crash.
Gone ==
    /\ mode' = "down"
    /\ buf' = <<>> /\ nextLsn' = 1 /\ safe' = 0
    /\ db' = [r \in Row |-> NoValue] /\ seq' = 0 /\ seqPrior' = 0 /\ nextTxn' = 1
    /\ durable' = 0 /\ leader' = NoThread /\ tail' = 0
    /\ need' = [th \in Thread |-> 0]
    /\ status' = [t \in Txn |-> "none"]
    /\ undo' = [t \in Txn |-> <<>>] /\ undoing' = [t \in Txn |-> <<>>]
    /\ lock' = [r \in Row |-> 0]
    /\ ckpt' = FALSE

\* Mutant of LeaderFailed: a committer rolls back and the engine goes on.
LeaderFailedGoesOn ==
    \/ /\ leader \in Txn /\ Aborted(leader)
       /\ leader' = NoThread /\ tail' = 0
       /\ need' = [need EXCEPT ![leader] = 0]
       /\ UNCHANGED <<mode, buf, nextLsn, safe, durable, nextTxn, undoing, db, ckpt, seqVars>>
    \/ /\ leader = SeqCaller
       /\ leader' = NoThread /\ tail' = 0
       /\ need' = [need EXCEPT ![SeqCaller] = 0]
       /\ seq' = seqPrior /\ seqPrior' = 0
       /\ UNCHANGED <<mode, buf, nextLsn, safe, durable, nextTxn, status, undo, undoing, lock,
                      db, ckpt>>

\* The leader's flush or fsync failed.  A committer stops the process; nextval
\* takes its value back and the engine goes on.
LeaderFailed ==
    \/ leader \in Txn /\ Gone
    \/ /\ leader = SeqCaller
       /\ leader' = NoThread /\ tail' = 0
       /\ need' = [need EXCEPT ![SeqCaller] = 0]
       /\ seq' = seqPrior /\ seqPrior' = 0
       /\ UNCHANGED <<mode, buf, nextLsn, safe, durable, nextTxn, status, undo, undoing, lock,
                      db, ckpt>>

LeaderFlushFails ==
    /\ FlushFails /\ Alive /\ leader # NoThread /\ tail = 0 /\ buf # <<>>
    /\ file' \in PartWritten(file, buf)
    /\ LeaderFailed
    /\ IF leader = SeqCaller THEN Survived ELSE UNCHANGED survived
    /\ UNCHANGED <<image, histVars, boundVars>>

LeaderSyncFails ==
    /\ SyncFails /\ Alive /\ leader # NoThread /\ tail # 0
    /\ LeaderFailed
    /\ UNCHANGED <<file, survived, image, histVars, boundVars>>

-----------------------------------------------------------------------------
(* Sequences: nextval is durable by itself, under the sequence latch       *)

\* sequence_next: advance, append, and ask for the log's tail to be durable.
\* (sync_log reads the tail after the append; a record appended in between only
\* raises the bar.)
Nextval ==
    /\ Up /\ need[SeqCaller] = 0 /\ seq < MaxSeq
    /\ AppendRec(SeqRec(seq + 1))
    /\ seq' = seq + 1 /\ seqPrior' = seq
    /\ need' = [need EXCEPT ![SeqCaller] = nextLsn]
    /\ UNCHANGED <<mode, safe, image, durable, leader, tail, txnVars, db, ckpt, histVars,
                   boundVars>>

\* The append failed: memory goes back, and nothing was handed out.
NextvalFails ==
    /\ Up /\ need[SeqCaller] = 0 /\ seq < MaxSeq
    /\ AppendFails(SeqRec(seq + 1))
    /\ UNCHANGED <<mode, safe, image, groupVars, txnVars, db, seqVars, ckpt, histVars,
                   boundVars>>

\* Mutant of NextvalReturns: the value is handed out before the fsync.
NextvalReturnsEarly ==
    /\ Alive /\ need[SeqCaller] # 0
    /\ need' = [need EXCEPT ![SeqCaller] = 0]
    /\ seqPrior' = 0
    /\ given' = seq
    /\ UNCHANGED <<mode, logVars, safe, image, durable, leader, tail, txnVars, db, seq, ckpt,
                   base, order, acked, boundVars>>

NextvalReturns ==
    /\ Alive /\ need[SeqCaller] # 0 /\ durable >= need[SeqCaller]
    /\ need' = [need EXCEPT ![SeqCaller] = 0]
    /\ seqPrior' = 0
    /\ given' = seq
    /\ UNCHANGED <<mode, logVars, safe, image, durable, leader, tail, txnVars, db, seq, ckpt,
                   base, order, acked, boundVars>>

-----------------------------------------------------------------------------
(* Checkpoint: every latch is held from Publish to the end of the truncation *)

\* checkpoint_quiesced, phases 1 and 2: with no transaction running, the whole
\* state under a synthetic transaction id, stamped with the LSN it covers, and
\* renamed into place.
Publish ==
    /\ Up /\ ckpts < MaxCkpt /\ nextTxn <= MaxTxn
    /\ Live = {} /\ need[SeqCaller] = 0
    /\ image' = [rows |-> db, seq |-> seq, txn |-> nextTxn, covered |-> nextLsn - 1]
    /\ nextTxn' = nextTxn + 1
    /\ ckpt' = TRUE
    /\ ckpts' = ckpts + 1
    /\ UNCHANGED <<mode, logVars, safe, groupVars, status, undo, undoing, lock, db, seqVars, histVars,
                   crashes>>

\* The image could not be written or published: the id it took is spent.
PublishFails ==
    /\ Up /\ ckpts < MaxCkpt /\ nextTxn <= MaxTxn
    /\ Live = {} /\ need[SeqCaller] = 0
    /\ nextTxn' = nextTxn + 1
    /\ UNCHANGED <<mode, logVars, safe, image, groupVars, status, undo, undoing, lock, db,
                   seqVars, ckpt, histVars, boundVars>>

\* Mutants of Truncate: the durable length stays behind; positions start over.
TruncateKeepsMark ==
    /\ mode = "up" /\ ckpt
    /\ buf' = <<>> /\ file' = <<>>
    /\ ckpt' = FALSE
    /\ UNCHANGED <<mode, nextLsn, survived, safe, image, groupVars, txnVars, db, seqVars,
                   histVars, boundVars>>
TruncateRestarts ==
    /\ mode = "up" /\ ckpt
    /\ buf' = <<>> /\ file' = <<>> /\ safe' = 0 /\ nextLsn' = 1
    /\ ckpt' = FALSE
    /\ UNCHANGED <<mode, survived, image, groupVars, txnVars, db, seqVars, histVars, boundVars>>

\* Phase 3: drain the buffer, cut the file to nothing, fsync.  next_lsn stays.
Truncate ==
    /\ mode = "up" /\ ckpt
    /\ buf' = <<>> /\ file' = <<>> /\ safe' = 0
    /\ ckpt' = FALSE
    /\ UNCHANGED <<mode, nextLsn, survived, image, groupVars, txnVars, db, seqVars, histVars,
                   boundVars>>

\* The archive, or the cut itself, failed after the drain: image and full log.
TruncateSkipped ==
    /\ mode = "up" /\ ckpt
    /\ buf' = <<>> /\ file' = file \o buf
    /\ ckpt' = FALSE
    /\ UNCHANGED <<mode, nextLsn, survived, safe, image, groupVars, txnVars, db, seqVars,
                   histVars, boundVars>>

\* The drain failed: the image stands, the log stays as it is, and so does the
\* buffer.
TruncateFails ==
    /\ mode = "up" /\ ckpt /\ FlushFails /\ buf # <<>>
    /\ file' \in PartWritten(file, buf)
    /\ ckpt' = FALSE /\ Survived
    /\ UNCHANGED <<mode, buf, nextLsn, safe, image, groupVars, txnVars, db, seqVars, histVars,
                   boundVars>>

-----------------------------------------------------------------------------
(* Crashes and recovery                                                    *)

\* What a power loss may leave of the file: what was fsynced, some of what
\* follows it, and a piece of the next frame.
AfterPowerLoss ==
    {file} \cup {SubSeq(file, 1, k) : k \in safe..Len(file)}
           \cup {SubSeq(file, 1, k) \o <<Torn(file[k + 1])>> : k \in safe..(Len(file) - 1)}

\* The process is killed (the page cache survives), or the machine loses power.
Crash ==
    /\ mode \in {"up", "stopped"} /\ crashes < MaxCrash
    /\ crashes' = crashes + 1
    /\ Gone
    /\ file' \in IF PowerLoss THEN AfterPowerLoss ELSE {file}
    /\ UNCHANGED <<survived, image, histVars, ckpts>>

\* recover_sealed_prefix: the whole frames before the first torn one.
GoodFrames == {k \in 0..Len(file) : \A i \in 1..k : file[i].whole}
GoodLen == CHOOSE k \in GoodFrames : \A j \in GoodFrames : j <= k

\* open_impl: positions must climb from the image's watermark; a record at or
\* below the last one accepted is taken for a copy.
Accepted(i) ==
    /\ file[i].lsn > image.covered
    /\ \A j \in 1..(i - 1) : file[j].lsn < file[i].lsn
Replayed == {i \in 1..GoodLen : Accepted(i)}
RecAt(i) == file[i].rec

\* replay: a commit marker and no abort marker, in whatever order.
CommittedIn ==
    {t \in Txn : /\ \E i \in Replayed : RecAt(i) = MarkRec("commit", t)
                 /\ \A i \in Replayed : RecAt(i) # MarkRec("abort", t)}

Last(S) == CHOOSE k \in S : \A j \in S : j <= k

\* replay_op: committed writes in log order over the image.
RecoveredRows == [r \in Row |->
    LET ops == {i \in Replayed : /\ RecAt(i).kind = "op" /\ RecAt(i).row = r
                                 /\ RecAt(i).txn \in CommittedIn}
    IN  IF ops = {} THEN image.rows[r] ELSE RecAt(Last(ops)).val]

\* The sequence family is replayed whoever logged it.
RecoveredSeq ==
    LET sets == {i \in Replayed : RecAt(i).kind = "seq"}
    IN  IF sets = {} THEN image.seq ELSE RecAt(Last(sets)).val

\* Ids and positions go on past everything the image and the log hold.
Highest(S) == CHOOSE x \in S : \A y \in S : y <= x
RecoveredTxn == Highest({image.txn} \cup {RecAt(i).txn : i \in Replayed})
RecoveredLsn == Highest({image.covered} \cup {file[i].lsn : i \in 1..GoodLen})

\* Mutant of Recover: the torn tail stays, and records are appended after it.
RecoverUncut ==
    /\ mode = "down"
    /\ mode' = "up"
    /\ db' = RecoveredRows
    /\ seq' = RecoveredSeq /\ seqPrior' = 0
    /\ nextTxn' = RecoveredTxn + 1
    /\ nextLsn' = RecoveredLsn + 1
    /\ safe' = Len(file)
    /\ base' = RecoveredRows /\ order' = <<>> /\ acked' = {}
    /\ UNCHANGED <<buf, file, survived, image, groupVars, status, undo, undoing, lock, ckpt, given,
                   boundVars>>

\* open_impl: replay, cut the torn tail off, fsync, resume the writer.  (Frames
\* after a torn one are cut off with it when its length reaches past them.)
Recover ==
    /\ mode = "down"
    /\ mode' = "up"
    /\ db' = RecoveredRows
    /\ seq' = RecoveredSeq /\ seqPrior' = 0
    /\ nextTxn' = RecoveredTxn + 1
    /\ nextLsn' = RecoveredLsn + 1
    /\ file' = SubSeq(file, 1, GoodLen) /\ safe' = GoodLen
    /\ base' = RecoveredRows /\ order' = <<>> /\ acked' = {}
    /\ UNCHANGED <<buf, survived, image, groupVars, status, undo, undoing, lock, ckpt, given, boundVars>>

\* A torn frame that more follows is corruption: refused when a later record is
\* whole, or when nothing whole comes before.
RefuseHole ==
    /\ mode = "down" /\ GoodLen + 1 < Len(file)
    /\ GoodLen # 0 => \E i \in (GoodLen + 2)..Len(file) :
                          file[i].whole /\ file[i].lsn > file[GoodLen].lsn
    /\ mode' = "refused"
    /\ UNCHANGED <<logVars, safe, image, groupVars, txnVars, db, seqVars, ckpt, histVars,
                   boundVars>>

-----------------------------------------------------------------------------
(* The specification                                                       *)

\* A new database: no log, no image.
Init ==
    /\ mode = "up"
    /\ buf = <<>> /\ nextLsn = 1 /\ file = <<>> /\ safe = 0 /\ survived = 0
    /\ image = [rows |-> [r \in Row |-> NoValue], seq |-> 0, txn |-> 0, covered |-> 0]
    /\ durable = 0 /\ leader = NoThread /\ tail = 0
    /\ need = [th \in Thread |-> 0]
    /\ nextTxn = 1
    /\ status = [t \in Txn |-> "none"]
    /\ undo = [t \in Txn |-> <<>>] /\ undoing = [t \in Txn |-> <<>>]
    /\ lock = [r \in Row |-> 0]
    /\ db = [r \in Row |-> NoValue]
    /\ seq = 0 /\ seqPrior = 0
    /\ ckpt = FALSE
    /\ base = [r \in Row |-> NoValue] /\ order = <<>> /\ acked = {} /\ given = 0
    /\ ckpts = 0 /\ crashes = 0

\* What sessions and the checkpoint task ask for.
NewValues(t, r) == {<<t, Len(undo[t]) + 1>>}
                   \cup (IF Current(t, r) = NoValue THEN {} ELSE {NoValue})
Session(t) ==
    \/ Begin(t) \/ Rollback(t)
    \/ CommitReadOnly(t) \/ CommitStage(t) \/ CommitAppendFails(t)
    \/ \E r \in Row : \E v \in NewValues(t, r) : Write(t, r, v) \/ WriteFails(t, r, v)
    \/ \E mark \in 0..(MaxOps - 1) : RollbackTo(t, mark)

\* What a call under way still has to do.
Engine(t) == Compensate(t) \/ AbortMarker(t) \/ CommitFinish(t)
Group == (\E th \in Thread : Lead(th)) \/ LeaderFlush \/ LeaderSync

Next ==
    \/ \E t \in Txn : Session(t) \/ Engine(t) \/ CompensateFails(t)
    \/ Group \/ LeaderFlushFails \/ LeaderSyncFails
    \/ Nextval \/ NextvalFails \/ NextvalReturns
    \/ Publish \/ PublishFails \/ Truncate \/ TruncateSkipped \/ TruncateFails
    \/ Crash \/ Recover \/ RefuseHole

Spec == Init /\ [][Next]_vars

\* Threads that have called commit run on, and so does the group's leader.
FairSpec == Spec /\ WF_vars(Group) /\ \A t \in Txn : WF_vars(Engine(t))

-----------------------------------------------------------------------------
(* Properties                                                              *)

\* Type correctness of the log, the coordinator and the engine's share in them.
Rows == [Row -> Value \cup {NoValue}]
Record == [kind : {"op"}, txn : Txn, row : Row, val : Value \cup {NoValue}]
          \cup [kind : {"commit", "abort"}, txn : Txn]
          \cup [kind : {"seq"}, txn : {0}, val : Nat]
Frames == [lsn : Nat, rec : Record, whole : BOOLEAN]
Undo == [row : Row, old : Value \cup {NoValue}, new : Value \cup {NoValue}]
TypeOK ==
    /\ mode \in {"up", "stopped", "down", "refused"} /\ ckpt \in BOOLEAN /\ survived \in Nat
    /\ buf \in Seq(Frames) /\ file \in Seq(Frames)
    /\ nextLsn \in Nat \ {0} /\ safe \in 0..Len(file)
    /\ image \in [rows : Rows, seq : Nat, txn : Nat, covered : Nat]
    /\ durable \in Nat /\ tail \in Nat /\ leader \in Thread \cup {NoThread}
    /\ need \in [Thread -> Nat]
    /\ nextTxn \in 1..(MaxTxn + 1)
    /\ status \in [Txn -> {"none", "running", "failed", "staged", "aborting", "ended"}]
    /\ undo \in [Txn -> Seq(Undo)] /\ undoing \in [Txn -> Seq(Undo)]
    /\ lock \in [Row -> Txn \cup {0}]
    /\ db \in Rows /\ base \in Rows
    /\ seq \in Nat /\ seqPrior \in Nat /\ given \in Nat
    /\ acked \subseteq 1..Len(order)

\* The row state the first n commits make of `base`.
Applied(n) == [r \in Row |->
    LET sets == {i \in 1..n : r \in DOMAIN order[i].sets}
    IN  IF sets = {} THEN base[r] ELSE order[Last(sets)].sets[r]]

ExactRecovery ==
    \E n \in 0..Len(order) : acked \subseteq 1..n /\ db' = Applied(n)

\* Recovery loses nothing that was reported and brings back nothing that was
\* not committed: the rows it rebuilds are what the commits up to some point,
\* in commit order, made of the rows before, every reported commit among them
\* and each of them whole; no rolled-back write survives, whether undone by
\* ROLLBACK, by ROLLBACK TO or by a failed commit.
RecoveryIsExact ==
    [][mode = "down" /\ mode' = "up" => ExactRecovery]_vars

\* The same on a disk that fills up, as long as the engine never went on after
\* a failed write to the log: a commit whose flush or fsync fails stops the
\* process, and what it had written of the log does no harm.
FailStopIsExact ==
    [][mode = "down" /\ mode' # "down" /\ survived = 0 =>
          mode' = "up" /\ ExactRecovery]_vars

\* sequence_next: "a crash after the return can then never hand the same number
\* out twice".
NextvalNeverRepeats ==
    [][NextvalReturns => seq > given]_vars

\* Positions climb along the file and the buffer, above the image's watermark
\* once a checkpoint has cut the log, and the next one is past them all: no new
\* record can be taken for a copy by recovery.
Log == file \o buf
PositionsClimb ==
    mode = "up" =>
        /\ \A i, j \in 1..Len(Log) : i < j => Log[i].lsn < Log[j].lsn
        /\ \A i \in 1..Len(Log) : Log[i].lsn < nextLsn
        /\ image.covered < nextLsn

\* No crash leaves a log that open refuses.
OpensAgain == mode # "refused"

\* A staged commit is reported, or the process goes down: no committer waits for
\* ever on a leader that is gone.
StagedCommitsEnd ==
    \A t \in Txn : status[t] = "staged" ~> status[t] # "staged"
=============================================================================
