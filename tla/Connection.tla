----------------------------- MODULE Connection -----------------------------
(***************************************************************************)
(* One client connection of the wire server,                               *)
(* src/crates/nusadb-wire/src/server.rs: the transaction state the simple   *)
(* query protocol keeps (Auto, Active, Failed), the implicit transaction of *)
(* a query that holds several statements, and what a transaction's end has  *)
(* to settle besides the engine: the deferred checks (DeferredChecks), the  *)
(* parameters SET inside it, its cursors and its queued NOTIFYs.            *)
(*                                                                         *)
(* A step is one statement.  A connection runs its statements one after the *)
(* other, so what is hard is not an interleaving but the length of a legal  *)
(* sequence and the statements that fail: four stores follow one            *)
(* transaction, each by its own rules, and must agree at every end of it.   *)
(***************************************************************************)
EXTENDS DeferredChecks

CONSTANTS
    Value,          \* values a parameter can be SET to
    Cursor,         \* cursor names
    SaveName,       \* savepoint names
    MaxRows,        \* bound: rows that hold one key
    Budgets         \* bound: how many statements of each kind a transaction runs

\* `None` stands for a value that is absent (Option::None).
None == "none"

ASSUME ConnectionAssumption ==
    /\ None \notin Value
    /\ MaxRows \in Nat \ {0}
    /\ Statement \notin SaveName     \* its name has a NUL in it

VARIABLES
    conn,           \* TxnState, the batch being run, and the pub/sub flag
    rows,           \* committed: how many rows hold a constraint's key
    txn,            \* the open transaction (NoTxn in Auto)
    guc,            \* one parameter: live value, backup, pending
    cursors,        \* CursorStore
    notify,         \* PendingNotifications: how many are queued, and the marks
    hist            \* what ought to hold (history)

vars == <<conn, rows, txn, guc, cursors, notify, hist>>

NoCursor == [hold |-> FALSE, pending |-> FALSE, born |-> None]
NoNotify == [queued |-> 0, marks |-> <<>>]

\* A NOTIFY has its place among the writes of its transaction: this is where a
\* ROLLBACK TO decides whether it still happened.  The engine logs nothing.
Notified == [con |-> None, key |-> None, op |-> "notify"]
Notifies(x) == Cardinality({i \in 1..Len(x.writes) : x.writes[i] = Notified})

Init ==
    /\ conn = [state |-> "Auto", batch |-> "none", implicit |-> FALSE, pubsub |-> FALSE]
    /\ rows \in [Con \X Key -> {0, 1}]
    /\ txn = NoTxn
    /\ guc = [live |-> Unset, backup |-> None, pending |-> None]
    /\ cursors = [n \in Cursor |-> NoCursor]
    /\ notify = NoNotify
    /\ \E b \in Budgets : hist = [base |-> Unset, sess |-> None, unseen |-> None,
               lost |-> None, checked |-> 0, forgot |-> FALSE, clean |-> TRUE, stmts |-> 0, asides |-> 0,
               budget |-> b]

-----------------------------------------------------------------------------
(* Parameters                                                              *)

InBlock == conn.state # "Auto"

\* Mutant of RecordGuc: every SET of a transaction renews the backup.
RecordGucLast(g, v, local) ==
    [g EXCEPT !.backup = g.live, !.pending = IF local THEN @ ELSE v]

\* record_txn_guc: the first write keeps the value to go back to.
RecordGuc(g, v, local) ==
    [g EXCEPT !.backup = IF @ = None THEN g.live ELSE @,
              !.pending = IF local THEN @ ELSE v]

\* end_txn_gucs.
EndGucs(g, committed) ==
    [live    |-> IF g.backup = None THEN g.live
                 ELSE IF committed /\ g.pending # None THEN g.pending ELSE g.backup,
     backup  |-> None,
     pending |-> None]

\* What the client's statements make of the parameter (history).  `base`: what
\* they ask for between transactions; `sess`: what the last plain SET or RESET
\* of the open transaction asks for.  `unseen`: the value a RESET ALL of this
\* transaction should have cleared and did not, as a SET LOCAL p TO DEFAULT hid
\* it; `lost`: the same once that transaction was kept.
Standing(h) == IF h.lost # None THEN h.lost ELSE h.base
Beneath(h) ==
    IF h.unseen # None THEN h.unseen ELSE IF h.sess # None THEN h.sess ELSE Standing(h)

-----------------------------------------------------------------------------
(* Cursors                                                                 *)

\* CursorStore::end_transaction.  `born` is history: what became of the
\* transaction the cursor was declared in.
EndCursors(cs, committed, truly) ==
    [n \in Cursor |->
        IF cs[n].hold /\ (committed \/ ~cs[n].pending)
        THEN [cs[n] EXCEPT !.pending = FALSE,
                           !.born = IF @ = "open" THEN truly ELSE @]
        ELSE NoCursor]

Open(n) == cursors[n].born # None
HasPendingHold == \E n \in Cursor : cursors[n].hold /\ cursors[n].pending

\* Mutant of CommittedBy: any COMMIT that was answered without an error.
CommittedByAny(control, ok, old) == ok /\ control = "commit"

\* settle_cursors_after_stmt: a COMMIT of a failed block rolls back.
CommittedBy(control, ok, old) == ok /\ old = "Active" /\ control = "commit"

-----------------------------------------------------------------------------
(* Queued NOTIFYs                                                          *)

Place(n) == LastNamed(notify.marks, n)

NotifySavepoint(n) ==
    [notify EXCEPT !.marks = Append(@, [name |-> n, len |-> notify.queued])]
NotifyRelease(n) ==
    IF Place(n) = 0 THEN notify
    ELSE [notify EXCEPT !.marks = SubSeq(@, 1, Place(n) - 1)]

\* Mutant of NotifyRollbackTo: the outermost savepoint of that name.
NotifyRollbackToFirst(n) ==
    LET at == SelectInSeq(notify.marks, LAMBDA m : m.name = n) IN
    IF at = 0 THEN notify
    ELSE [queued |-> notify.marks[at].len, marks |-> SubSeq(notify.marks, 1, at)]

NotifyRollbackTo(n) ==
    IF Place(n) = 0 THEN notify
    ELSE [queued |-> notify.marks[Place(n)].len, marks |-> SubSeq(notify.marks, 1, Place(n))]

-----------------------------------------------------------------------------
(* The statement loop                                                      *)

\* A batch whose statement failed only has its end left to run.  Bound: nothing
\* is explored past the commit of a key whose check was lost.
Ready == conn.batch # "failed" /\ (hist.forgot => InBlock)

\* Of the statements of a transaction a budget is explored: so many that write
\* rows or name a savepoint or a constraint, and so many of the others.  Bound:
\* a connection whose NOTIFY queue went astray only ends its transactions.
Room == hist.clean /\ hist.stmts < hist.budget.stmts
Aside == hist.clean /\ hist.asides < hist.budget.asides
Used(h) == [h EXCEPT !.stmts = @ + 1]
UsedAside(h) == [h EXCEPT !.asides = @ + 1]

\* run_simple_batch: a statement outside a block opens the implicit transaction.
Entered ==
    IF conn.batch = "running" /\ conn.state = "Auto"
    THEN [conn EXCEPT !.state = "Active", !.implicit = TRUE, !.pubsub = FALSE]
    ELSE conn

\* The answer to a statement that left the connection as c: an error stops a batch.
Answered(c, ok) ==
    conn' = IF ok \/ c.batch = "none" THEN c ELSE [c EXCEPT !.batch = "failed"]
Stays(ok) == Answered(conn, ok)

\* The transaction ended: nothing of it is left.
Fresh(h) == [h EXCEPT !.sess = None, !.unseen = None, !.checked = 0,
                     !.stmts = 0, !.asides = 0]

\* What the parameters ought to be once a transaction ended.
Settled(h, kept) ==
    IF kept /\ h.sess # None
    THEN [Fresh(h) EXCEPT !.base = h.sess, !.lost = h.unseen]
    ELSE Fresh(h)

\* The transaction ends.  `kept`: it committed or was prepared, as the
\* parameters see it; `truly`: what became of it; `control` and `ok`: the
\* statement and its answer, as the cursors and the NOTIFY queue see it.
Ends(kept, truly, control, ok, c) ==
    LET old == conn.state IN
    /\ txn' = NoTxn
    /\ guc' = EndGucs(guc, kept)
    /\ cursors' = IF old = "Auto" THEN cursors
                  ELSE EndCursors(cursors, CommittedBy(control, ok, old), truly)
    /\ notify' = IF ok THEN NoNotify ELSE notify
    /\ hist' = [Settled(hist, kept) EXCEPT
                   !.clean = ok \/ (@ /\ notify = NoNotify),
                   !.forgot = @ /\ \E ck \in Con \X Key : rows'[ck] > 1]
    /\ Answered([c EXCEPT !.state = "Auto", !.implicit = FALSE, !.pubsub = FALSE], ok)

Applied(ws) == [ck \in Con \X Key |-> Holding(rows, ws, ck[1], ck[2])]

\* deferred::commit, with the rollback of a commit that failed.
Commits == Passes(rows, txn.writes, txn.queue.entries) /\ rows' = Applied(txn.writes)

-----------------------------------------------------------------------------
(* Transaction control                                                     *)

\* BEGIN in Auto, in a block (where it is accepted and empties the NOTIFY
\* queue), and in a batch's implicit transaction, which becomes a block.
Begin ==
    /\ Ready
    /\ IF conn.implicit
       THEN /\ Answered([conn EXCEPT !.implicit = FALSE], TRUE)
            /\ UNCHANGED <<notify, hist>>
       ELSE /\ Answered(IF InBlock THEN conn
                        ELSE [conn EXCEPT !.state = "Active", !.pubsub = FALSE], TRUE)
            /\ notify' = NoNotify
            /\ hist' = [hist EXCEPT !.clean = ~InBlock \/ (@ /\ notify = NoNotify)]
    /\ UNCHANGED <<rows, txn, guc, cursors>>

CommitActive ==
    /\ Ready
    /\ conn.state = "Active"
    /\ Commits
    /\ Ends(TRUE, "committed", "commit", TRUE, conn)

\* A deferred violation, a conflict or the engine's failure.
CommitRefused ==
    /\ Ready
    /\ conn.state = "Active"
    /\ UNCHANGED rows
    /\ Ends(FALSE, "aborted", "commit", FALSE, conn)

\* COMMIT of a failed block rolls it back and is no error.
CommitFailedBlock ==
    /\ Ready
    /\ conn.state = "Failed"
    /\ UNCHANGED rows
    /\ Ends(FALSE, "aborted", "commit", TRUE, conn)

\* ROLLBACK, in any state; and COMMIT in Auto, which is one too.
Rollback ==
    /\ Ready
    /\ UNCHANGED rows
    /\ Ends(FALSE, "aborted", "rollback", TRUE, conn)

\* PREPARE TRANSACTION.  What becomes of the prepared transaction is
\* TwoPhase's; the connection leaves it either way.
PrepareTransaction ==
    /\ Ready
    /\ conn.state = "Active" /\ ~conn.implicit
    /\ ~conn.pubsub /\ ~HasPendingHold
    /\ Passes(rows, txn.writes, txn.queue.entries)
    /\ UNCHANGED rows
    /\ Ends(TRUE, "prepared", "prepare", TRUE, conn)

\* The session's refusals, a deferred violation and the engine's refusals.
PrepareRefused ==
    /\ Ready
    /\ conn.state = "Active" /\ ~conn.implicit
    /\ UNCHANGED rows
    /\ Ends(FALSE, "aborted", "prepare", FALSE, conn)

PrepareFailedBlock ==
    /\ Ready
    /\ conn.state = "Failed" /\ ~conn.implicit
    /\ UNCHANGED rows
    /\ Ends(FALSE, "aborted", "prepare", TRUE, conn)

-----------------------------------------------------------------------------
(* Savepoints                                                              *)

SetSavepoint(n) ==
    /\ Ready
    /\ conn.state = "Active" /\ ~conn.implicit /\ Room
    /\ txn' = Savepoint(txn, n)
    /\ notify' = NotifySavepoint(n)
    /\ hist' = Used(hist)
    /\ Stays(TRUE)
    /\ UNCHANGED <<rows, guc, cursors>>

\* Also the way out of a failed block.
RollbackToSavepoint(n) ==
    /\ Ready
    /\ InBlock /\ ~conn.implicit /\ Room
    /\ HasSave(txn, n)
    /\ txn' = RolledBackTo(txn, n)
    /\ notify' = NotifyRollbackTo(n)
    /\ Answered([conn EXCEPT !.state = "Active"], TRUE)
    /\ hist' = [Used(hist) EXCEPT
                  !.checked = IF @ > Len(txn'.writes) THEN Len(txn'.writes) ELSE @,
                  !.forgot = @ \/ (hist.checked > Len(txn'.writes) /\ Unchecked(rows, txn') # {})]
    /\ UNCHANGED <<rows, guc, cursors>>

ReleaseSavepoint(n) ==
    /\ Ready
    /\ conn.state = "Active" /\ ~conn.implicit /\ Room
    /\ HasSave(txn, n)
    /\ txn' = Released(txn, n)
    /\ notify' = NotifyRelease(n)
    /\ hist' = Used(hist)
    /\ Stays(TRUE)
    /\ UNCHANGED <<rows, guc, cursors>>

-----------------------------------------------------------------------------
(* Statements                                                              *)

Writable(x, w) ==
    LET held == Holding(rows, x.writes, w.con, w.key) IN
    IF w.op = "delete" THEN held > 0 ELSE held < MaxRows

\* An error that changes nothing: a statement of a failed block, a savepoint
\* statement outside a block or of an unknown name.  It matters to a batch.
StatementRefused ==
    /\ conn.batch = "running"
    /\ Stays(FALSE)
    /\ UNCHANGED <<rows, txn, guc, cursors, notify, hist>>

\* A row write in a transaction, under the statement's own mark.
WriteRow(w) ==
    LET did == Wrote(Savepoint(txn, Statement), w) IN
    /\ Ready /\ Entered.state = "Active" /\ Room
    /\ Writable(txn, w)
    /\ Admits(rows, txn, w)
    /\ txn' = Succeeded(did)
    /\ Answered(Entered, TRUE)
    /\ hist' = Used(hist)
    /\ UNCHANGED <<rows, guc, cursors, notify>>

\* The same, ending in an error: a violation, or one of a later row.
WriteRowFails(w) ==
    LET did == Wrote(Savepoint(txn, Statement), w) IN
    /\ Ready /\ Entered.state = "Active" /\ Room
    /\ Writable(txn, w)
    /\ txn' = Failed(did)
    /\ Answered([Entered EXCEPT !.state = "Failed"], FALSE)
    /\ hist' = Used(hist)
    /\ UNCHANGED <<rows, guc, cursors, notify>>

\* A row write outside a block, in a transaction of its own.
AutoWrite(w) ==
    LET did == Wrote(NoTxn, w) IN
    /\ Ready /\ conn.batch = "none" /\ conn.state = "Auto"
    /\ Writable(NoTxn, w)
    /\ Admits(rows, NoTxn, w)
    /\ Passes(rows, did.writes, did.queue.entries)
    /\ rows' = Applied(did.writes)
    /\ UNCHANGED <<conn, txn, guc, cursors, notify, hist>>

\* SET CONSTRAINTS C DEFERRED | IMMEDIATE.
SetConstraints(C, mode) ==
    LET did == ModeSet(Savepoint(txn, Statement), C, mode)
        due == Due(did, C)
    IN
    /\ Ready /\ Entered.state = "Active" /\ Room
    /\ IF mode = "immediate" /\ ~Passes(rows, txn.writes, due)
       THEN /\ txn' = Failed(did)
            /\ Answered([Entered EXCEPT !.state = "Failed"], FALSE)
            /\ hist' = Used(hist)
       ELSE /\ txn' = Succeeded(IF mode = "immediate"
                                THEN [did EXCEPT !.queue = Retain(@, C)] ELSE did)
            /\ Answered(Entered, TRUE)
            /\ hist' = IF mode = "immediate" /\ due # <<>>
                       THEN [Used(hist) EXCEPT !.checked = Len(txn.writes)] ELSE Used(hist)
    /\ UNCHANGED <<rows, guc, cursors, notify>>

\* NOTIFY: queued in a transaction, delivered at once outside one (no state).
\* Only a NOTIFY sent on its own is noticed for PREPARE TRANSACTION.
Notify ==
    /\ Ready /\ Entered.state = "Active" /\ Aside
    /\ notify' = [notify EXCEPT !.queued = @ + 1]
    /\ txn' = [txn EXCEPT !.writes = Append(@, Notified)]
    /\ Answered([Entered EXCEPT !.pubsub = @ \/ conn.batch = "none"], TRUE)
    /\ hist' = UsedAside(hist)
    /\ UNCHANGED <<rows, guc, cursors>>

\* A NOTIFY of a failed block is refused, and noticed all the same.
NotifyRefused ==
    /\ conn.batch = "none" /\ conn.state = "Failed"
    /\ conn' = [conn EXCEPT !.pubsub = TRUE]
    /\ UNCHANGED <<rows, txn, guc, cursors, notify, hist>>

\* SET [LOCAL] p = v, and RESET p with v unset: also in a failed block.
SetVariable(v, local) ==
    LET inTxn == Entered.state # "Auto" IN
    /\ Ready
    /\ local => inTxn
    /\ inTxn => Aside
    /\ guc' = [(IF inTxn THEN RecordGuc(guc, v, local) ELSE guc) EXCEPT !.live = v]
    /\ hist' = IF ~inTxn THEN [hist EXCEPT !.base = v, !.lost = None]
               ELSE IF local THEN UsedAside(hist)
               ELSE [UsedAside(hist) EXCEPT !.sess = v, !.unseen = None]
    /\ Answered(Entered, TRUE)
    /\ UNCHANGED <<rows, txn, cursors, notify>>

\* RESET ALL: the parameters that have a value now.
ResetAll ==
    LET inTxn == Entered.state # "Auto" IN
    /\ Ready
    /\ inTxn => Aside
    /\ guc' = [(IF inTxn /\ guc.live # Unset THEN RecordGuc(guc, Unset, FALSE) ELSE guc)
                  EXCEPT !.live = Unset]
    /\ hist' = IF inTxn
               THEN [UsedAside(hist) EXCEPT
                       !.sess = Unset,
                       !.unseen = IF guc.live = Unset /\ Beneath(hist) # Unset
                                  THEN Beneath(hist) ELSE None]
               ELSE [hist EXCEPT !.base = Unset, !.lost = None]
    /\ Answered(Entered, TRUE)
    /\ UNCHANGED <<rows, txn, cursors, notify>>

\* DECLARE n CURSOR [WITH HOLD], in a transaction and in one of its own.
Declare(n, hold) ==
    /\ Ready /\ Entered.state # "Failed"
    /\ hold \/ Entered.state = "Active"
    /\ Entered.state = "Active" => Aside
    /\ ~Open(n)
    /\ LET declared == [cursors EXCEPT
                          ![n] = [hold |-> hold, pending |-> TRUE, born |-> "open"]] IN
       cursors' = IF Entered.state = "Active" THEN declared
                  ELSE EndCursors(declared, TRUE, "committed")
    /\ Answered(Entered, TRUE)
    /\ hist' = IF Entered.state = "Active" THEN UsedAside(hist) ELSE hist
    /\ UNCHANGED <<rows, txn, guc, notify>>

Close(n) ==
    /\ Ready /\ Entered.state # "Failed"
    /\ Entered.state = "Active" => Aside
    /\ Open(n)
    /\ cursors' = [cursors EXCEPT ![n] = NoCursor]
    /\ Answered(Entered, TRUE)
    /\ hist' = IF Entered.state = "Active" THEN UsedAside(hist) ELSE hist
    /\ UNCHANGED <<rows, txn, guc, notify>>

\* Any other statement that fails: it undoes itself and fails its transaction.
StatementFails ==
    /\ Ready /\ Entered.state = "Active"
    /\ Answered([Entered EXCEPT !.state = "Failed"], FALSE)
    /\ UNCHANGED <<rows, txn, guc, cursors, notify, hist>>

-----------------------------------------------------------------------------
(* A query of several statements                                           *)

BatchBegins ==
    /\ conn.batch = "none"
    /\ conn' = [conn EXCEPT !.batch = "running"]
    /\ UNCHANGED <<rows, txn, guc, cursors, notify, hist>>

\* The last statement ran, or one failed, outside an implicit transaction.
BatchEnds ==
    /\ conn.batch # "none" /\ ~conn.implicit
    /\ conn' = [conn EXCEPT !.batch = "none"]
    /\ UNCHANGED <<rows, txn, guc, cursors, notify, hist>>

\* end_implicit: the outcome is what the engine made of it, and the statement
\* counts as answered whatever it was.
ImplicitCommits ==
    /\ conn.batch = "running" /\ conn.implicit /\ conn.state = "Active"
    /\ Commits
    /\ Ends(TRUE, "committed", "commit", TRUE, [conn EXCEPT !.batch = "none"])

ImplicitRollsBack ==
    /\ conn.batch # "none" /\ conn.implicit
    /\ UNCHANGED rows
    /\ Ends(FALSE, "aborted", "rollback", TRUE, [conn EXCEPT !.batch = "none"])

-----------------------------------------------------------------------------
Next ==
    \/ Begin \/ CommitActive \/ CommitRefused \/ CommitFailedBlock \/ Rollback
    \/ PrepareTransaction \/ PrepareRefused \/ PrepareFailedBlock
    \/ StatementRefused \/ StatementFails \/ Notify \/ NotifyRefused \/ ResetAll
    \/ \E n \in SaveName : SetSavepoint(n) \/ RollbackToSavepoint(n) \/ ReleaseSavepoint(n)
    \/ \E w \in Row : WriteRow(w) \/ WriteRowFails(w) \/ AutoWrite(w)
    \/ \E C \in {Con} \cup {{c} : c \in Con}, mode \in Modes \ {Unset} : SetConstraints(C, mode)
    \/ \E v \in Value \cup {Unset}, local \in BOOLEAN : SetVariable(v, local)
    \/ \E n \in Cursor : Close(n) \/ \E hold \in BOOLEAN : Declare(n, hold)
    \/ BatchBegins \/ BatchEnds \/ ImplicitCommits \/ ImplicitRollsBack

Spec == Init /\ [][Next]_vars

-----------------------------------------------------------------------------
(* Properties                                                              *)

Climb(ms, len) ==
    /\ \A i \in DOMAIN ms : ms[i].len \in 0..len
    /\ \A i, j \in DOMAIN ms : i < j => ms[i].len <= ms[j].len

\* Types, and the marks of the three stores that follow savepoints: each points
\* into the sequence it cuts and they climb, so a ROLLBACK TO can only shorten
\* (Mark::len, PendingNotifications::marks, the engine's savepoints).
TypeOK ==
    /\ conn \in [state : {"Auto", "Active", "Failed"}, batch : {"none", "running", "failed"},
                 implicit : BOOLEAN, pubsub : BOOLEAN]
    /\ conn.implicit => conn.state # "Auto" /\ conn.batch # "none"
    /\ rows \in [Con \X Key -> 0..MaxRows]
    /\ conn.state = "Auto" => txn = NoTxn
    /\ Climb(txn.saves, Len(txn.writes))
    /\ Range(txn.queue.entries) \subseteq Entry
    /\ Climb(txn.queue.marks, Len(txn.queue.entries))
    /\ ~txn.queue.on => txn.queue = NoQueue
    /\ notify.queued \in Nat
    /\ Climb(notify.marks, notify.queued)
    /\ guc \in [live : Value \cup {Unset}, backup : Value \cup {Unset, None},
                pending : Value \cup {Unset, None}]

\* A transaction owes a check for every key it broke: whatever statements failed,
\* whatever savepoints it went back to and however its queue was collapsed to
\* whole-table checks, no key is held twice by the transaction's own writes
\* without an entry that COMMIT will run, and no committed key is held twice
\* (deferred::commit, collapse, retain, rollback_to).  The one exception is
\* `forgot`: SET CONSTRAINTS IMMEDIATE drops the entries it checked, and a
\* ROLLBACK TO behind it takes back the writes that made the check pass.
BrokenKeysAreOwed ==
    hist.forgot \/ (Unchecked(rows, txn) = {} /\ \A ck \in Con \X Key : rows[ck] <= 1)

\* Between transactions a parameter has the value the client's statements left
\* it: the last plain SET or RESET of a transaction that was kept, and otherwise
\* the value from before it, with nothing of a SET LOCAL, of a failed COMMIT or
\* of a statement of a failed block left over (end_txn_gucs).  The one exception
\* is `lost`, of a transaction that was kept: reset_all_gucs looks only at the
\* parameters that have a value now, so a RESET ALL that came while SET LOCAL p
\* TO DEFAULT hid p does not clear it, and p then has exactly the value that
\* RESET ALL should have cleared, until it is next SET or RESET; the function's
\* comment has it "clear every parameter the connection set".  A transaction
\* that was rolled back, its RESET ALL included, changes nothing.
SettingsSettle ==
    conn.state = "Auto" => guc.live = Standing(hist) /\ guc.backup = None

\* A cursor outlives its transaction only WITH HOLD and only if that transaction
\* committed: not one that was rolled back, not a failed block answered by
\* COMMIT, not one that was prepared (end_transaction, has_pending_hold).
CursorsSettle ==
    conn.state = "Auto" =>
        \A n \in Cursor : Open(n) =>
            cursors[n].hold /\ ~cursors[n].pending /\ cursors[n].born = "committed"

\* The NOTIFY queue, which a COMMIT delivers, holds exactly the NOTIFYs of the
\* open transaction that no ROLLBACK TO took back (PendingNotifications).  It
\* does not once a COMMIT or a PREPARE was refused with NOTIFYs queued, or a
\* BEGIN was repeated in a block: `clean` says so until the queue is next emptied.
QueueFollowsTransaction ==
    hist.clean => notify.queued = Notifies(txn)
=============================================================================
