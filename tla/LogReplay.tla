----------------------------- MODULE LogReplay -----------------------------
(***************************************************************************)
(* Replay of a sequence of log records onto a memory                       *)
(* (nusadb-btree/src/engine.rs: replay, replay_op; engine/prepared.rs:     *)
(* restore_prepared, finish_applied_prepared).  Recovery calls it once, on *)
(* an empty memory, with the image's records and the log's; a standby      *)
(* calls it for every segment, on the memory the segments before left.     *)
(*                                                                         *)
(* A memory is the committed value of every row, and the transactions that *)
(* are prepared: their name, what they wrote, and the rows they lock.      *)
(***************************************************************************)
EXTENDS SequencesExt, FiniteSets, Positions

CONSTANT Row

NoValue == 0
Empty == [rows |-> [r \in Row |-> NoValue], prepared |-> <<>>]

\* Record shapes.  An image holds the whole committed state under the id of a
\* transaction of its own, followed by that transaction's commit marker.
Op(t, r, v)       == [kind |-> "op", txn |-> t, row |-> r, val |-> v]
PrepareBegin(t)   == [kind |-> "begin", txn |-> t]
Prepare(t, g, ls) == [kind |-> "prepare", txn |-> t, gid |-> g, locks |-> ls]
CommitTxn(t)      == [kind |-> "commit", txn |-> t]
AbortTxn(t)       == [kind |-> "abort", txn |-> t]
Image(t, rows)    == [kind |-> "image", txn |-> t, rows |-> rows]

Named(recs, kinds) == {recs[i].txn : i \in {j \in 1..Len(recs) : recs[j].kind \in kinds}}
Aborted(recs) == Named(recs, {"abort"})

\* replay: a commit marker, and no abort marker wherever it stands.
Committed(recs) == Named(recs, {"commit", "image"}) \ Aborted(recs)

\* A function over more arguments, and over fewer.
With(f, x, v) == [y \in DOMAIN f \cup {x} |-> IF y = x THEN v ELSE f[y]]
Without(f, S) == [y \in DOMAIN f \ S |-> f[y]]
Overlay(sets, rows) == [r \in DOMAIN rows |-> IF r \in DOMAIN sets THEN sets[r] ELSE rows[r]]

\* Mutant of InProgram: what a transaction wrote before its prepare counts too,
\* the writes a savepoint undid included.
InProgramAll(recs, i) == TRUE

\* A prepared transaction is read from the records between PrepareBegin and
\* Prepare alone: they supersede what it logged before.
InProgram(recs, i) ==
    LET t == recs[i].txn
        mark(k) == {j \in 1..Len(recs) : recs[j].txn = t /\ recs[j].kind = k}
    IN  t \in Named(recs, {"prepare"}) =>
            \E j \in mark("begin") : j < i /\ ~\E k \in mark("prepare") : j < k /\ k < i

\* What record i makes of the committed rows, the transactions in `live` being
\* prepared in memory already: those end where their marker stands
\* (finish_applied_prepared), and nothing else is read of them.
Effect(recs, live, i) ==
    LET rec == recs[i]
        t == rec.txn
    IN  CASE rec.kind = "commit" /\ t \in DOMAIN live /\ t \notin Aborted(recs) -> live[t].sets
          [] rec.kind = "image" /\ t \in Committed(recs) -> rec.rows
          [] /\ rec.kind = "op" /\ t \notin DOMAIN live /\ t \in Committed(recs)
             /\ InProgram(recs, i) -> With(<<>>, rec.row, rec.val)
          [] OTHER -> <<>>

\* The value the last of a sequence of effects gives to r.
LastSet(effects, r, default) ==
    LET at == {i \in 1..Len(effects) : r \in DOMAIN effects[i]}
    IN  IF at = {} THEN default ELSE effects[CHOOSE i \in at : \A j \in at : j <= i][r]

\* A transaction the records leave waiting: its name and locks are in its
\* Prepare record, what it wrote is in its program.
Waiter(recs, t) ==
    LET p == CHOOSE i \in 1..Len(recs) : recs[i].kind = "prepare" /\ recs[i].txn = t
        program == [i \in 1..Len(recs) |->
                        IF recs[i].kind = "op" /\ recs[i].txn = t /\ InProgram(recs, i)
                        THEN With(<<>>, recs[i].row, recs[i].val) ELSE <<>>]
        written == UNION {DOMAIN program[i] : i \in 1..Len(recs)}
    IN  [gid |-> recs[p].gid, locks |-> recs[p].locks, seq |-> p,
         sets |-> [r \in written |-> LastSet(program, r, NoValue)]]

\* replay: one pass in log order; the prepared transactions still waiting come
\* back on top of the committed state (restore_prepared).
Replay(recs, mem) ==
    LET effects == [i \in 1..Len(recs) |-> Effect(recs, mem.prepared, i)]
        live == DOMAIN mem.prepared \ Named(recs, {"commit", "abort"})
        waiting == Named(recs, {"prepare"})
                   \ (DOMAIN mem.prepared \cup Committed(recs) \cup Aborted(recs))
    IN  [rows |-> [r \in Row |-> LastSet(effects, r, mem.rows[r])],
         prepared |-> [t \in live \cup waiting |-> IF t \in live THEN mem.prepared[t]
                                                   ELSE Waiter(recs, t)]]

\* restore_prepared refuses two of them that hold the same lock.
LocksClash(mem) ==
    \E t, u \in DOMAIN mem.prepared :
        t # u /\ mem.prepared[t].locks \cap mem.prepared[u].locks # {}

\* open_impl: positions climb above the image's watermark; a frame at or below
\* the last one accepted is a copy.
Climbing(frames, covered) ==
    LET fresh(i) == /\ frames[i].lsn > covered
                    /\ \A j \in 1..(i - 1) : frames[j].lsn < frames[i].lsn
        at == {i \in 1..Len(frames) : fresh(i)}
    IN  [i \in 1..Cardinality(at) |-> frames[Nth(at, i)].rec]

\* The sequences `parts` one after the other: by place in parts, then in the part.
Concat(parts) ==
    LET at == UNION {{<<i, k>> : k \in 1..Len(parts[i])} : i \in 1..Len(parts)}
        upTo(p) == {q \in at : q[1] < p[1] \/ (q[1] = p[1] /\ q[2] <= p[2])}
        nth(n) == CHOOSE p \in at : Cardinality(upTo(p)) = n
    IN  [n \in 1..Cardinality(at) |-> parts[nth(n)[1]][nth(n)[2]]]

\* The records a transaction's prepare writes (prepare_records).
PrepareRecords(t, g, locks, sets) ==
    LET rows == SetToSeq(DOMAIN sets)
    IN  <<PrepareBegin(t)>> \o [i \in 1..Len(rows) |-> Op(t, rows[i], sets[rows[i]])]
        \o <<Prepare(t, g, locks)>>

=============================================================================
