--------------------------- MODULE DeferredChecks ---------------------------
(***************************************************************************)
(* The deferred constraint checks of one transaction, from                 *)
(* src/crates/nusadb-sql/src/executor/deferred.rs: the queue of keys a      *)
(* transaction still owes a check for, the SET CONSTRAINTS mode, and the    *)
(* marks that make both follow the transaction's savepoints.               *)
(*                                                                         *)
(* The module holds no state of its own: the operators take and return the *)
(* record a transaction is, which the connection (Connection) keeps.        *)
(*                                                                         *)
(* A constraint is a unique key over the rows it is declared on.  A write   *)
(* inserts or deletes one row holding a key; the key is broken while more   *)
(* than one row holds it.  A foreign key (a child needs a parent) and an    *)
(* exclusion constraint have the same shape: a write that may break, one    *)
(* that mends, and a check that reads the state being committed.            *)
(***************************************************************************)
EXTENDS Naturals, Sequences, FiniteSets, SequencesExt, Positions

CONSTANTS
    Con,            \* the deferrable constraints
    Key,            \* the keys rows can hold
    Deferred,       \* the constraints declared INITIALLY DEFERRED
    WholeAfter      \* a constraint with more keys than this is checked whole

ASSUME DeferredAssumption == WholeAfter \in Nat \ {0}

\* SET CONSTRAINTS ... DEFERRED or IMMEDIATE, or neither yet.
Unset == "unset"
Modes == {Unset, "deferred", "immediate"}

-----------------------------------------------------------------------------
(* The queue                                                               *)

\* An entry asks for the check of one key, or of the whole constraint.
Whole == "whole"
Entry == [con : Con, key : Key \cup {Whole}]

NoMode == [all |-> Unset, named |-> [c \in Con |-> Unset]]

\* No registry state: nothing deferred, no mode set, no savepoint marked.
NoQueue == [on |-> FALSE, entries |-> <<>>, marks |-> <<>>, mode |-> NoMode]

\* Whether a constraint is deferred now: its own setting, then ALL's, then how
\* it was declared.
Defers(q, c) ==
    LET named == q.mode.named[c] IN
    IF named # Unset THEN named = "deferred"
    ELSE IF q.mode.all # Unset THEN q.mode.all = "deferred" ELSE c \in Deferred

Of(c) == [con |-> c, key |-> Whole]
KeysOf(es, c) == {i \in 1..Len(es) : es[i].con = c /\ es[i].key # Whole}
Outside(es, C) == {i \in 1..Len(es) : es[i].con \notin C}
Others(es, C) == Pick(es, Outside(es, C))
IsWhole(es, c) == Of(c) \in Range(es)
First(es, c) == CHOOSE i \in 1..Len(es) : es[i].con = c /\ \A j \in 1..(i - 1) : es[j].con # c

\* Mutant of CollapsedLen: the whole-table check is not counted before the mark.
CollapsedLenKept(es, c, len) == Rank(Outside(es, {c}), len)

\* Where a savepoint's length lands when c's keys become one entry.
CollapsedLen(es, c, len) ==
    Rank(Outside(es, {c}), len) + (IF First(es, c) <= len THEN 1 ELSE 0)

\* collapse: one whole-table check, in the place of the first key.
Collapse(q, c) ==
    LET first == First(q.entries, c) IN
    [q EXCEPT
        !.entries = Pick([@ EXCEPT ![first] = Of(c)], Outside(@, {c}) \cup {first}),
        !.marks = [i \in DOMAIN @ |->
                      [@[i] EXCEPT !.len = CollapsedLen(q.entries, c, q.marks[i].len)]]]

\* push, with the state created by the first of them.
Push(q, c, k) ==
    IF IsWhole(q.entries, c) THEN q
    ELSE IF Cardinality(KeysOf(q.entries, c)) >= WholeAfter THEN Collapse(q, c)
    ELSE [q EXCEPT !.on = TRUE, !.entries = Append(@, [con |-> c, key |-> k])]

\* Mutant of Retain: the savepoints' marks stay where they were.
RetainUnmoved(q, C) == [q EXCEPT !.entries = Others(@, C)]

\* retain: drop the entries of C, moving every mark with them.
Retain(q, C) ==
    [q EXCEPT
        !.entries = Others(@, C),
        !.marks = [i \in DOMAIN @ |->
                      [@[i] EXCEPT !.len = Rank(Outside(q.entries, C), q.marks[i].len)]]]

-----------------------------------------------------------------------------
(* The transaction: its writes, the engine's savepoints, and the queue      *)

Row == [con : Con, key : Key, op : {"insert", "delete"}]
NoTxn == [writes |-> <<>>, saves |-> <<>>, queue |-> NoQueue]

\* How many rows hold a key after the writes ws, over the committed rows.
Holding(rows, ws, c, k) ==
    LET did(op) == Cardinality({i \in 1..Len(ws) : ws[i] = [con |-> c, key |-> k, op |-> op]}) IN
    (rows[c, k] + did("insert")) - did("delete")

Broken(rows, ws) == {ck \in Con \X Key : Holding(rows, ws, ck[1], ck[2]) > 1}

\* check_entries: every key asked about is held by one row at most.
Passes(rows, ws, es) ==
    \A e \in Range(es) : \A ck \in Broken(rows, ws) :
        ~(ck[1] = e.con /\ e.key \in {ck[2], Whole})

\* The keys x broke that nothing in its queue asks about.
Unchecked(rows, x) ==
    {ck \in Broken(rows, x.writes) :
        ~\E e \in Range(x.queue.entries) : e.con = ck[1] /\ e.key \in {ck[2], Whole}}

Saved(x, n) == LastNamed(x.saves, n)
Marked(x, n) == LastNamed(x.queue.marks, n)
HasSave(x, n) == Saved(x, n) > 0

\* savepoint: the engine's, which replaces one of the same name, and a mark if
\* the transaction has deferred anything.
Savepoint(x, n) ==
    [x EXCEPT
        !.saves = Append(Pick(@, {i \in 1..Len(@) : @[i].name # n}),
                         [name |-> n, len |-> Len(x.writes)]),
        !.queue.marks =
            IF x.queue.on THEN Append(@, [name |-> n, len |-> Len(x.queue.entries),
                                          mode |-> x.queue.mode])
                          ELSE @]

\* rollback_to: a savepoint older than the state has no mark and clears it.
TrimmedTo(x, n) ==
    LET at == Marked(x, n) IN
    IF at = 0 THEN NoQueue
    ELSE [x.queue EXCEPT !.marks = SubSeq(@, 1, at),
                         !.entries = SubSeq(@, 1, x.queue.marks[at].len),
                         !.mode = x.queue.marks[at].mode]

RolledBackTo(x, n) ==
    [writes |-> SubSeq(x.writes, 1, x.saves[Saved(x, n)].len),
     saves  |-> SubSeq(x.saves, 1, Saved(x, n)),
     queue  |-> TrimmedTo(x, n)]

\* release_savepoint: the savepoint and every later one are forgotten.
Released(x, n) ==
    [x EXCEPT !.saves = SubSeq(@, 1, Saved(x, n) - 1),
              !.queue.marks = SubSeq(@, 1, IF Marked(x, n) = 0 THEN 0 ELSE Marked(x, n) - 1)]

\* The mark every statement of an open transaction runs under.
Statement == "statement"

\* run_statement_atomically: what a statement leaves of the transaction it made
\* `did` of, when it succeeds and when it fails.
Succeeded(did) == Released(did, Statement)
Failed(did) == Released(RolledBackTo(did, Statement), Statement)

\* One row write, up to the check of a constraint that is not deferred.
Wrote(x, w) ==
    [x EXCEPT !.writes = Append(@, w),
              !.queue = IF w.op = "insert" /\ Defers(@, w.con) THEN Push(@, w.con, w.key)
                                                               ELSE @]

\* The check of a constraint that is not deferred, at the end of the statement.
Admits(rows, x, w) ==
    \/ w.op = "delete" \/ Defers(x.queue, w.con)
    \/ <<w.con, w.key>> \notin Broken(rows, Append(x.writes, w))

\* SET CONSTRAINTS: the mode first, which creates the state.
ModeSet(x, C, mode) ==
    [x EXCEPT
        !.queue.on = TRUE,
        !.queue.mode = IF C = Con THEN [all |-> mode, named |-> [c \in Con |-> Unset]]
                       ELSE [@ EXCEPT !.named = [c \in Con |-> IF c \in C THEN mode
                                                               ELSE x.queue.mode.named[c]]]]

Due(x, C) == Pick(x.queue.entries, {i \in 1..Len(x.queue.entries) : x.queue.entries[i].con \in C})
=============================================================================
