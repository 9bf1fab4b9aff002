-------------------------- MODULE EngineWalProofs --------------------------
(***************************************************************************)
(* What a crash leaves of the engine: as long as it never went on after a  *)
(* failed write to its log, recovery rebuilds the rows some prefix of the  *)
(* commits made, every reported one among them, the log is never refused,  *)
(* and nextval never hands a number out again.                             *)
(*                                                                         *)
(* A crash cuts the log somewhere behind its fsynced part, so the heart of *)
(* the invariant speaks of every such cut: replaying the log up to it over *)
(* the image gives what the commits with a marker before it made of `base`.*)
(* Appending an operation adds a cut that replays like the last one, and   *)
(* appending a commit marker one that takes in the transaction's           *)
(* operations; its row locks have kept every other transaction's           *)
(* operations on those rows before them.                                   *)
(***************************************************************************)
EXTENDS EngineWal, WellFoundedInduction, TLAPS

-----------------------------------------------------------------------------
(* Replaying a part of the log                                             *)

IsCommit(f, t) == f.rec.kind = "commit" /\ f.rec.txn = t
IsAbort(f, t)  == f.rec.kind = "abort" /\ f.rec.txn = t
IsOp(f, t, r)  == f.rec.kind = "op" /\ f.rec.txn = t /\ f.rec.row = r

\* The first k frames of log L, over image im: whose commit marker they hold,
\* which operations on r count, and the value r has then.
CommitIn(L, im, k, t) ==
    \E p \in 1..k : L[p].lsn > im.covered /\ IsCommit(L[p], t)
OpsIn(L, im, k, r) ==
    {i \in 1..k : /\ L[i].lsn > im.covered
                  /\ L[i].rec.kind = "op" /\ L[i].rec.row = r
                  /\ CommitIn(L, im, k, L[i].rec.txn)}
RowAt(L, im, k, r) ==
    IF OpsIn(L, im, k, r) = {} THEN im.rows[r] ELSE L[Last(OpsIn(L, im, k, r))].rec.val

SeqsIn(L, im, k) == {i \in 1..k : L[i].lsn > im.covered /\ L[i].rec.kind = "seq"}
SeqAt(L, im, k) == IF SeqsIn(L, im, k) = {} THEN im.seq ELSE L[Last(SeqsIn(L, im, k))].rec.val

\* What the first n commits of o make of row r in b.
SetsIn(o, n, r) == {i \in 1..n : r \in DOMAIN o[i].sets}
AppliedAt(b, o, n, r) ==
    IF SetsIn(o, n, r) = {} THEN b[r] ELSE o[Last(SetsIn(o, n, r))].sets[r]

\* The marker of t is in L, after the first k frames.
MarkedAfter(L, im, k, t) ==
    \E p \in (k + 1)..Len(L) : L[p].lsn > im.covered /\ IsCommit(L[p], t)

\* Cut after k frames, log L keeps the first n commits of o and no others.
CutKeeps(L, im, o, k, n) ==
    \A i \in 1..Len(o) : i <= n <=> ~MarkedAfter(L, im, k, o[i].txn)

\* Cut there, it replays to what they made of b.
Replays(L, im, b, o, k) ==
    \E n \in 0..Len(o) :
        /\ CutKeeps(L, im, o, k, n)
        /\ \A r \in Row : RowAt(L, im, k, r) = AppliedAt(b, o, n, r)

-----------------------------------------------------------------------------
(* The invariant                                                           *)

MaybeValue == Value \cup {NoValue}
Commit == [txn : Txn, sets : UNION {[R -> MaybeValue] : R \in SUBSET Row}]

\* Nothing is left in memory.
Blank ==
    /\ buf = <<>> /\ durable = 0 /\ leader = NoThread /\ tail = 0
    /\ need = [th \in Thread |-> 0]
    /\ status = [t \in Txn |-> "none"]
    /\ undo = [t \in Txn |-> <<>>] /\ undoing = [t \in Txn |-> <<>>]
    /\ lock = [r \in Row |-> 0]
    /\ ckpt = FALSE

TypeInv ==
    /\ TypeOK
    /\ image.txn <= MaxTxn
    /\ order \in Seq(Commit)
    /\ mode = "down" => Blank

\* Positions climb; what the image covers was logged by ids below the image's.
Climbs ==
    /\ \A i, j \in 1..Len(Log) : i < j => Log[i].lsn < Log[j].lsn
    /\ \A i \in 1..Len(Log) : Log[i].lsn > 0
    /\ \A i \in 1..Len(Log) : Log[i].lsn <= image.covered => Log[i].rec.txn <= image.txn

\* No transaction has both markers, or two commit markers.
OneEnd ==
    \A t \in Txn : \A i, j \in 1..Len(Log) :
        IsCommit(Log[i], t) => ~IsAbort(Log[j], t) /\ (IsCommit(Log[j], t) => i = j)

\* The log of a running engine is whole and behind the writer's position, and
\* every id in it was given out.
WriterInv ==
    /\ \A i \in 1..Len(Log) : Log[i].whole
    /\ \A i \in 1..Len(Log) : Log[i].lsn < nextLsn
    /\ image.covered < nextLsn
    /\ \A i \in 1..Len(Log) : Log[i].rec.txn < nextTxn
    /\ image.txn < nextTxn
    /\ \A t \in Txn : status[t] # "none" => t < nextTxn

\* The markers of a transaction are logged when it ends.
MarkerInv ==
    \A t \in Txn : \A i \in 1..Len(Log) :
        /\ IsCommit(Log[i], t) => status[t] \in {"none", "staged", "ended"}
        /\ IsAbort(Log[i], t) => status[t] \in {"none", "ended"}

\* What the coordinator takes for durable is fsynced.
GroupInv ==
    /\ durable < nextLsn /\ tail < nextLsn
    /\ \A i \in 1..Len(Log) : Log[i].lsn <= durable => i <= safe
    /\ tail # 0 => \A i \in 1..Len(Log) : Log[i].lsn <= tail => i <= Len(file)
    /\ leader # NoThread => need[leader] # 0 /\ durable < need[leader]
    /\ \A t \in Txn : need[t] # 0 <=> status[t] = "staged"
    /\ \A t \in Txn : status[t] = "staged" =>
          \E i \in 1..Len(Log) : IsCommit(Log[i], t) /\ Log[i].lsn = need[t]

\* The writes of t that the log has and has not compensated.
Writes(t) == undo[t] \o undoing[t]

\* The value of r after the writes in s, over d.
ValueOf(s, r, d, v) ==
    \/ (\A i \in 1..Len(s) : s[i].row # r) /\ v = d
    \/ \E i \in 1..Len(s) : /\ s[i].row = r /\ v = s[i].new
                            /\ \A j \in (i + 1)..Len(s) : s[j].row # r

\* Row r is as the log has t leave it.
LastOp(t, r, v) ==
    \E i \in 1..Len(Log) : /\ IsOp(Log[i], t, r) /\ v = Log[i].rec.val
                           /\ \A j \in (i + 1)..Len(Log) : ~IsOp(Log[j], t, r)

Active(t) == status[t] \in {"running", "staged"}

\* The writes of a transaction, its operations in the log and its row locks.
TxnInv ==
    \A t \in Txn :
        /\ status[t] # "failed"
        /\ status[t] # "running" => undoing[t] = <<>>
        /\ ~Active(t) => undo[t] = <<>> /\ \A r \in Row : lock[r] # t
        /\ \A i \in 1..Len(Writes(t)) :
              /\ lock[Writes(t)[i].row] = t
              /\ ValueOf(SubSeq(Writes(t), 1, i - 1), Writes(t)[i].row,
                         db[Writes(t)[i].row], Writes(t)[i].old)
              /\ \E p \in 1..Len(Log) : IsOp(Log[p], t, Writes(t)[i].row)

\* The operations of an active transaction are the last on their rows, not
\* covered by the image, and leave each row with the transaction's value.
OpsInv ==
    \A t \in Txn : Active(t) => \A p \in 1..Len(Log) : \A r \in Row : IsOp(Log[p], t, r) =>
        /\ Log[p].lsn > image.covered
        /\ lock[r] = t
        /\ \A q \in (p + 1)..Len(Log), u \in Txn \ {t} : ~IsOp(Log[q], u, r)
        /\ \A v \in MaybeValue : ValueOf(Writes(t), r, db[r], v) => LastOp(t, r, v)

\* All commits applied, a row has its committed value or the one that the
\* staged commit holding its lock will give it.
StagedInv ==
    \A r \in Row, u \in Txn \cup {0} : lock[r] = u =>
        AppliedAt(base, order, Len(order), r) =
            IF u \in Txn /\ status[u] = "staged" THEN Current(u, r) ELSE db[r]

OrderInv ==
    /\ \A i \in 1..Len(order) : status[order[i].txn] \in {"staged", "ended"}
    /\ \A i \in acked : \A p \in (safe + 1)..Len(Log) : ~IsCommit(Log[p], order[i].txn)

ImageInv == ckpt => /\ image.rows = db /\ image.covered = nextLsn - 1
                    /\ \A t \in Txn : ~Active(t)

\* Every cut a crash may make.
CutsInv == \A k \in safe..Len(Log) : Replays(Log, image, base, order, k)

\* The sequence: what nextval has still to return is logged, and no cut falls
\* behind what it returned.
SeqInv ==
    /\ given <= seq
    /\ \A k \in safe..Len(Log) : given <= SeqAt(Log, image, k)
    /\ need[SeqCaller] # 0 =>
          /\ given <= seqPrior /\ seqPrior < seq
          /\ \E p \in 1..Len(Log) : 
                /\ Log[p].lsn = need[SeqCaller] /\ Log[p].lsn > image.covered
                /\ Log[p].rec.kind = "seq" /\ Log[p].rec.val = seq
                /\ \A q \in (p + 1)..Len(Log) : Log[q].rec.kind # "seq"
    /\ ckpt => image.seq = seq /\ need[SeqCaller] = 0

UpInv ==
    /\ WriterInv /\ MarkerInv /\ GroupInv /\ TxnInv /\ OpsInv /\ StagedInv /\ OrderInv
    /\ ImageInv /\ CutsInv /\ SeqInv

\* Cut after g frames, what is left is whole, and the file ends there or in a
\* torn frame.
GoodCut(g) ==
    /\ \A i \in 1..g : file[i].whole
    /\ g = Len(file) \/ (g + 1 = Len(file) /\ ~file[g + 1].whole)

DownInv ==
    \E g \in 0..Len(file), n \in 0..Len(order) :
        /\ GoodCut(g)
        /\ acked \subseteq 1..n
        /\ \A r \in Row : RowAt(file, image, g, r) = AppliedAt(base, order, n, r)
        /\ given <= SeqAt(file, image, g)

Sound ==
    /\ mode \in {"up", "down"}
    /\ Climbs /\ OneEnd
    /\ mode = "up" => UpInv
    /\ mode = "down" => DownInv

WalInv == TypeInv /\ (survived = 0 => Sound)

-----------------------------------------------------------------------------
(* The greatest of a bounded set of naturals                               *)

LEMMA HasLeast ==
    ASSUME NEW S \in SUBSET Nat, S # {}
    PROVE  \E x \in S : \A y \in S : x <= y
<1>1. \E x \in S : \A y \in S : ~(<<y, x>> \in OpToRel(<, Nat))
  <2> HIDE DEF OpToRel
  <2> QED BY NatLessThanWellFounded, WFMin, Zenon
<1>2. PICK x \in S : \A y \in S : ~(<<y, x>> \in OpToRel(<, Nat))
  BY <1>1
<1>3. \A y \in S : x <= y
  <2> SUFFICES ASSUME NEW y \in S, ~(x <= y) PROVE FALSE
    OBVIOUS
  <2>1. x \in Nat /\ y \in Nat /\ y < x
    OBVIOUS
  <2>2. <<y, x>> \in OpToRel(<, Nat)
    BY <2>1 DEF OpToRel
  <2> QED BY <2>2, <1>2
<1> QED BY <1>3

LEMMA HasGreatest ==
    ASSUME NEW n \in Nat, NEW S \in SUBSET (0..n), S # {}
    PROVE  \E x \in S : \A y \in S : y <= x
<1> DEFINE Bounds == {b \in Nat : \A y \in S : y <= b}
<1>1. n \in Bounds
  OBVIOUS
<1>2. PICK b \in Bounds : \A c \in Bounds : b <= c
  <2> HIDE DEF Bounds
  <2>1. Bounds \in SUBSET Nat
    BY DEF Bounds
  <2> QED BY <1>1, <2>1, HasLeast
<1>3. b \in S
  <2> SUFFICES ASSUME b \notin S PROVE FALSE
    OBVIOUS
  <2>1. \A y \in S : y \in Nat /\ y <= b /\ y # b
    OBVIOUS
  <2>2. b # 0
    <3>1. PICK y \in S : TRUE
      OBVIOUS
    <3> QED BY <2>1, <3>1
  <2>3. b - 1 \in Bounds
    BY <2>1, <2>2
  <2> QED BY <2>3, <1>2
<1> QED BY <1>3

LEMMA LastIs ==
    ASSUME NEW n \in Nat, NEW S \in SUBSET (0..n), S # {}
    PROVE  Last(S) \in S /\ \A y \in S : y <= Last(S)
BY HasGreatest DEF Last

LEMMA LastAt ==
    ASSUME NEW S \in SUBSET Nat, NEW x \in S, \A y \in S : y <= x
    PROVE  Last(S) = x
<1>1. Last(S) \in S /\ \A y \in S : y <= Last(S)
  BY DEF Last
<1>2. Last(S) \in Nat /\ x \in Nat /\ Last(S) <= x /\ x <= Last(S)
  BY <1>1
<1> QED BY <1>2

LEMMA HighestIs ==
    ASSUME NEW n \in Nat, NEW S \in SUBSET (0..n), S # {}
    PROVE  Highest(S) \in S /\ \A y \in S : y <= Highest(S)
BY HasGreatest DEF Highest

\* Finitely many naturals have a bound.
LEMMA Bounded ==
    ASSUME NEW n \in Nat, NEW f, \A i \in 1..n : f[i] \in Nat
    PROVE  \E b \in Nat : \A i \in 1..n : f[i] <= b
<1> DEFINE Bad == {k \in 0..n : ~\E b \in Nat : \A i \in 1..k : f[i] <= b}
<1> SUFFICES ASSUME n \in Bad PROVE FALSE
  OBVIOUS
<1>1. PICK k \in Bad : \A j \in Bad : k <= j
  <2>1. Bad \in SUBSET Nat
    OBVIOUS
  <2> HIDE DEF Bad
  <2> QED BY <2>1, HasLeast
<1>2. k # 0
  OBVIOUS
<1>3. k - 1 \in 0..n /\ k - 1 \notin Bad /\ k \in 1..n
  <2>1. k \in 0..n
    OBVIOUS
  <2> HIDE DEF Bad
  <2> QED BY <1>1, <1>2, <2>1
<1>4. PICK b \in Nat : \A i \in 1..(k - 1) : f[i] <= b
  BY <1>3
<1> DEFINE c == IF f[k] <= b THEN b ELSE f[k]
<1>5. f[k] \in Nat
  BY <1>3
<1>6. c \in Nat /\ b <= c /\ f[k] <= c
  BY <1>4, <1>5
<1> HIDE DEF c
<1>7. \A i \in 1..k : f[i] <= c
  <2> SUFFICES ASSUME NEW i \in 1..k PROVE f[i] <= c
    OBVIOUS
  <2>1. CASE i = k
    BY <1>6, <2>1
  <2>2. CASE i # k
    <3>1. i \in 1..(k - 1) /\ f[i] \in Nat
      BY <1>3, <2>2
    <3> QED BY <1>4, <1>6, <3>1
  <2> QED BY <2>1, <2>2
<1> QED BY <1>6, <1>7

-----------------------------------------------------------------------------
(* Records, frames and the values of rows                                  *)

LEMMA RecordKinds ==
    ASSUME NEW rec \in Record
    PROVE  /\ rec.kind \in {"op", "commit", "abort", "seq"}
           /\ rec.txn \in 0..MaxTxn /\ rec.txn \in Nat
           /\ rec.kind = "op" => rec.txn \in Txn /\ rec.row \in Row /\ rec.val \in MaybeValue
           /\ rec.kind \in {"commit", "abort"} => rec.txn \in Txn
           /\ rec.kind = "seq" => rec.val \in Nat
           /\ \A t : rec = MarkRec("commit", t) <=> rec.kind = "commit" /\ rec.txn = t
           /\ \A t : rec = MarkRec("abort", t) <=> rec.kind = "abort" /\ rec.txn = t
<1> USE WalAssumption DEF Record, MarkRec, Txn, MaybeValue
<1>1. CASE rec \in [kind : {"op"}, txn : Txn, row : Row, val : Value \cup {NoValue}]
  <2>1. \A t : rec # MarkRec("commit", t) /\ rec # MarkRec("abort", t)
    BY <1>1
  <2> QED BY <1>1, <2>1
<1>2. CASE rec \in [kind : {"commit", "abort"}, txn : Txn]
  <2>1. rec = [kind |-> rec.kind, txn |-> rec.txn]
    BY <1>2
  <2> QED BY <1>2, <2>1
<1>3. CASE rec \in [kind : {"seq"}, txn : {0}, val : Nat]
  BY <1>3
<1> QED BY <1>1, <1>2, <1>3

LEMMA NewRecords ==
    /\ \A t \in Txn, r \in Row, v \in MaybeValue : OpRec(t, r, v) \in Record
    /\ \A t \in Txn : MarkRec("commit", t) \in Record /\ MarkRec("abort", t) \in Record
    /\ \A n \in Nat : SeqRec(n) \in Record
BY DEF OpRec, MarkRec, SeqRec, Record, MaybeValue

LEMMA ValueOfOne ==
    ASSUME NEW s \in Seq(Undo), NEW r, NEW d, NEW v, NEW w,
           ValueOf(s, r, d, v), ValueOf(s, r, d, w)
    PROVE  v = w
<1>1. Len(s) \in Nat
  OBVIOUS
<1>2. CASE \A i \in 1..Len(s) : s[i].row # r
  BY <1>2 DEF ValueOf
<1>3. ASSUME NEW k \in 1..Len(s), s[k].row = r PROVE v = w
  <2>1. PICK i \in 1..Len(s) : /\ s[i].row = r /\ v = s[i].new
                               /\ \A j \in (i + 1)..Len(s) : s[j].row # r
    BY <1>3 DEF ValueOf
  <2>2. PICK i2 \in 1..Len(s) : /\ s[i2].row = r /\ w = s[i2].new
                                /\ \A j \in (i2 + 1)..Len(s) : s[j].row # r
    BY <1>3 DEF ValueOf
  <2>3. i = i2
    <3>1. ~(i < i2)
      BY <2>1, <2>2, <1>1
    <3>2. ~(i2 < i)
      BY <2>1, <2>2, <1>1
    <3> QED BY <3>1, <3>2
  <2> QED BY <2>1, <2>2, <2>3
<1> QED BY <1>2, <1>3

\* The writes in s leave r with some value.
LEMMA ValueOfSome ==
    ASSUME NEW s \in Seq(Undo), NEW r, NEW d
    PROVE  \E v : ValueOf(s, r, d, v)
<1> DEFINE own == {i \in 1..Len(s) : s[i].row = r}
<1>1. Len(s) \in Nat /\ own \in SUBSET (0..Len(s))
  OBVIOUS
<1>2. CASE own = {}
  <2>1. ValueOf(s, r, d, d)
    BY <1>2 DEF ValueOf
  <2> QED BY <2>1
<1>3. CASE own # {}
  <2>1. PICK x \in own : \A y \in own : y <= x
    <3> HIDE DEF own
    <3> QED BY <1>1, <1>3, HasGreatest
  <2>2. \A j \in (x + 1)..Len(s) : s[j].row # r
    BY <1>1, <2>1
  <2>3. ValueOf(s, r, d, s[x].new)
    BY <2>1, <2>2 DEF ValueOf
  <2> QED BY <2>3
<1> QED BY <1>2, <1>3

\* What a transaction sees in a row is what its writes left there.
LEMMA CurrentIs ==
    ASSUME NEW t \in Txn, NEW r, undo[t] \in Seq(Undo)
    PROVE  ValueOf(undo[t], r, db[r], Current(t, r))
<1> DEFINE own == {i \in 1..Len(undo[t]) : undo[t][i].row = r}
           k == CHOOSE k \in own : \A j \in own : j <= k
<1>1. Len(undo[t]) \in Nat /\ own \in SUBSET (0..Len(undo[t]))
  OBVIOUS
<1>2. Current(t, r) = IF own = {} THEN db[r] ELSE undo[t][k].new
  BY DEF Current
<1>3. CASE own = {}
  BY <1>2, <1>3 DEF ValueOf
<1>4. CASE own # {}
  <2>1. k \in own /\ \A j \in own : j <= k
    <3> HIDE DEF own
    <3> QED BY <1>1, <1>4, HasGreatest
  <2>2. k \in 1..Len(undo[t]) /\ undo[t][k].row = r
    BY <2>1
  <2>3. \A j \in (k + 1)..Len(undo[t]) : undo[t][j].row # r
    <3> HIDE DEF k
    <3> QED BY <1>1, <2>1
  <2>4. Current(t, r) = undo[t][k].new
    BY <1>2, <1>4
  <2> HIDE DEF k
  <2> QED BY <2>2, <2>3, <2>4 DEF ValueOf
<1> QED BY <1>3, <1>4

LEMMA ValueOfType ==
    ASSUME NEW s \in Seq(Undo), NEW r, NEW d \in MaybeValue, NEW v, ValueOf(s, r, d, v)
    PROVE  v \in MaybeValue
<1>1. ASSUME NEW i \in 1..Len(s) PROVE s[i].new \in MaybeValue
  <2>1. s[i] \in Undo
    OBVIOUS
  <2> QED BY <2>1 DEF Undo, MaybeValue
<1> QED BY <1>1 DEF ValueOf

\* Appending a write; taking the last one back.
LEMMA ValueOfAppend ==
    ASSUME NEW s \in Seq(Undo), NEW e \in Undo, NEW r, NEW d, NEW v
    PROVE  ValueOf(Append(s, e), r, d, v) <=>
               IF e.row = r THEN v = e.new ELSE ValueOf(s, r, d, v)
<1> DEFINE a == Append(s, e)
<1>1. /\ Len(s) \in Nat /\ Len(a) = Len(s) + 1 /\ a[Len(s) + 1] = e
      /\ \A i \in 1..Len(s) : a[i] = s[i]
  OBVIOUS
<1> HIDE DEF a
<1>2. CASE e.row = r
  <2>1. ASSUME ValueOf(a, r, d, v) PROVE v = e.new
    <3>1. PICK i \in 1..Len(a) : /\ a[i].row = r /\ v = a[i].new
                                 /\ \A j \in (i + 1)..Len(a) : a[j].row # r
      BY <2>1, <1>1, <1>2 DEF ValueOf
    <3>2. i = Len(s) + 1
      BY <3>1, <1>1, <1>2
    <3> QED BY <3>1, <3>2, <1>1
  <2>2. ASSUME v = e.new PROVE ValueOf(a, r, d, v)
    BY <2>2, <1>1, <1>2 DEF ValueOf
  <2> QED BY <2>1, <2>2, <1>2 DEF a
<1>3. CASE e.row # r
  <2>1. ASSUME ValueOf(a, r, d, v) PROVE ValueOf(s, r, d, v)
    <3>1. CASE \A i \in 1..Len(a) : a[i].row # r
      BY <3>1, <2>1, <1>1 DEF ValueOf
    <3>2. ASSUME NEW i \in 1..Len(a), a[i].row = r, v = a[i].new,
                 \A j \in (i + 1)..Len(a) : a[j].row # r
          PROVE  ValueOf(s, r, d, v)
      <4>1. i \in 1..Len(s)
        BY <3>2, <1>1, <1>3
      <4>2. \A j \in (i + 1)..Len(s) : s[j].row # r
        BY <3>2, <1>1, <4>1
      <4> QED BY <4>1, <4>2, <3>2, <1>1 DEF ValueOf
    <3> QED BY <2>1, <3>1, <3>2 DEF ValueOf
  <2>2. ASSUME ValueOf(s, r, d, v) PROVE ValueOf(a, r, d, v)
    <3>1. CASE \A i \in 1..Len(s) : s[i].row # r
      BY <3>1, <2>2, <1>1, <1>3 DEF ValueOf
    <3>2. ASSUME NEW i \in 1..Len(s), s[i].row = r, v = s[i].new,
                 \A j \in (i + 1)..Len(s) : s[j].row # r
          PROVE  ValueOf(a, r, d, v)
      <4>1. \A j \in (i + 1)..Len(a) : a[j].row # r
        BY <3>2, <1>1, <1>3
      <4> QED BY <4>1, <3>2, <1>1 DEF ValueOf
    <3> QED BY <2>2, <3>1, <3>2 DEF ValueOf
  <2> QED BY <2>1, <2>2, <1>3 DEF a
<1> QED BY <1>2, <1>3

-----------------------------------------------------------------------------
(* What an operation does to the log                                       *)

LEMMA LogIs ==
    ASSUME TypeOK
    PROVE  /\ Log \in Seq(Frames) /\ Len(Log) = Len(file) + Len(buf)
           /\ Len(Log) \in Nat /\ Len(file) \in Nat /\ safe \in Nat
           /\ safe <= Len(file) /\ Len(file) <= Len(Log)
           /\ \A i \in 1..Len(file) : Log[i] = file[i]
           /\ \A i \in 1..Len(Log) :
                 /\ Log[i] \in Frames /\ Log[i].lsn \in Nat /\ Log[i].rec \in Record
<1>1. file \in Seq(Frames) /\ buf \in Seq(Frames) /\ safe \in 0..Len(file)
  BY DEF TypeOK
<1>2. /\ Log \in Seq(Frames) /\ Len(Log) = Len(file) + Len(buf)
      /\ \A i \in 1..Len(file) : Log[i] = file[i]
  BY <1>1 DEF Log
<1>3. \A i \in 1..Len(Log) : Log[i] \in Frames
  BY <1>2
<1> QED BY <1>1, <1>2, <1>3 DEF Frames

LEMMA FrameIs ==
    ASSUME TypeOK, NEW rec \in Record
    PROVE  /\ Frame(rec) \in Frames /\ Frame(rec).lsn = nextLsn /\ Frame(rec).rec = rec
           /\ Frame(rec).whole
BY DEF TypeOK, Frame, Frames

LEMMA AppendEffect ==
    ASSUME TypeOK, NEW rec \in Record, AppendRec(rec)
    PROVE  /\ buf' \in Seq(Frames) /\ file' \in Seq(Frames)
           /\ nextLsn' = nextLsn + 1 /\ nextLsn' \in Nat \ {0} /\ survived' = survived
           /\ Log' = Append(Log, Frame(rec))
           /\ Len(file) <= Len(file') /\ \A i \in 1..Len(file) : file'[i] = file[i]
           /\ safe \in 0..Len(file')
<1> DEFINE f == Frame(rec)
<1>1. /\ file \in Seq(Frames) /\ buf \in Seq(Frames) /\ safe \in 0..Len(file)
      /\ nextLsn \in Nat \ {0}
  BY DEF TypeOK
<1>2. f \in Frames
  BY FrameIs
<1>3. /\ nextLsn' = nextLsn + 1 /\ survived' = survived
      /\ \/ buf' = <<>> /\ file' = file \o Append(buf, f)
         \/ buf' = Append(buf, f) /\ file' = file
  BY DEF AppendRec
<1> HIDE DEF f
<1>4. Append(buf, f) \in Seq(Frames)
  BY <1>1, <1>2
<1>5. CASE buf' = <<>> /\ file' = file \o Append(buf, f)
  <2>1. file' \o buf' = Append(file \o buf, f)
    BY <1>1, <1>2, <1>5
  <2>2. file' \in Seq(Frames) /\ Len(file') = Len(file) + Len(buf) + 1
    BY <1>1, <1>2, <1>5
  <2>3. \A i \in 1..Len(file) : file'[i] = file[i]
    BY <1>1, <1>4, <1>5
  <2> QED BY <1>1, <1>3, <1>5, <2>1, <2>2, <2>3 DEF Log, f
<1>6. CASE buf' = Append(buf, f) /\ file' = file
  <2>1. file' \o buf' = Append(file \o buf, f)
    BY <1>1, <1>2, <1>6
  <2> QED BY <1>1, <1>3, <1>4, <1>6, <2>1 DEF Log, f
<1> QED BY <1>3, <1>5, <1>6

\* Cut after k frames, with or without a piece of the next one.
CutAt(g, L, k) ==
    \/ g = SubSeq(L, 1, k)
    \/ k < Len(L) /\ g = SubSeq(L, 1, k) \o <<Torn(L[k + 1])>>

LEMMA CutIs ==
    ASSUME NEW L \in Seq(Frames), NEW k \in 0..Len(L), NEW g, CutAt(g, L, k)
    PROVE  /\ g \in Seq(Frames) /\ Len(g) \in {k, k + 1}
           /\ \A i \in 1..k : g[i] = L[i]
           /\ Len(g) = k + 1 => k < Len(L) /\ g[k + 1] = Torn(L[k + 1])
<1>1. CASE g = SubSeq(L, 1, k)
  BY <1>1
<1>2. CASE k < Len(L) /\ g = SubSeq(L, 1, k) \o <<Torn(L[k + 1])>>
  <2> DEFINE h == SubSeq(L, 1, k)
             f == Torn(L[k + 1])
  <2>1. h \in Seq(Frames) /\ Len(h) = k /\ \A i \in 1..k : h[i] = L[i]
    OBVIOUS
  <2>2. L[k + 1] \in Frames
    BY <1>2
  <2>3. f \in Frames
    BY <2>2 DEF Torn, Frames
  <2>4. g = h \o <<f>>
    BY <1>2
  <2> HIDE DEF h, f
  <2>5. <<f>> \in Seq(Frames) /\ Len(<<f>>) = 1 /\ <<f>>[1] = f
    BY <2>3
  <2>6. g \in Seq(Frames) /\ Len(g) = k + 1
    BY <2>1, <2>4, <2>5
  <2>7. \A i \in 1..k : g[i] = h[i]
    BY <2>1, <2>4, <2>5
  <2>8. g[k + 1] = f
    BY <2>1, <2>4, <2>5
  <2> QED BY <1>2, <2>1, <2>6, <2>7, <2>8 DEF f
<1> QED BY <1>1, <1>2 DEF CutAt

LEMMA PartWrittenCuts ==
    ASSUME NEW f \in Seq(Frames), NEW b \in Seq(Frames), NEW g \in PartWritten(f, b)
    PROVE  \E k \in Len(f)..Len(f \o b) : CutAt(g, f \o b, k)
<1>1. PICK k \in 0..(Len(b) - 1) :
          g = f \o SubSeq(b, 1, k) \/ g = f \o SubSeq(b, 1, k) \o <<Torn(b[k + 1])>>
  BY DEF PartWritten
<1> DEFINE n == Len(f) + k
<1>2. n \in Len(f)..Len(f \o b) /\ n < Len(f \o b)
  BY <1>1
<1>3. (f \o b)[n + 1] = b[k + 1]
  BY <1>1
<1>4. SubSeq(f \o b, 1, n) = f \o SubSeq(b, 1, k)
  <2> DEFINE x == SubSeq(f \o b, 1, n)
             y == f \o SubSeq(b, 1, k)
  <2>0. f \o b \in Seq(Frames)
    OBVIOUS
  <2>1. x \in Seq(Frames) /\ Len(x) = n /\ \A i \in 1..n : x[i] = (f \o b)[i]
    BY <1>2, <2>0
  <2>2. SubSeq(b, 1, k) \in Seq(Frames) /\ Len(SubSeq(b, 1, k)) = k
        /\ \A i \in 1..k : SubSeq(b, 1, k)[i] = b[i]
    BY <1>1
  <2>3. y \in Seq(Frames) /\ Len(y) = n
    BY <2>2
  <2>4. \A i \in 1..n : y[i] = IF i <= Len(f) THEN f[i] ELSE b[i - Len(f)]
    BY <2>2
  <2>5. \A i \in 1..n : x[i] = IF i <= Len(f) THEN f[i] ELSE b[i - Len(f)]
    BY <2>1, <1>2
  <2> HIDE DEF x, y
  <2> QED BY <2>1, <2>3, <2>4, <2>5
<1> QED BY <1>1, <1>2, <1>3, <1>4 DEF CutAt

LEMMA AppendFailsEffect ==
    ASSUME TypeOK, NEW rec \in Record, AppendFails(rec)
    PROVE  /\ buf' \in Seq(Frames) /\ file' \in Seq(Frames)
           /\ nextLsn' \in Nat \ {0} /\ survived' \in Nat /\ survived' > 0
           /\ safe \in 0..Len(file')
<1> DEFINE all == Append(buf, Frame(rec))
<1>1. /\ file \in Seq(Frames) /\ buf \in Seq(Frames) /\ safe \in 0..Len(file)
      /\ nextLsn \in Nat \ {0} /\ survived \in Nat
  BY DEF TypeOK
<1>2. all \in Seq(Frames)
  BY <1>1, FrameIs
<1>3. /\ buf' = all /\ file' \in PartWritten(file, all) /\ nextLsn' = nextLsn
      /\ survived' = survived + 1
  BY DEF AppendFails, Survived
<1> HIDE DEF all
<1>4. PICK k \in Len(file)..Len(file \o all) : CutAt(file', file \o all, k)
  BY <1>1, <1>2, <1>3, PartWrittenCuts
<1>5. file \o all \in Seq(Frames) /\ k \in 0..Len(file \o all) /\ Len(file) \in Nat
  BY <1>1, <1>2
<1>6. file' \in Seq(Frames) /\ Len(file') \in {k, k + 1}
  BY <1>4, <1>5, CutIs
<1> QED BY <1>1, <1>2, <1>3, <1>4, <1>5, <1>6

\* The whole frames before the first torn one.
LEMMA GoodLenIs ==
    ASSUME file \in Seq(Frames)
    PROVE  /\ GoodLen \in 0..Len(file)
           /\ \A i \in 1..GoodLen : file[i].whole
           /\ \A k \in 0..Len(file) : (\A i \in 1..k : file[i].whole) => k <= GoodLen
<1>1. GoodFrames \in SUBSET (0..Len(file)) /\ 0 \in GoodFrames /\ Len(file) \in Nat
  BY DEF GoodFrames
<1>2. GoodLen \in GoodFrames /\ \A j \in GoodFrames : j <= GoodLen
  <2>1. \E x \in GoodFrames : \A y \in GoodFrames : y <= x
    BY <1>1, HasGreatest
  <2> QED BY <2>1 DEF GoodLen
<1> QED BY <1>1, <1>2 DEF GoodFrames

-----------------------------------------------------------------------------
(* Types                                                                   *)

\* The variables of the log, and all the others.
LogType ==
    /\ survived \in Nat /\ buf \in Seq(Frames) /\ file \in Seq(Frames)
    /\ nextLsn \in Nat \ {0} /\ safe \in 0..Len(file)
RestType ==
    /\ mode \in {"up", "stopped", "down", "refused"} /\ ckpt \in BOOLEAN
    /\ image \in [rows : Rows, seq : Nat, txn : Nat, covered : Nat]
    /\ durable \in Nat /\ tail \in Nat /\ leader \in Thread \cup {NoThread}
    /\ need \in [Thread -> Nat]
    /\ nextTxn \in 1..(MaxTxn + 1)
    /\ status \in [Txn -> {"none", "running", "failed", "staged", "aborting", "ended"}]
    /\ undo \in [Txn -> Seq(Undo)] /\ undoing \in [Txn -> Seq(Undo)]
    /\ lock \in [Row -> Txn \cup {0}]
    /\ db \in Rows /\ base \in Rows
    /\ seq \in Nat /\ seqPrior \in Nat /\ given \in Nat
    /\ acked \subseteq 1..Len(order)
    /\ image.txn <= MaxTxn
    /\ order \in Seq(Commit)

LEMMA TypeParts == TypeInv <=> LogType /\ RestType /\ (mode = "down" => Blank)
BY DEF TypeInv, TypeOK, LogType, RestType

LEMMA WriteSetType ==
    ASSUME TypeInv, NEW t \in Txn
    PROVE  /\ DOMAIN WriteSet(t) \subseteq Row
           /\ WriteSet(t) \in UNION {[R -> MaybeValue] : R \in SUBSET Row}
           /\ \A r \in Row : Current(t, r) \in MaybeValue
           /\ \A r \in DOMAIN WriteSet(t) : WriteSet(t)[r] = Current(t, r)
<1> DEFINE R == {undo[t][i].row : i \in 1..Len(undo[t])}
<1>1. undo[t] \in Seq(Undo) /\ db \in [Row -> MaybeValue]
  BY DEF TypeInv, TypeOK, Rows, MaybeValue
<1>2. R \subseteq Row
  <2>1. \A i \in 1..Len(undo[t]) : undo[t][i] \in Undo
    BY <1>1
  <2> QED BY <2>1 DEF Undo
<1>3. \A r \in Row : Current(t, r) \in MaybeValue
  <2> SUFFICES ASSUME NEW r \in Row PROVE Current(t, r) \in MaybeValue
    OBVIOUS
  <2>1. ValueOf(undo[t], r, db[r], Current(t, r))
    BY <1>1, CurrentIs
  <2>2. db[r] \in MaybeValue
    BY <1>1
  <2> QED BY <1>1, <2>1, <2>2, ValueOfType
<1>4. WriteSet(t) = [r \in R |-> Current(t, r)]
  BY DEF WriteSet
<1> HIDE DEF R
<1>5. WriteSet(t) \in [R -> MaybeValue]
  BY <1>2, <1>3, <1>4
<1>6. DOMAIN WriteSet(t) = R
  BY <1>4
<1> QED BY <1>2, <1>3, <1>4, <1>5, <1>6

LEMMA NewValuesType ==
    ASSUME TypeInv, NEW t \in Txn, NEW r \in Row, NEW v \in NewValues(t, r), Len(undo[t]) < MaxOps
    PROVE  v \in MaybeValue
<1>1. undo[t] \in Seq(Undo) /\ Len(undo[t]) \in Nat /\ MaxOps \in Nat
  BY WalAssumption DEF TypeInv, TypeOK
<1>2. Len(undo[t]) + 1 \in 1..MaxOps
  BY <1>1
<1> QED BY <1>2 DEF NewValues, MaybeValue, Value

LEMMA PushedType ==
    ASSUME TypeInv, NEW t \in Txn, NEW r \in Row, NEW v \in MaybeValue, Pushed(t, r, v)
    PROVE  lock' \in [Row -> Txn \cup {0}] /\ undo' \in [Txn -> Seq(Undo)]
<1> DEFINE e == [row |-> r, old |-> Current(t, r), new |-> v]
<1>1. e \in Undo
  BY WriteSetType DEF Undo, MaybeValue
<1>2. undo' = [undo EXCEPT ![t] = Append(@, e)] /\ lock' = [lock EXCEPT ![r] = t]
  BY DEF Pushed
<1>3. undo \in [Txn -> Seq(Undo)] /\ lock \in [Row -> Txn \cup {0}]
  BY DEF TypeInv, TypeOK
<1> HIDE DEF e
<1>4. Append(undo[t], e) \in Seq(Undo)
  BY <1>1, <1>3
<1> QED BY <1>2, <1>3, <1>4

LEMMA AbortedType ==
    ASSUME TypeInv, NEW t \in Txn, Aborted(t)
    PROVE  /\ status' \in [Txn -> {"none", "running", "failed", "staged", "aborting", "ended"}]
           /\ undo' \in [Txn -> Seq(Undo)] /\ lock' \in [Row -> Txn \cup {0}]
BY DEF TypeInv, TypeOK, Aborted, Unlocked

LEMMA UnlockedType ==
    ASSUME TypeInv, NEW t \in Txn
    PROVE  Unlocked(t) \in [Row -> Txn \cup {0}]
BY DEF TypeInv, TypeOK, Unlocked

\* A step of an engine that is up keeps the types.
LEMMA UpTypes ==
    ASSUME TypeInv, LogType', RestType', mode' # "down"
    PROVE  TypeInv'
BY TypeParts DEF TypeInv, TypeOK, LogType, RestType

LEMMA SessionTypes ==
    ASSUME TypeInv, NEW t \in Txn, Session(t)
    PROVE  TypeInv'
<1> USE DEF logVars, groupVars, txnVars, seqVars, histVars, boundVars
<1>0. LogType /\ RestType /\ TypeOK /\ MaxTxn \in Nat
  BY TypeParts, WalAssumption DEF TypeInv
<1>1. CASE Begin(t)
  <2>1. RestType' /\ mode' # "down"
    BY <1>0, <1>1 DEF Begin, Up, RestType
  <2>2. LogType'
    BY <1>0, <1>1 DEF Begin, LogType
  <2> QED BY <2>1, <2>2, UpTypes
<1>2. CASE Rollback(t)
  <2>0. Aborted(t)
    BY <1>2 DEF Rollback
  <2>1. RestType' /\ mode' # "down"
    BY <1>0, <1>2, <2>0, AbortedType DEF Rollback, Alive, RestType
  <2>2. LogType'
    BY <1>0, <1>2 DEF Rollback, LogType
  <2> QED BY <2>1, <2>2, UpTypes
<1>3. CASE CommitReadOnly(t)
  <2>1. RestType' /\ mode' # "down"
    BY <1>0, <1>3, UnlockedType DEF CommitReadOnly, Running, Up, RestType
  <2>2. LogType'
    BY <1>0, <1>3 DEF CommitReadOnly, LogType
  <2> QED BY <2>1, <2>2, UpTypes
<1>4. CASE CommitStage(t)
  <2> DEFINE c == [txn |-> t, sets |-> WriteSet(t)]
  <2>1. c \in Commit
    BY WriteSetType DEF Commit
  <2>2. order' = Append(order, c) /\ order \in Seq(Commit)
    BY <1>0, <1>4 DEF CommitStage, RestType
  <2> HIDE DEF c
  <2>3. order' \in Seq(Commit) /\ Len(order') = Len(order) + 1 /\ Len(order) \in Nat
    BY <2>1, <2>2
  <2>4. acked' \subseteq 1..Len(order')
    BY <1>0, <1>4, <2>3 DEF CommitStage, RestType
  <2>5. need' \in [Thread -> Nat]
    BY <1>0, <1>4 DEF CommitStage, RestType, LogType, Thread
  <2>6. RestType' /\ mode' # "down"
    BY <1>0, <1>4, <2>3, <2>4, <2>5 DEF CommitStage, Running, Up, RestType
  <2>7. LogType'
    <3>1. AppendRec(MarkRec("commit", t)) /\ safe' = safe
      BY <1>4 DEF CommitStage
    <3> QED BY <1>0, <3>1, AppendEffect, NewRecords DEF LogType
  <2> QED BY <2>6, <2>7, UpTypes
<1>5. CASE CommitAppendFails(t)
  <2>0. Aborted(t)
    BY <1>5 DEF CommitAppendFails
  <2>1. RestType' /\ mode' # "down"
    BY <1>0, <1>5, <2>0, AbortedType DEF CommitAppendFails, Running, Up, RestType
  <2>2. LogType'
    <3>1. AppendFails(MarkRec("commit", t)) /\ safe' = safe
      BY <1>5 DEF CommitAppendFails
    <3> QED BY <1>0, <3>1, AppendFailsEffect, NewRecords DEF LogType
  <2> QED BY <2>1, <2>2, UpTypes
<1>6. ASSUME NEW r \in Row, NEW v \in NewValues(t, r), Write(t, r, v)
      PROVE  TypeInv'
  <2>0. Pushed(t, r, v) /\ Len(undo[t]) < MaxOps
    BY <1>6 DEF Write, Pushed
  <2>1. v \in MaybeValue
    BY <2>0, NewValuesType
  <2>2. RestType' /\ mode' # "down"
    BY <1>0, <1>6, <2>0, <2>1, PushedType DEF Write, Running, Up, RestType
  <2>3. LogType'
    <3>1. AppendRec(OpRec(t, r, v)) /\ safe' = safe
      BY <1>6 DEF Write
    <3> QED BY <1>0, <2>1, <3>1, AppendEffect, NewRecords DEF LogType
  <2> QED BY <2>2, <2>3, UpTypes
<1>7. ASSUME NEW r \in Row, NEW v \in NewValues(t, r), WriteFails(t, r, v)
      PROVE  TypeInv'
  <2>0. Pushed(t, r, v) /\ Len(undo[t]) < MaxOps
    BY <1>7 DEF WriteFails, Pushed
  <2>1. v \in MaybeValue
    BY <2>0, NewValuesType
  <2>2. RestType' /\ mode' # "down"
    BY <1>0, <1>7, <2>0, <2>1, PushedType DEF WriteFails, Running, Up, RestType
  <2>3. LogType'
    <3>1. AppendFails(OpRec(t, r, v)) /\ safe' = safe
      BY <1>7 DEF WriteFails
    <3> QED BY <1>0, <2>1, <3>1, AppendFailsEffect, NewRecords DEF LogType
  <2> QED BY <2>2, <2>3, UpTypes
<1>8. ASSUME NEW mark \in 0..(MaxOps - 1), RollbackTo(t, mark)
      PROVE  TypeInv'
  <2>0. undo[t] \in Seq(Undo) /\ mark \in Nat /\ mark < Len(undo[t])
    BY <1>0, <1>8, WalAssumption DEF RollbackTo, RestType
  <2>1. /\ SubSeq(undo[t], 1, mark) \in Seq(Undo)
        /\ SubSeq(undo[t], mark + 1, Len(undo[t])) \in Seq(Undo)
    BY <2>0
  <2>2. RestType' /\ mode' # "down"
    BY <1>0, <1>8, <2>1 DEF RollbackTo, Up, RestType
  <2>3. LogType'
    BY <1>0, <1>8 DEF RollbackTo, LogType
  <2> QED BY <2>2, <2>3, UpTypes
<1> QED BY <1>1, <1>2, <1>3, <1>4, <1>5, <1>6, <1>7, <1>8 DEF Session

LEMMA EngineTypes ==
    ASSUME TypeInv, NEW t \in Txn, Engine(t) \/ CompensateFails(t)
    PROVE  TypeInv'
<1> USE DEF logVars, groupVars, txnVars, seqVars, histVars, boundVars
<1>0. LogType /\ RestType /\ TypeOK
  BY TypeParts DEF TypeInv
<1> DEFINE e == undoing[t][Len(undoing[t])]
<1>1. ASSUME undoing[t] # <<>>
      PROVE  /\ Inverse(t, e) \in Record
             /\ SubSeq(undoing[t], 1, Len(undoing[t]) - 1) \in Seq(Undo)
  <2>1. undoing[t] \in Seq(Undo)
    BY <1>0 DEF RestType
  <2>2. Len(undoing[t]) \in Nat \ {0}
    BY <1>1, <2>1
  <2>3. e \in Undo
    BY <2>1, <2>2
  <2>4. e.row \in Row /\ e.old \in MaybeValue
    BY <2>3 DEF Undo, MaybeValue
  <2>5. Inverse(t, e) \in Record
    BY <2>4, NewRecords DEF Inverse
  <2>6. SubSeq(undoing[t], 1, Len(undoing[t]) - 1) \in Seq(Undo)
    BY <2>1, <2>2
  <2> QED BY <2>5, <2>6
<1>2. CASE Compensate(t)
  <2>0. undoing[t] # <<>> /\ AppendRec(Inverse(t, e)) /\ safe' = safe
    BY <1>2 DEF Compensate
  <2>1. LogType'
    BY <1>0, <1>1, <2>0, AppendEffect DEF LogType
  <2>2. RestType' /\ mode' # "down"
    BY <1>0, <1>1, <1>2, <2>0 DEF Compensate, Alive, RestType
  <2> QED BY <2>1, <2>2, UpTypes
<1>3. CASE AbortMarker(t)
  <2>0. /\ AppendRec(MarkRec("abort", t)) \/ AppendFails(MarkRec("abort", t))
        /\ safe' = safe
    BY <1>3 DEF AbortMarker
  <2>1. LogType'
    BY <1>0, <2>0, NewRecords, AppendEffect, AppendFailsEffect DEF LogType
  <2>2. RestType' /\ mode' # "down"
    BY <1>0, <1>3 DEF AbortMarker, Alive, RestType
  <2> QED BY <2>1, <2>2, UpTypes
<1>4. CASE CommitFinish(t)
  <2>1. LogType'
    BY <1>0, <1>4 DEF CommitFinish, LogType
  <2>2. db' \in Rows
    <3>1. db' = [r \in Row |-> IF r \in DOMAIN WriteSet(t) THEN WriteSet(t)[r] ELSE db[r]]
      BY <1>4 DEF CommitFinish, Overlay
    <3> QED BY <1>0, <3>1, WriteSetType DEF Rows, MaybeValue, RestType
  <2>3. need' \in [Thread -> Nat]
    BY <1>0, <1>4 DEF CommitFinish, RestType
  <2>4. acked' \subseteq 1..Len(order')
    BY <1>0, <1>4 DEF CommitFinish, RestType
  <2>5. undo' \in [Txn -> Seq(Undo)] /\ lock' \in [Row -> Txn \cup {0}]
    BY <1>0, <1>4, UnlockedType DEF CommitFinish, RestType
  <2>6. RestType' /\ mode' # "down"
    BY <1>0, <1>4, <2>2, <2>3, <2>4, <2>5 DEF CommitFinish, Alive, RestType
  <2> QED BY <2>1, <2>6, UpTypes
<1>5. CASE CompensateFails(t)
  <2>0. undoing[t] # <<>> /\ AppendFails(Inverse(t, e)) /\ safe' = safe
    BY <1>5 DEF CompensateFails
  <2>1. LogType'
    BY <1>0, <1>1, <2>0, AppendFailsEffect DEF LogType
  <2>2. RestType' /\ mode' # "down"
    BY <1>0, <1>5 DEF CompensateFails, RestType
  <2> QED BY <2>1, <2>2, UpTypes
<1> QED BY <1>2, <1>3, <1>4, <1>5 DEF Engine

LEMMA GroupTypes ==
    ASSUME TypeInv, Group
    PROVE  TypeInv'
<1> USE DEF logVars, groupVars, txnVars, seqVars, histVars, boundVars
<1>0. LogType /\ RestType /\ TypeOK
  BY TypeParts DEF TypeInv
<1>1. ASSUME NEW th \in Thread, Lead(th) PROVE TypeInv'
  <2>1. LogType'
    BY <1>0, <1>1 DEF Lead, LogType
  <2>2. RestType' /\ mode' # "down"
    BY <1>0, <1>1 DEF Lead, Waiting, Alive, RestType
  <2> QED BY <2>1, <2>2, UpTypes
<1>2. CASE LeaderFlush
  <2>1. LogType'
    BY <1>0, <1>2 DEF LeaderFlush, LogType
  <2>2. tail' \in Nat
    BY <1>0, <1>2 DEF LeaderFlush, LogType
  <2>3. RestType' /\ mode' # "down"
    BY <1>0, <1>2, <2>2 DEF LeaderFlush, Alive, RestType
  <2> QED BY <2>1, <2>3, UpTypes
<1>3. CASE LeaderSync
  <2>1. LogType'
    BY <1>0, <1>3 DEF LeaderSync, LogType
  <2>2. RestType' /\ mode' # "down"
    BY <1>0, <1>3 DEF LeaderSync, Alive, RestType
  <2> QED BY <2>1, <2>2, UpTypes
<1> QED BY <1>1, <1>2, <1>3 DEF Group

LEMMA GoneTypes ==
    ASSUME TypeInv, Gone, UNCHANGED <<image, base, order, acked, given>>,
           file' \in Seq(Frames), survived' \in Nat
    PROVE  TypeInv'
<1>0. LogType /\ RestType /\ MaxTxn \in Nat
  BY TypeParts, WalAssumption
<1>1. LogType'
  BY <1>0 DEF Gone, LogType
<1>2. db' \in Rows
  BY DEF Gone, Rows
<1>3. RestType'
  <2>1. /\ undo' \in [Txn -> Seq(Undo)] /\ undoing' \in [Txn -> Seq(Undo)]
        /\ need' \in [Thread -> Nat] /\ lock' \in [Row -> Txn \cup {0}]
        /\ status' \in [Txn -> {"none", "running", "failed", "staged", "aborting", "ended"}]
    BY DEF Gone
  <2>2. nextTxn' \in 1..(MaxTxn + 1) /\ mode' = "down" /\ ckpt' = FALSE /\ durable' = 0
        /\ tail' = 0 /\ leader' = NoThread /\ seq' = 0 /\ seqPrior' = 0
    BY <1>0 DEF Gone
  <2> QED BY <1>0, <1>2, <2>1, <2>2 DEF RestType
<1>4. Blank'
  BY DEF Gone, Blank
<1> QED BY <1>1, <1>3, <1>4, TypeParts DEF TypeInv, TypeOK, LogType, RestType

LEMMA LeaderFailsTypes ==
    ASSUME TypeInv, LeaderFlushFails \/ LeaderSyncFails
    PROVE  TypeInv'
<1> USE DEF logVars, groupVars, txnVars, seqVars, histVars, boundVars
<1>0. LogType /\ RestType /\ TypeOK
  BY TypeParts DEF TypeInv
<1>1. file' \in Seq(Frames) /\ Len(file) <= Len(file') /\ survived' \in Nat
  <2>1. CASE LeaderFlushFails
    <3>1. file' \in PartWritten(file, buf) /\ file \in Seq(Frames) /\ buf \in Seq(Frames)
      BY <1>0, <2>1 DEF LeaderFlushFails, LogType
    <3>2. PICK k \in Len(file)..Len(file \o buf) : CutAt(file', file \o buf, k)
      BY <3>1, PartWrittenCuts
    <3>3. file \o buf \in Seq(Frames) /\ k \in 0..Len(file \o buf) /\ Len(file) \in Nat
      BY <3>1
    <3>4. file' \in Seq(Frames) /\ Len(file') \in {k, k + 1}
      BY <3>2, <3>3, CutIs
    <3>5. survived' \in Nat
      BY <1>0, <2>1 DEF LeaderFlushFails, Survived, LogType
    <3> QED BY <3>2, <3>3, <3>4, <3>5
  <2>2. CASE LeaderSyncFails
    BY <1>0, <2>2 DEF LeaderSyncFails, LogType
  <2> QED BY <2>1, <2>2
<1>2. /\ LeaderFailed /\ Alive /\ UNCHANGED <<image, base, order, acked, given>>
  BY DEF LeaderFlushFails, LeaderSyncFails
<1>3. CASE Gone
  BY <1>1, <1>2, <1>3, GoneTypes
<1>4. CASE leader = SeqCaller /\ ~Gone
  <2>1. LogType'
    BY <1>0, <1>1, <1>2, <1>4 DEF LeaderFailed, LogType
  <2>2. RestType' /\ mode' # "down"
    BY <1>0, <1>2, <1>4 DEF LeaderFailed, Alive, RestType
  <2> QED BY <2>1, <2>2, UpTypes
<1> QED BY <1>2, <1>3, <1>4 DEF LeaderFailed

LEMMA SequenceTypes ==
    ASSUME TypeInv, Nextval \/ NextvalFails \/ NextvalReturns
    PROVE  TypeInv'
<1> USE DEF logVars, groupVars, txnVars, seqVars, histVars, boundVars
<1>0. LogType /\ RestType /\ TypeOK
  BY TypeParts DEF TypeInv
<1>1. SeqRec(seq + 1) \in Record
  BY <1>0, NewRecords DEF RestType
<1>2. CASE Nextval
  <2>0. AppendRec(SeqRec(seq + 1)) /\ safe' = safe
    BY <1>2 DEF Nextval
  <2>1. LogType'
    BY <1>0, <1>1, <2>0, AppendEffect DEF LogType
  <2>2. RestType' /\ mode' # "down"
    BY <1>0, <1>2 DEF Nextval, Up, RestType, LogType, Thread, SeqCaller
  <2> QED BY <2>1, <2>2, UpTypes
<1>3. CASE NextvalFails
  <2>0. AppendFails(SeqRec(seq + 1)) /\ safe' = safe
    BY <1>3 DEF NextvalFails
  <2>1. LogType'
    BY <1>0, <1>1, <2>0, AppendFailsEffect DEF LogType
  <2>2. RestType' /\ mode' # "down"
    BY <1>0, <1>3 DEF NextvalFails, Up, RestType
  <2> QED BY <2>1, <2>2, UpTypes
<1>4. CASE NextvalReturns
  <2>1. LogType'
    BY <1>0, <1>4 DEF NextvalReturns, LogType
  <2>2. RestType' /\ mode' # "down"
    BY <1>0, <1>4 DEF NextvalReturns, Alive, RestType
  <2> QED BY <2>1, <2>2, UpTypes
<1> QED BY <1>2, <1>3, <1>4

LEMMA CheckpointTypes ==
    ASSUME TypeInv,
           Publish \/ PublishFails \/ Truncate \/ TruncateSkipped \/ TruncateFails
    PROVE  TypeInv'
<1> USE DEF logVars, groupVars, txnVars, seqVars, histVars, boundVars
<1>0. LogType /\ RestType /\ TypeOK /\ MaxTxn \in Nat
  BY TypeParts, WalAssumption DEF TypeInv
<1>1. CASE Publish
  <2>1. LogType'
    BY <1>0, <1>1 DEF Publish, LogType
  <2>2. /\ image' \in [rows : Rows, seq : Nat, txn : Nat, covered : Nat]
        /\ image'.txn <= MaxTxn
    BY <1>0, <1>1 DEF Publish, LogType, RestType
  <2>3. nextTxn' \in 1..(MaxTxn + 1) /\ ckpt' \in BOOLEAN
    BY <1>0, <1>1 DEF Publish, RestType
  <2>4. RestType' /\ mode' # "down"
    BY <1>0, <1>1, <2>2, <2>3 DEF Publish, Up, RestType
  <2> QED BY <2>1, <2>4, UpTypes
<1>2. CASE PublishFails
  <2>1. LogType'
    BY <1>0, <1>2 DEF PublishFails, LogType
  <2>2. RestType' /\ mode' # "down"
    BY <1>0, <1>2 DEF PublishFails, Up, RestType
  <2> QED BY <2>1, <2>2, UpTypes
<1>3. ASSUME Truncate \/ TruncateSkipped \/ TruncateFails
      PROVE  RestType' /\ mode' # "down"
  BY <1>0, <1>3 DEF Truncate, TruncateSkipped, TruncateFails, RestType
<1>4. CASE Truncate
  <2>1. LogType'
    BY <1>0, <1>4 DEF Truncate, LogType
  <2> QED BY <1>3, <1>4, <2>1, UpTypes
<1>5. CASE TruncateSkipped
  <2>1. LogType'
    BY <1>0, <1>5 DEF TruncateSkipped, LogType
  <2> QED BY <1>3, <1>5, <2>1, UpTypes
<1>6. CASE TruncateFails
  <2>1. file' \in PartWritten(file, buf) /\ file \in Seq(Frames) /\ buf \in Seq(Frames)
    BY <1>0, <1>6 DEF TruncateFails, LogType
  <2>2. PICK k \in Len(file)..Len(file \o buf) : CutAt(file', file \o buf, k)
    BY <2>1, PartWrittenCuts
  <2>3. file \o buf \in Seq(Frames) /\ k \in 0..Len(file \o buf) /\ Len(file) \in Nat
    BY <2>1
  <2>4. file' \in Seq(Frames) /\ Len(file') \in {k, k + 1}
    BY <2>2, <2>3, CutIs
  <2>5. file' \in Seq(Frames) /\ Len(file) <= Len(file') /\ Len(file') \in Nat
    BY <2>2, <2>3, <2>4
  <2>6. LogType'
    BY <1>0, <1>6, <2>5 DEF TruncateFails, Survived, LogType
  <2> QED BY <1>3, <1>6, <2>6, UpTypes
<1> QED BY <1>1, <1>2, <1>4, <1>5, <1>6

\* A crash leaves a cut of the log behind what was fsynced.
LEMMA CrashCuts ==
    ASSUME TypeInv, Crash
    PROVE  \E k \in safe..Len(Log) : CutAt(file', Log, k)
<1>0. file \in Seq(Frames) /\ buf \in Seq(Frames) /\ safe \in 0..Len(file) /\ Len(file) \in Nat
  BY DEF TypeInv, TypeOK
<1>1. /\ Len(Log) = Len(file) + Len(buf) /\ Log \in Seq(Frames) /\ Len(buf) \in Nat
      /\ \A i \in 1..Len(file) : Log[i] = file[i]
  BY <1>0 DEF Log
<1>2. \A k \in 0..Len(file) : SubSeq(Log, 1, k) = SubSeq(file, 1, k)
  <2> SUFFICES ASSUME NEW k \in 0..Len(file)
               PROVE  SubSeq(Log, 1, k) = SubSeq(file, 1, k)
    OBVIOUS
  <2> DEFINE x == SubSeq(Log, 1, k)
             y == SubSeq(file, 1, k)
  <2>1. x \in Seq(Frames) /\ Len(x) = k /\ \A i \in 1..k : x[i] = Log[i]
    BY <1>0, <1>1
  <2>2. y \in Seq(Frames) /\ Len(y) = k /\ \A i \in 1..k : y[i] = file[i]
    BY <1>0
  <2> HIDE DEF x, y
  <2>3. \A i \in 1..k : x[i] = y[i]
    BY <2>1, <2>2, <1>0, <1>1
  <2> QED BY <2>1, <2>2, <2>3
<1>3. SubSeq(file, 1, Len(file)) = file
  BY <1>0
<1>4. CASE file' = file
  <2>1. Len(file) \in safe..Len(Log) /\ Len(file) \in 0..Len(file)
    BY <1>0, <1>1
  <2>2. file' = SubSeq(Log, 1, Len(file))
    BY <1>2, <1>3, <1>4, <2>1
  <2> QED BY <2>1, <2>2 DEF CutAt
<1>5. ASSUME NEW k \in safe..Len(file), file' = SubSeq(file, 1, k)
      PROVE  \E q \in safe..Len(Log) : CutAt(file', Log, q)
  <2>1. k \in safe..Len(Log) /\ k \in 0..Len(file)
    BY <1>0, <1>1
  <2>2. file' = SubSeq(Log, 1, k)
    BY <1>2, <1>5, <2>1
  <2> QED BY <2>1, <2>2 DEF CutAt
<1>6. ASSUME NEW k \in safe..(Len(file) - 1),
             file' = SubSeq(file, 1, k) \o <<Torn(file[k + 1])>>
      PROVE  \E q \in safe..Len(Log) : CutAt(file', Log, q)
  <2>1. k \in safe..Len(Log) /\ k \in 0..Len(file) /\ k < Len(Log)
    BY <1>0, <1>1
  <2>2. Log[k + 1] = file[k + 1]
    BY <1>0, <1>1
  <2>3. file' = SubSeq(Log, 1, k) \o <<Torn(Log[k + 1])>>
    BY <1>2, <1>6, <2>1, <2>2
  <2> QED BY <2>1, <2>3 DEF CutAt
<1>7. file' \in AfterPowerLoss \/ file' = file
  BY DEF Crash
<1> QED BY <1>4, <1>5, <1>6, <1>7 DEF AfterPowerLoss

LEMMA RecoveredValues ==
    ASSUME TypeInv
    PROVE  /\ Replayed \subseteq 1..Len(file)
           /\ \A i \in 1..Len(file) : file[i].lsn \in Nat /\ RecAt(i) \in Record
           /\ RecoveredRows \in Rows /\ RecoveredSeq \in Nat
           /\ RecoveredTxn \in 0..MaxTxn /\ image.txn <= RecoveredTxn
           /\ \A i \in Replayed : RecAt(i).txn <= RecoveredTxn
<1>0. LogType /\ RestType /\ MaxTxn \in Nat
  BY TypeParts, WalAssumption
<1>1. Replayed \subseteq 1..Len(file) /\ Len(file) \in Nat /\ file \in Seq(Frames)
  <2>1. file \in Seq(Frames)
    BY <1>0 DEF LogType
  <2>2. Len(file) \in Nat
    BY <2>1
  <2>3. GoodLen \in 0..Len(file)
    BY <2>1, GoodLenIs
  <2> QED BY <2>1, <2>2, <2>3 DEF Replayed
<1>2. \A i \in 1..Len(file) : file[i].lsn \in Nat /\ RecAt(i) \in Record
  <2>1. \A i \in 1..Len(file) : file[i] \in Frames
    BY <1>1
  <2> QED BY <2>1 DEF Frames, RecAt
<1>3. RecoveredRows \in Rows
  <2> SUFFICES ASSUME NEW r \in Row PROVE RecoveredRows[r] \in MaybeValue
    BY DEF RecoveredRows, Rows, MaybeValue
  <2> DEFINE ops == {i \in Replayed : /\ RecAt(i).kind = "op" /\ RecAt(i).row = r
                                      /\ RecAt(i).txn \in CommittedIn}
  <2>1. RecoveredRows[r] = IF ops = {} THEN image.rows[r] ELSE RecAt(Last(ops)).val
    BY DEF RecoveredRows
  <2>2. image.rows[r] \in MaybeValue
    BY <1>0 DEF RestType, Rows, MaybeValue
  <2>3. ASSUME ops # {} PROVE RecAt(Last(ops)).val \in MaybeValue
    <3>0. \A i \in Replayed : i \in 0..Len(file)
      BY <1>1
    <3>1. ops \in SUBSET (0..Len(file))
      BY <3>0
    <3>2. Last(ops) \in ops
      <4> HIDE DEF ops
      <4> QED BY <1>1, <2>3, <3>1, LastIs
    <3>3. RecAt(Last(ops)) \in Record /\ RecAt(Last(ops)).kind = "op"
      BY <1>1, <1>2, <3>2
    <3> QED BY <3>3, RecordKinds
  <2> QED BY <2>1, <2>2, <2>3
<1>4. RecoveredSeq \in Nat
  <2> DEFINE sets == {i \in Replayed : RecAt(i).kind = "seq"}
  <2>1. RecoveredSeq = IF sets = {} THEN image.seq ELSE RecAt(Last(sets)).val
    BY DEF RecoveredSeq
  <2>2. image.seq \in Nat
    BY <1>0 DEF RestType
  <2>3. ASSUME sets # {} PROVE RecAt(Last(sets)).val \in Nat
    <3>0. \A i \in Replayed : i \in 0..Len(file)
      BY <1>1
    <3>1. sets \in SUBSET (0..Len(file))
      BY <3>0
    <3>2. Last(sets) \in sets
      <4> HIDE DEF sets
      <4> QED BY <1>1, <2>3, <3>1, LastIs
    <3>3. RecAt(Last(sets)) \in Record /\ RecAt(Last(sets)).kind = "seq"
      BY <1>1, <1>2, <3>2
    <3> QED BY <3>3, RecordKinds
  <2> QED BY <2>1, <2>2, <2>3
<1>5. /\ RecoveredTxn \in 0..MaxTxn /\ image.txn <= RecoveredTxn
      /\ \A i \in Replayed : RecAt(i).txn <= RecoveredTxn
  <2> DEFINE S == {image.txn} \cup {RecAt(i).txn : i \in Replayed}
  <2>1. image.txn \in 0..MaxTxn
    BY <1>0 DEF RestType
  <2>2. \A i \in Replayed : RecAt(i).txn \in 0..MaxTxn
    BY <1>1, <1>2, RecordKinds
  <2>3. S \in SUBSET (0..MaxTxn) /\ image.txn \in S /\ \A i \in Replayed : RecAt(i).txn \in S
    BY <2>1, <2>2
  <2>4. RecoveredTxn = Highest(S)
    BY DEF RecoveredTxn
  <2> HIDE DEF S
  <2> QED BY <1>0, <2>3, <2>4, HighestIs
<1> QED BY <1>1, <1>2, <1>3, <1>4, <1>5

LEMMA RecoveredLsnIs ==
    ASSUME TypeInv
    PROVE  /\ RecoveredLsn \in Nat /\ image.covered <= RecoveredLsn
           /\ \A i \in 1..GoodLen : file[i].lsn <= RecoveredLsn
<1> DEFINE S == {image.covered} \cup {file[i].lsn : i \in 1..GoodLen}
           f == [i \in 1..GoodLen |-> file[i].lsn]
<1>1. /\ file \in Seq(Frames) /\ Len(file) \in Nat /\ GoodLen \in 0..Len(file)
      /\ image.covered \in Nat
  BY GoodLenIs DEF TypeInv, TypeOK
<1>2. \A i \in 1..GoodLen : file[i].lsn \in Nat
  <2>1. \A i \in 1..GoodLen : i \in 1..Len(file)
    BY <1>1
  <2> QED BY <2>1, RecoveredValues
<1>3. PICK b \in Nat : \A i \in 1..GoodLen : file[i].lsn <= b
  <2>1. \A i \in 1..GoodLen : f[i] \in Nat
    BY <1>2
  <2>2. GoodLen \in Nat
    BY <1>1
  <2>3. \E b \in Nat : \A i \in 1..GoodLen : f[i] <= b
    <3> HIDE DEF f
    <3> QED BY <2>1, <2>2, Bounded
  <2> QED BY <2>3
<1> DEFINE c == IF image.covered <= b THEN b ELSE image.covered
<1>4. c \in Nat /\ b <= c /\ image.covered <= c
  BY <1>1, <1>3
<1> HIDE DEF c
<1>5. \A i \in 1..GoodLen : file[i].lsn \in 0..c
  BY <1>2, <1>3, <1>4
<1>6. image.covered \in 0..c
  BY <1>1, <1>4
<1>7. S \in SUBSET (0..c) /\ image.covered \in S /\ \A i \in 1..GoodLen : file[i].lsn \in S
  BY <1>5, <1>6
<1>8. RecoveredLsn = Highest(S)
  BY DEF RecoveredLsn
<1> HIDE DEF S
<1>9. Highest(S) \in S /\ \A y \in S : y <= Highest(S)
  <2>1. S # {} /\ c \in Nat
    BY <1>4, <1>7
  <2> QED BY <1>7, <2>1, HighestIs
<1>10. Highest(S) \in Nat
  BY <1>7, <1>9
<1> QED BY <1>7, <1>8, <1>9, <1>10

LEMMA RecoverTypes ==
    ASSUME TypeInv, Recover \/ RefuseHole
    PROVE  TypeInv'
<1> USE DEF logVars, groupVars, txnVars, seqVars, histVars, boundVars
<1>0. LogType /\ RestType /\ TypeOK /\ MaxTxn \in Nat
  BY TypeParts, WalAssumption DEF TypeInv
<1>1. CASE RefuseHole
  <2>1. LogType'
    BY <1>0, <1>1 DEF RefuseHole, LogType
  <2>2. RestType' /\ mode' # "down"
    BY <1>0, <1>1 DEF RefuseHole, RestType
  <2> QED BY <2>1, <2>2, UpTypes
<1>2. CASE Recover
  <2>1. file \in Seq(Frames) /\ Len(file) \in Nat /\ GoodLen \in 0..Len(file)
    BY <1>0, GoodLenIs DEF LogType
  <2>2. SubSeq(file, 1, GoodLen) \in Seq(Frames) /\ Len(SubSeq(file, 1, GoodLen)) = GoodLen
    BY <2>1
  <2>3. LogType'
    <3>1. file' = SubSeq(file, 1, GoodLen) /\ safe' = GoodLen /\ buf' = buf
          /\ nextLsn' = RecoveredLsn + 1 /\ survived' = survived
      BY <1>2 DEF Recover
    <3>2. safe' \in 0..Len(file')
      BY <2>1, <2>2, <3>1
    <3>3. nextLsn' \in Nat \ {0}
      BY <3>1, RecoveredLsnIs
    <3> QED BY <1>0, <2>2, <3>1, <3>2, <3>3 DEF LogType
  <2>4. /\ db' \in Rows /\ base' \in Rows /\ seq' \in Nat /\ seqPrior' \in Nat
        /\ nextTxn' \in 1..(MaxTxn + 1)
    BY <1>0, <1>2, RecoveredValues DEF Recover
  <2>5. order' \in Seq(Commit) /\ acked' \subseteq 1..Len(order')
    BY <1>2 DEF Recover
  <2>6. RestType' /\ mode' # "down"
    BY <1>0, <1>2, <2>4, <2>5 DEF Recover, RestType
  <2> QED BY <2>3, <2>6, UpTypes
<1> QED BY <1>1, <1>2

LEMMA CrashTypes ==
    ASSUME TypeInv, Crash
    PROVE  TypeInv'
<1>1. PICK k \in safe..Len(Log) : CutAt(file', Log, k)
  BY CrashCuts
<1>2. Log \in Seq(Frames) /\ Len(Log) \in Nat /\ safe \in Nat
  BY LogIs DEF TypeInv
<1>3. k \in 0..Len(Log)
  BY <1>2
<1>4. file' \in Seq(Frames)
  BY <1>1, <1>2, <1>3, CutIs
<1>5. Gone /\ UNCHANGED <<image, base, order, acked, given>> /\ survived' \in Nat
  BY DEF Crash, histVars, TypeInv, TypeOK
<1> QED BY <1>4, <1>5, GoneTypes

LEMMA TypeStep == TypeInv /\ [Next]_vars => TypeInv'
<1> SUFFICES ASSUME TypeInv, [Next]_vars PROVE TypeInv'
  OBVIOUS
<1>1. CASE UNCHANGED vars
  BY <1>1 DEF vars, logVars, groupVars, txnVars, seqVars, histVars, boundVars,
              TypeInv, TypeOK, Blank
<1>2. ASSUME NEW t \in Txn, Session(t) \/ Engine(t) \/ CompensateFails(t) PROVE TypeInv'
  BY <1>2, SessionTypes, EngineTypes
<1> QED BY <1>1, <1>2, GroupTypes, LeaderFailsTypes, SequenceTypes, CheckpointTypes,
           CrashTypes, RecoverTypes DEF Next

LEMMA TypeStart == Init => TypeInv
<1> SUFFICES ASSUME Init PROVE TypeInv
  OBVIOUS
<1>0. MaxTxn \in Nat
  BY WalAssumption
<1>1. LogType
  BY DEF Init, LogType
<1>2. [r \in Row |-> NoValue] \in Rows
  BY DEF Rows
<1>3. /\ undo \in [Txn -> Seq(Undo)] /\ undoing \in [Txn -> Seq(Undo)]
      /\ need \in [Thread -> Nat] /\ lock \in [Row -> Txn \cup {0}]
      /\ status \in [Txn -> {"none", "running", "failed", "staged", "aborting", "ended"}]
      /\ order \in Seq(Commit) /\ acked \subseteq 1..Len(order)
  BY DEF Init
<1>4. /\ image \in [rows : Rows, seq : Nat, txn : Nat, covered : Nat]
      /\ image.txn <= MaxTxn
  BY <1>0, <1>2 DEF Init
<1>5. nextTxn \in 1..(MaxTxn + 1) /\ db \in Rows /\ base \in Rows
  BY <1>0, <1>2 DEF Init
<1>6. RestType
  BY <1>3, <1>4, <1>5 DEF Init, RestType
<1> QED BY <1>1, <1>6, TypeParts DEF Init

\* The variables of the log, of the group commit and of the engine keep their
\* types, whatever writes fail and whatever a crash leaves behind (WalWriter,
\* GroupCommit, open_impl).
THEOREM WalTyped == Spec => []TypeOK
<1>1. TypeInv => TypeOK
  BY DEF TypeInv
<1> QED BY <1>1, TypeStart, TypeStep, PTL DEF Spec

-----------------------------------------------------------------------------
(* Replaying: what frames, cuts and commits contribute                     *)

LEMMA FrameParts ==
    ASSUME NEW L \in Seq(Frames), NEW i \in 1..Len(L)
    PROVE  /\ L[i] \in Frames /\ L[i].lsn \in Nat /\ L[i].rec \in Record
           /\ L[i].rec.txn \in 0..MaxTxn /\ L[i].rec.txn \in Nat
<1>1. L[i] \in Frames
  OBVIOUS
<1>2. L[i].lsn \in Nat /\ L[i].rec \in Record
  BY <1>1 DEF Frames
<1> QED BY <1>1, <1>2, RecordKinds

\* Two logs with the same first k frames replay to the same up to there.
LEMMA SameRow ==
    ASSUME NEW L, NEW M, NEW im, NEW k \in Nat, NEW r, \A i \in 1..k : L[i] = M[i]
    PROVE  RowAt(L, im, k, r) = RowAt(M, im, k, r)
<1>1. \A t : CommitIn(L, im, k, t) <=> CommitIn(M, im, k, t)
  BY DEF CommitIn
<1> DEFINE S == OpsIn(L, im, k, r)
<1>2. S = OpsIn(M, im, k, r)
  BY <1>1 DEF OpsIn
<1>3. S \in SUBSET (0..k) /\ S \in SUBSET (1..k)
  BY DEF OpsIn
<1>4. CASE S = {}
  BY <1>2, <1>4 DEF RowAt
<1>5. CASE S # {}
  <2>1. Last(S) \in S
    <3> HIDE DEF S
    <3> QED BY <1>3, <1>5, LastIs
  <2>2. L[Last(S)] = M[Last(S)]
    BY <1>3, <2>1
  <2> QED BY <1>2, <1>5, <2>2 DEF RowAt
<1> QED BY <1>4, <1>5

LEMMA SameSeq ==
    ASSUME NEW L, NEW M, NEW im, NEW k \in Nat, \A i \in 1..k : L[i] = M[i]
    PROVE  SeqAt(L, im, k) = SeqAt(M, im, k)
<1> DEFINE S == SeqsIn(L, im, k)
<1>1. S = SeqsIn(M, im, k)
  BY DEF SeqsIn
<1>2. S \in SUBSET (0..k) /\ S \in SUBSET (1..k)
  BY DEF SeqsIn
<1>3. CASE S = {}
  BY <1>1, <1>3 DEF SeqAt
<1>4. CASE S # {}
  <2>1. Last(S) \in S
    <3> HIDE DEF S
    <3> QED BY <1>2, <1>4, LastIs
  <2>2. L[Last(S)] = M[Last(S)]
    BY <1>2, <2>1
  <2> QED BY <1>1, <1>4, <2>2 DEF SeqAt
<1> QED BY <1>3, <1>4

LEMMA AppendIs ==
    ASSUME NEW L \in Seq(Frames), NEW f \in Frames
    PROVE  /\ Append(L, f) \in Seq(Frames) /\ Len(L) \in Nat
           /\ Len(Append(L, f)) = Len(L) + 1 /\ Append(L, f)[Len(L) + 1] = f
           /\ \A i \in 1..Len(L) : Append(L, f)[i] = L[i]
OBVIOUS

\* A frame that is no commit marker, and no operation of a transaction with
\* one, adds nothing.
LEMMA AppendNeutral ==
    ASSUME NEW L \in Seq(Frames), NEW f \in Frames, NEW im, f.rec.kind # "commit",
           f.rec.kind = "op" => ~CommitIn(L, im, Len(L), f.rec.txn)
    PROVE  \A r : RowAt(Append(L, f), im, Len(L) + 1, r) = RowAt(L, im, Len(L), r)
<1> DEFINE M == Append(L, f)
           n == Len(L)
<1>1. /\ n \in Nat /\ M[n + 1] = f /\ \A i \in 1..n : M[i] = L[i]
  BY AppendIs
<1> HIDE DEF M, n
<1>2. 1..(n + 1) = (1..n) \cup {n + 1}
  BY <1>1
<1>3. \A t : CommitIn(M, im, n + 1, t) <=> CommitIn(L, im, n, t)
  <2> SUFFICES ASSUME NEW t PROVE CommitIn(M, im, n + 1, t) <=> CommitIn(L, im, n, t)
    OBVIOUS
  <2>1. ~IsCommit(M[n + 1], t)
    BY <1>1 DEF IsCommit
  <2> QED BY <1>1, <1>2, <2>1 DEF CommitIn
<1>4. ASSUME NEW r PROVE OpsIn(M, im, n + 1, r) = OpsIn(L, im, n, r)
  <2>1. n + 1 \notin OpsIn(M, im, n + 1, r)
    BY <1>1, <1>3 DEF OpsIn, n
  <2>2. \A i \in 1..n : i \in OpsIn(M, im, n + 1, r) <=> i \in OpsIn(L, im, n, r)
    BY <1>1, <1>2, <1>3 DEF OpsIn
  <2>3. OpsIn(M, im, n + 1, r) \subseteq 1..(n + 1) /\ OpsIn(L, im, n, r) \subseteq 1..n
    BY DEF OpsIn
  <2> QED BY <1>2, <2>1, <2>2, <2>3
<1>5. ASSUME NEW r PROVE RowAt(M, im, n + 1, r) = RowAt(L, im, n, r)
  <2> DEFINE S == OpsIn(L, im, n, r)
  <2>1. S = OpsIn(M, im, n + 1, r) /\ S \in SUBSET (0..n) /\ S \in SUBSET (1..n)
    <3>1. S \in SUBSET (1..n)
      BY DEF OpsIn
    <3>2. S \in SUBSET (0..n)
      BY <1>1, <3>1
    <3> QED BY <1>4, <3>1, <3>2
  <2>2. CASE S = {}
    BY <2>1, <2>2 DEF RowAt
  <2>3. CASE S # {}
    <3>1. Last(S) \in S
      <4> HIDE DEF S
      <4> QED BY <1>1, <2>1, <2>3, LastIs
    <3>2. M[Last(S)] = L[Last(S)]
      BY <1>1, <2>1, <3>1
    <3> QED BY <2>1, <2>3, <3>2 DEF RowAt
  <2> QED BY <2>2, <2>3
<1> QED BY <1>5 DEF M, n

\* The commit marker of t takes in the operations of t on a row and no others.
LEMMA AppendCommitOps ==
    ASSUME NEW L \in Seq(Frames), NEW f \in Frames, NEW im, NEW t, NEW r,
           IsCommit(f, t), f.lsn > im.covered
    PROVE  /\ Len(L) \in Nat
           /\ OpsIn(Append(L, f), im, Len(L) + 1, r) \in SUBSET (1..Len(L))
           /\ \A i \in 1..Len(L) :
                 /\ Append(L, f)[i] = L[i]
                 /\ i \in OpsIn(Append(L, f), im, Len(L) + 1, r) <=>
                        \/ i \in OpsIn(L, im, Len(L), r)
                        \/ L[i].lsn > im.covered /\ IsOp(L[i], t, r)
<1> DEFINE M == Append(L, f)
           n == Len(L)
<1>1. /\ n \in Nat /\ M[n + 1] = f /\ \A i \in 1..n : M[i] = L[i]
  BY AppendIs
<1>2. f.rec.kind # "op"
  BY DEF IsCommit
<1> HIDE DEF M, n
<1>3. 1..(n + 1) = (1..n) \cup {n + 1}
  BY <1>1
<1>4. \A u : CommitIn(M, im, n + 1, u) <=> CommitIn(L, im, n, u) \/ u = t
  <2> SUFFICES ASSUME NEW u
               PROVE  CommitIn(M, im, n + 1, u) <=> CommitIn(L, im, n, u) \/ u = t
    OBVIOUS
  <2>1. IsCommit(M[n + 1], u) <=> u = t
    BY <1>1 DEF IsCommit
  <2>2. M[n + 1].lsn > im.covered
    BY <1>1
  <2> QED BY <1>1, <1>3, <2>1, <2>2 DEF CommitIn
<1>5. OpsIn(M, im, n + 1, r) \in SUBSET (1..n)
  BY <1>1, <1>2, <1>3 DEF OpsIn
<1>6. \A i \in 1..n : i \in OpsIn(M, im, n + 1, r) <=>
                          \/ i \in OpsIn(L, im, n, r)
                          \/ L[i].lsn > im.covered /\ IsOp(L[i], t, r)
  BY <1>1, <1>3, <1>4 DEF OpsIn, IsOp
<1> QED BY <1>1, <1>5, <1>6 DEF M, n

\* A row that t has not written keeps its value.
LEMMA AppendCommitOther ==
    ASSUME NEW L \in Seq(Frames), NEW f \in Frames, NEW im, NEW t, NEW r,
           IsCommit(f, t), f.lsn > im.covered, \A i \in 1..Len(L) : ~IsOp(L[i], t, r)
    PROVE  RowAt(Append(L, f), im, Len(L) + 1, r) = RowAt(L, im, Len(L), r)
<1> DEFINE M == Append(L, f)
           n == Len(L)
           S == OpsIn(M, im, n + 1, r)
<1>1. /\ n \in Nat /\ S \in SUBSET (1..n)
      /\ \A i \in 1..n : M[i] = L[i] /\ (i \in S <=> i \in OpsIn(L, im, n, r))
  BY AppendCommitOps
<1>2. OpsIn(L, im, n, r) \subseteq 1..n
  BY DEF OpsIn
<1>3. S = OpsIn(L, im, n, r)
  <2> HIDE DEF S, M, n
  <2> QED BY <1>1, <1>2
<1>4. CASE S = {}
  BY <1>3, <1>4 DEF RowAt
<1>5. CASE S # {}
  <2>0. S \in SUBSET (0..n)
    BY <1>1
  <2>1. Last(S) \in S
    <3> HIDE DEF S, n
    <3> QED BY <1>1, <1>5, <2>0, LastIs
  <2>2. M[Last(S)] = L[Last(S)]
    <3> HIDE DEF S, n, M
    <3> QED BY <1>1, <2>1
  <2> QED BY <1>3, <1>5, <2>2 DEF RowAt
<1> QED BY <1>4, <1>5

\* No operation on r follows frame i.
NoLaterOp(L, i, r) == \A j \in (i + 1)..Len(L) : \A u : ~IsOp(L[j], u, r)

\* One that t was the last to write gets t's last value.
LEMMA AppendCommitOwn ==
    ASSUME NEW L \in Seq(Frames), NEW f \in Frames, NEW im, NEW t, NEW r, IsCommit(f, t), f.lsn > im.covered,
           NEW i \in 1..Len(L), IsOp(L[i], t, r), L[i].lsn > im.covered,
           NoLaterOp(L, i, r)
    PROVE  RowAt(Append(L, f), im, Len(L) + 1, r) = L[i].rec.val
<1> DEFINE n == Len(L)
           M == Append(L, f)
           S == OpsIn(M, im, n + 1, r)
<1>1. /\ n \in Nat /\ S \in SUBSET (1..n) /\ i \in S /\ M[i] = L[i]
      /\ \A y \in 1..n : y \in S <=> \/ y \in OpsIn(L, im, n, r)
                                     \/ L[y].lsn > im.covered /\ IsOp(L[y], t, r)
  BY AppendCommitOps
<1>2. \A y \in S : y <= i
  <2> SUFFICES ASSUME NEW y \in S, ~(y <= i) PROVE FALSE
    OBVIOUS
  <2>1. y \in 1..n /\ y \in (i + 1)..n
    BY <1>1
  <2>2. IsOp(L[y], L[y].rec.txn, r) \/ IsOp(L[y], t, r)
    BY <1>1, <2>1 DEF OpsIn, IsOp
  <2> QED BY <2>1, <2>2 DEF NoLaterOp
<1>3. S \in SUBSET Nat
  BY <1>1
<1>4. Last(S) = i
  <2> HIDE DEF S
  <2> QED BY <1>1, <1>2, <1>3, LastAt
<1>5. S # {}
  BY <1>1
<1> QED BY <1>1, <1>4, <1>5 DEF RowAt

LEMMA AppendSeq ==
    ASSUME NEW L \in Seq(Frames), NEW f \in Frames, NEW im
    PROVE  /\ f.rec.kind # "seq" =>
                  SeqAt(Append(L, f), im, Len(L) + 1) = SeqAt(L, im, Len(L))
           /\ f.rec.kind = "seq" /\ f.lsn > im.covered =>
                  SeqAt(Append(L, f), im, Len(L) + 1) = f.rec.val
<1> DEFINE M == Append(L, f)
           n == Len(L)
<1>1. /\ n \in Nat /\ M[n + 1] = f /\ \A i \in 1..n : M[i] = L[i]
  BY AppendIs
<1> HIDE DEF M, n
<1>2. 1..(n + 1) = (1..n) \cup {n + 1}
  BY <1>1
<1> DEFINE S == SeqsIn(M, im, n + 1)
<1>3. S \in SUBSET (1..(n + 1))
  BY DEF SeqsIn
<1>4. ASSUME f.rec.kind # "seq" PROVE SeqAt(M, im, n + 1) = SeqAt(L, im, n)
  <2>1. S = SeqsIn(L, im, n)
    BY <1>1, <1>2, <1>4 DEF SeqsIn
  <2>2. S \in SUBSET (1..n)
    BY <2>1 DEF SeqsIn
  <2>3. CASE S = {}
    BY <2>1, <2>3 DEF SeqAt
  <2>4. CASE S # {}
    <3>0. S \in SUBSET (0..n)
      BY <1>1, <2>2
    <3>1. Last(S) \in S
      <4> HIDE DEF S
      <4> QED BY <1>1, <3>0, <2>4, LastIs
    <3>2. M[Last(S)] = L[Last(S)]
      BY <1>1, <2>2, <3>1
    <3> QED BY <2>1, <2>4, <3>2 DEF SeqAt
  <2> QED BY <2>3, <2>4
<1>5. ASSUME f.rec.kind = "seq", f.lsn > im.covered PROVE SeqAt(M, im, n + 1) = f.rec.val
  <2>1. n + 1 \in S
    BY <1>1, <1>2, <1>5 DEF SeqsIn
  <2>2. S \in SUBSET Nat /\ \A y \in S : y <= n + 1
    BY <1>1, <1>3
  <2>3. Last(S) = n + 1
    <3> HIDE DEF S
    <3> QED BY <2>1, <2>2, LastAt
  <2> QED BY <1>1, <2>1, <2>3 DEF SeqAt
<1> QED BY <1>4, <1>5 DEF M, n

LEMMA AppliedPrefix ==
    ASSUME NEW o \in Seq(Commit), NEW c \in Commit, NEW b, NEW r
    PROVE  /\ \A n \in 0..Len(o) : AppliedAt(b, Append(o, c), n, r) = AppliedAt(b, o, n, r)
           /\ AppliedAt(b, Append(o, c), Len(o) + 1, r) =
                  IF r \in DOMAIN c.sets THEN c.sets[r] ELSE AppliedAt(b, o, Len(o), r)
<1> DEFINE p == Append(o, c)
           m == Len(o)
<1>1. /\ m \in Nat /\ p[m + 1] = c /\ \A i \in 1..m : p[i] = o[i]
  OBVIOUS
<1> HIDE DEF p, m
<1>2. ASSUME NEW n \in 0..m PROVE AppliedAt(b, p, n, r) = AppliedAt(b, o, n, r)
  <2> DEFINE S == SetsIn(o, n, r)
  <2>1. \A i \in 1..n : i \in 1..m
    BY <1>1
  <2>2. S = SetsIn(p, n, r) /\ S \in SUBSET (1..n)
    BY <1>1, <2>1 DEF SetsIn
  <2>3. CASE S = {}
    BY <2>2, <2>3 DEF AppliedAt
  <2>4. CASE S # {}
    <3>0. S \in SUBSET (0..n) /\ n \in Nat
      BY <1>1, <2>2
    <3>1. Last(S) \in S
      <4> HIDE DEF S
      <4> QED BY <3>0, <2>4, LastIs
    <3>2. p[Last(S)] = o[Last(S)]
      BY <1>1, <2>1, <2>2, <3>1
    <3> QED BY <2>2, <2>4, <3>2 DEF AppliedAt
  <2> QED BY <2>3, <2>4
<1>3. 1..(m + 1) = (1..m) \cup {m + 1}
  BY <1>1
<1> DEFINE S == SetsIn(p, m + 1, r)
<1>4. ASSUME r \in DOMAIN c.sets PROVE AppliedAt(b, p, m + 1, r) = c.sets[r]
  <2>1. m + 1 \in S /\ S \in SUBSET (1..(m + 1))
    BY <1>1, <1>3, <1>4 DEF SetsIn
  <2>2. S \in SUBSET Nat /\ \A y \in S : y <= m + 1
    BY <1>1, <2>1
  <2>3. Last(S) = m + 1
    <3> HIDE DEF S
    <3> QED BY <2>1, <2>2, LastAt
  <2> QED BY <1>1, <2>1, <2>3 DEF AppliedAt
<1>5. ASSUME r \notin DOMAIN c.sets PROVE AppliedAt(b, p, m + 1, r) = AppliedAt(b, o, m, r)
  <2>1. S = SetsIn(p, m, r)
    BY <1>1, <1>3, <1>5 DEF SetsIn
  <2>2. AppliedAt(b, p, m + 1, r) = AppliedAt(b, p, m, r)
    BY <2>1 DEF AppliedAt
  <2>3. m \in 0..m
    BY <1>1
  <2> QED BY <1>2, <2>2, <2>3
<1> QED BY <1>2, <1>4, <1>5 DEF p, m

\* One commit more.
LEMMA AppliedOwn ==
    ASSUME NEW o \in Seq(Commit), NEW c \in Commit, NEW b, NEW r, r \in DOMAIN c.sets
    PROVE  AppliedAt(b, Append(o, c), Len(o) + 1, r) = c.sets[r]
BY AppliedPrefix

LEMMA AppliedOther ==
    ASSUME NEW o \in Seq(Commit), NEW c \in Commit, NEW b, NEW r, r \notin DOMAIN c.sets
    PROVE  AppliedAt(b, Append(o, c), Len(o) + 1, r) = AppliedAt(b, o, Len(o), r)
BY AppliedPrefix

-----------------------------------------------------------------------------
(* Cuts                                                                    *)

\* Uncut, the log keeps every commit.
LEMMA Uncut ==
    ASSUME NEW L \in Seq(Frames), NEW o \in Seq(Commit), NEW im, NEW b
    PROVE  Replays(L, im, b, o, Len(L)) <=>
               \A r \in Row : RowAt(L, im, Len(L), r) = AppliedAt(b, o, Len(o), r)
<1>1. Len(L) \in Nat /\ Len(o) \in Nat
  OBVIOUS
<1>2. \A t : ~MarkedAfter(L, im, Len(L), t)
  BY <1>1 DEF MarkedAfter
<1>3. CutKeeps(L, im, o, Len(L), Len(o))
  BY <1>1, <1>2 DEF CutKeeps
<1>4. ASSUME NEW n \in 0..Len(o), CutKeeps(L, im, o, Len(L), n) PROVE n = Len(o)
  BY <1>1, <1>2, <1>4 DEF CutKeeps
<1>5. Len(o) \in 0..Len(o)
  BY <1>1
<1> QED BY <1>3, <1>4, <1>5 DEF Replays

\* An old cut of a log that grew by a frame without a commit marker.
LEMMA CutNeutral ==
    ASSUME NEW L \in Seq(Frames), NEW f \in Frames, NEW im, NEW b, NEW o \in Seq(Commit),
           f.rec.kind # "commit", NEW k \in 0..Len(L), Replays(L, im, b, o, k)
    PROVE  Replays(Append(L, f), im, b, o, k)
<1> DEFINE M == Append(L, f)
           n == Len(L)
<1>1. /\ n \in Nat /\ M[n + 1] = f /\ Len(M) = n + 1 /\ \A i \in 1..n : M[i] = L[i]
  BY AppendIs
<1>2. PICK m \in 0..Len(o) : /\ CutKeeps(L, im, o, k, m)
                             /\ \A r \in Row : RowAt(L, im, k, r) = AppliedAt(b, o, m, r)
  BY DEF Replays
<1>3. k \in 0..n
  OBVIOUS
<1> HIDE DEF M, n
<1>4. \A t : MarkedAfter(M, im, k, t) <=> MarkedAfter(L, im, k, t)
  <2> SUFFICES ASSUME NEW t PROVE MarkedAfter(M, im, k, t) <=> MarkedAfter(L, im, k, t)
    OBVIOUS
  <2>1. ~IsCommit(M[n + 1], t)
    BY <1>1 DEF IsCommit
  <2>2. (k + 1)..Len(M) = ((k + 1)..n) \cup {n + 1}
    BY <1>1, <1>3
  <2>3. \A p \in (k + 1)..n : M[p] = L[p]
    BY <1>1, <1>3
  <2> QED BY <2>1, <2>2, <2>3 DEF MarkedAfter, n
<1>5. CutKeeps(M, im, o, k, m)
  BY <1>2, <1>4 DEF CutKeeps
<1>6. \A r : RowAt(L, im, k, r) = RowAt(M, im, k, r)
  <2>1. k \in Nat /\ \A i \in 1..k : L[i] = M[i]
    BY <1>1, <1>3
  <2> QED BY <2>1, SameRow
<1> QED BY <1>2, <1>5, <1>6 DEF Replays, M

\* An old cut of a log that grew by the commit marker of t.
LEMMA CutCommit ==
    ASSUME NEW L \in Seq(Frames), NEW f \in Frames, NEW im, NEW b, NEW o \in Seq(Commit),
           NEW c \in Commit, IsCommit(f, c.txn), f.lsn > im.covered,
           \A i \in 1..Len(o) : o[i].txn # c.txn,
           NEW k \in 0..Len(L), Replays(L, im, b, o, k)
    PROVE  Replays(Append(L, f), im, b, Append(o, c), k)
<1> DEFINE M == Append(L, f)
           n == Len(L)
           q == Append(o, c)
<1>1. /\ n \in Nat /\ M[n + 1] = f /\ Len(M) = n + 1 /\ \A i \in 1..n : M[i] = L[i]
  BY AppendIs
<1>2. PICK m \in 0..Len(o) : /\ CutKeeps(L, im, o, k, m)
                             /\ \A r \in Row : RowAt(L, im, k, r) = AppliedAt(b, o, m, r)
  BY DEF Replays
<1>3. k \in 0..n /\ Len(o) \in Nat
  OBVIOUS
<1>4. Len(q) = Len(o) + 1 /\ q[Len(o) + 1] = c /\ \A i \in 1..Len(o) : q[i] = o[i]
  OBVIOUS
<1> HIDE DEF M, n, q
<1>5. (k + 1)..Len(M) = ((k + 1)..n) \cup {n + 1}
  BY <1>1, <1>3
<1>6. \A p \in (k + 1)..n : M[p] = L[p]
  BY <1>1, <1>3
<1>7. \A t : t # c.txn => (MarkedAfter(M, im, k, t) <=> MarkedAfter(L, im, k, t))
  <2> SUFFICES ASSUME NEW t, t # c.txn
               PROVE  MarkedAfter(M, im, k, t) <=> MarkedAfter(L, im, k, t)
    OBVIOUS
  <2>1. ~IsCommit(M[n + 1], t)
    BY <1>1 DEF IsCommit
  <2> QED BY <1>5, <1>6, <2>1 DEF MarkedAfter, n
<1>8. MarkedAfter(M, im, k, c.txn)
  BY <1>1, <1>5 DEF MarkedAfter
<1>9. CutKeeps(M, im, q, k, m)
  <2> SUFFICES ASSUME NEW i \in 1..Len(q)
               PROVE  i <= m <=> ~MarkedAfter(M, im, k, q[i].txn)
    BY DEF CutKeeps
  <2>1. CASE i \in 1..Len(o)
    BY <1>2, <1>4, <1>7, <2>1 DEF CutKeeps
  <2>2. CASE i = Len(o) + 1
    <3>1. ~(i <= m)
      BY <1>3, <2>2
    <3> QED BY <1>4, <1>8, <2>2, <3>1
  <2> QED BY <1>3, <1>4, <2>1, <2>2
<1>10. \A r : RowAt(L, im, k, r) = RowAt(M, im, k, r)
  <2>1. k \in Nat /\ \A i \in 1..k : L[i] = M[i]
    BY <1>1, <1>3
  <2> QED BY <2>1, SameRow
<1>11. \A r : AppliedAt(b, q, m, r) = AppliedAt(b, o, m, r)
  BY AppliedPrefix DEF q
<1>12. m \in 0..Len(q)
  BY <1>3, <1>4
<1> QED BY <1>2, <1>9, <1>10, <1>11, <1>12 DEF Replays, M, q

\* A log of which nothing counts any more replays to the image.
LEMMA CutCovered ==
    ASSUME NEW L \in Seq(Frames), NEW im, NEW b, NEW o \in Seq(Commit),
           im.covered \in Nat, \A i \in 1..Len(L) : L[i].lsn <= im.covered,
           NEW k \in 0..Len(L)
    PROVE  /\ (\A r \in Row : im.rows[r] = AppliedAt(b, o, Len(o), r)) => Replays(L, im, b, o, k)
           /\ SeqAt(L, im, k) = im.seq
<1>1. Len(L) \in Nat /\ Len(o) \in Nat
  OBVIOUS
<1>2. \A i \in 1..Len(L) : ~(L[i].lsn > im.covered)
  BY FrameParts
<1>3. \A i \in 1..k : i \in 1..Len(L)
  BY <1>1
<1>4. \A t : ~MarkedAfter(L, im, k, t)
  <2>1. \A i \in (k + 1)..Len(L) : i \in 1..Len(L)
    BY <1>1
  <2> QED BY <1>2, <2>1 DEF MarkedAfter
<1>5. CutKeeps(L, im, o, k, Len(o))
  BY <1>1, <1>4 DEF CutKeeps
<1>6. \A r : RowAt(L, im, k, r) = im.rows[r]
  <2> SUFFICES ASSUME NEW r PROVE RowAt(L, im, k, r) = im.rows[r]
    OBVIOUS
  <2>1. OpsIn(L, im, k, r) = {}
    BY <1>2, <1>3 DEF OpsIn
  <2> QED BY <2>1 DEF RowAt
<1>7. SeqAt(L, im, k) = im.seq
  <2>1. SeqsIn(L, im, k) = {}
    BY <1>2, <1>3 DEF SeqsIn
  <2> QED BY <2>1 DEF SeqAt
<1>8. Len(o) \in 0..Len(o)
  BY <1>1
<1> QED BY <1>5, <1>6, <1>7, <1>8 DEF Replays

\* The last sequence record decides for every cut behind it.
LEMMA SeqDecided ==
    ASSUME NEW L \in Seq(Frames), NEW im, NEW p \in 1..Len(L),
           L[p].lsn > im.covered, L[p].rec.kind = "seq",
           \A q \in (p + 1)..Len(L) : L[q].rec.kind # "seq",
           NEW k \in p..Len(L)
    PROVE  SeqAt(L, im, k) = L[p].rec.val
<1> DEFINE S == SeqsIn(L, im, k)
<1>1. Len(L) \in Nat /\ p \in 1..k /\ k \in Nat
  OBVIOUS
<1>2. p \in S /\ S \in SUBSET (1..k)
  BY <1>1 DEF SeqsIn
<1>3. S \in SUBSET Nat
  BY <1>1, <1>2
<1>4. \A y \in S : y <= p
  <2> SUFFICES ASSUME NEW y \in S, ~(y <= p) PROVE FALSE
    OBVIOUS
  <2>1. y \in (p + 1)..Len(L)
    BY <1>1, <1>2
  <2>2. L[y].rec.kind = "seq"
    BY DEF SeqsIn
  <2> QED BY <2>1, <2>2
<1>5. Last(S) = p
  <2> HIDE DEF S
  <2> QED BY <1>2, <1>3, <1>4, LastAt
<1> QED BY <1>2, <1>5 DEF SeqAt

-----------------------------------------------------------------------------
(* Appending a record                                                      *)

\* What a step that appends rec leaves alone in any case.
Logs(rec) ==
    /\ AppendRec(rec) /\ mode = "up" /\ mode' = "up" /\ ~ckpt /\ ckpt' = ckpt
    /\ UNCHANGED <<safe, image, durable, leader, tail, nextTxn, db, base, acked, given>>

\* The log grew by the frame f of rec, from n frames.
Grown(rec, f, n) ==
    /\ f.lsn = nextLsn /\ f.rec = rec /\ f.whole /\ n = Len(Log) /\ safe <= n
    /\ Log \in Seq(Frames) /\ Log' = Append(Log, f) /\ Len(Log') = n + 1
    /\ Log'[n + 1] = f /\ 1..(n + 1) = (1..n) \cup {n + 1}
    /\ \A i \in 1..n : Log'[i] = Log[i]
    /\ nextLsn' = nextLsn + 1 /\ nextLsn \in Nat /\ Len(file) <= Len(file')
    /\ Len(file) \in Nat /\ Len(file') \in Nat

LEMMA LogGrows ==
    ASSUME TypeInv, NEW rec \in Record, Logs(rec)
    PROVE  \E f \in Frames, n \in Nat : Grown(rec, f, n)
<1> DEFINE f == Frame(rec)
<1>0. TypeOK /\ nextLsn \in Nat /\ file \in Seq(Frames)
  BY DEF TypeInv, TypeOK
<1>1. f \in Frames /\ f.lsn = nextLsn /\ f.rec = rec /\ f.whole
  BY <1>0, FrameIs
<1>2. /\ Log' = Append(Log, f) /\ nextLsn' = nextLsn + 1 /\ Len(file) <= Len(file')
      /\ file' \in Seq(Frames)
  BY <1>0, AppendEffect DEF Logs
<1>3. Log \in Seq(Frames) /\ Len(Log) \in Nat /\ safe <= Len(Log)
  <2>1. /\ Log \in Seq(Frames) /\ Len(Log) \in Nat /\ Len(file) \in Nat /\ safe \in Nat
        /\ safe <= Len(file) /\ Len(file) <= Len(Log)
    BY <1>0, LogIs
  <2> QED BY <2>1
<1> HIDE DEF f
<1>4. /\ Len(Append(Log, f)) = Len(Log) + 1 /\ Append(Log, f)[Len(Log) + 1] = f
      /\ \A i \in 1..Len(Log) : Append(Log, f)[i] = Log[i]
  BY <1>1, <1>3
<1>5. 1..(Len(Log) + 1) = (1..Len(Log)) \cup {Len(Log) + 1}
  BY <1>3
<1>6. /\ f.lsn = nextLsn /\ f.rec = rec /\ f.whole /\ safe <= Len(Log)
      /\ Log \in Seq(Frames) /\ Log' = Append(Log, f) /\ Len(Log') = Len(Log) + 1
      /\ Log'[Len(Log) + 1] = f /\ \A i \in 1..Len(Log) : Log'[i] = Log[i]
      /\ nextLsn' = nextLsn + 1 /\ nextLsn \in Nat /\ Len(file) <= Len(file')
      /\ Len(file) \in Nat /\ Len(file') \in Nat
  BY <1>0, <1>1, <1>2, <1>3, <1>4
<1> QED BY <1>1, <1>3, <1>5, <1>6 DEF Grown

\* The log itself stays in order.
LEMMA AppendKeepsLog ==
    ASSUME TypeInv, Sound, NEW rec \in Record, Logs(rec), rec.txn < nextTxn,
           rec.kind \in {"commit", "abort"} => status[rec.txn] \in {"running", "aborting"},
           \A t \in Txn : status'[t] # "none" => status[t] # "none"
    PROVE  Climbs' /\ OneEnd' /\ WriterInv'
<1>0. Climbs /\ OneEnd /\ WriterInv /\ MarkerInv /\ image' = image /\ nextTxn' = nextTxn
  BY DEF Sound, UpInv, Logs
<1>1. PICK f \in Frames, n \in Nat : Grown(rec, f, n)
  BY LogGrows
<1> USE DEF Grown
<1>2. \A i \in 1..n : Log[i].lsn \in Nat
  BY <1>1, FrameParts
<1>3. Climbs'
  <2>1. \A i, j \in 1..Len(Log') : i < j => Log'[i].lsn < Log'[j].lsn
    <3> SUFFICES ASSUME NEW i \in 1..Len(Log'), NEW j \in 1..Len(Log'), i < j
                 PROVE  Log'[i].lsn < Log'[j].lsn
      OBVIOUS
    <3>1. i \in 1..n
      BY <1>1
    <3>2. Log[i].lsn < nextLsn
      BY <1>0, <1>1, <3>1 DEF WriterInv
    <3>3. CASE j \in 1..n
      <4>1. Log[i].lsn < Log[j].lsn
        BY <1>0, <1>1, <3>1, <3>3 DEF Climbs
      <4> QED BY <1>1, <3>1, <3>3, <4>1
    <3>4. CASE j = n + 1
      BY <1>1, <3>1, <3>2, <3>4
    <3> QED BY <1>1, <3>3, <3>4
  <2>2. \A i \in 1..Len(Log') : Log'[i].lsn > 0
    BY <1>0, <1>1 DEF Climbs, TypeInv, TypeOK
  <2>3. \A i \in 1..Len(Log') : Log'[i].lsn <= image.covered => Log'[i].rec.txn <= image.txn
    <3>1. ~(f.lsn <= image.covered)
      <4>1. image.covered \in Nat /\ image.covered < nextLsn
        BY <1>0 DEF WriterInv, TypeInv, TypeOK
      <4> QED BY <1>1, <4>1
    <3> QED BY <1>0, <1>1, <3>1 DEF Climbs
  <2> QED BY <1>0, <2>1, <2>2, <2>3 DEF Climbs
<1>4. OneEnd'
  <2> SUFFICES ASSUME NEW t \in Txn, NEW i \in 1..Len(Log'), NEW j \in 1..Len(Log'),
                      IsCommit(Log'[i], t)
               PROVE  ~IsAbort(Log'[j], t) /\ (IsCommit(Log'[j], t) => i = j)
    BY DEF OneEnd
  <2>1. CASE i \in 1..n /\ j \in 1..n
    BY <1>0, <1>1, <2>1 DEF OneEnd
  <2>2. CASE i = n + 1 /\ j \in 1..n
    <3>1. rec.kind = "commit" /\ rec.txn = t /\ Log'[j] = Log[j] /\ j \in 1..Len(Log)
      BY <1>1, <2>2 DEF IsCommit
    <3>2. status[t] \in {"running", "aborting"}
      BY <3>1
    <3>3. ~IsCommit(Log[j], t) /\ ~IsAbort(Log[j], t)
      BY <1>0, <3>1, <3>2 DEF MarkerInv
    <3> QED BY <3>1, <3>3
  <2>3. CASE i \in 1..n /\ j = n + 1
    <3>1. IsCommit(Log[i], t) /\ Log'[j] = f /\ i \in 1..Len(Log)
      BY <1>1, <2>3
    <3>2. status[t] \in {"none", "staged", "ended"}
      BY <1>0, <3>1 DEF MarkerInv
    <3>3. ~IsCommit(f, t) /\ ~IsAbort(f, t)
      BY <1>1, <3>2 DEF IsCommit, IsAbort
    <3> QED BY <3>1, <3>3
  <2>4. CASE i = n + 1 /\ j = n + 1
    BY <2>4 DEF IsCommit, IsAbort
  <2> QED BY <1>1, <2>1, <2>2, <2>3, <2>4
<1>5. WriterInv'
  <2>1. \A i \in 1..Len(Log') : Log'[i].whole
    BY <1>0, <1>1 DEF WriterInv
  <2>2. \A i \in 1..Len(Log') : Log'[i].lsn < nextLsn'
    <3> SUFFICES ASSUME NEW i \in 1..Len(Log') PROVE Log'[i].lsn < nextLsn'
      OBVIOUS
    <3>1. CASE i \in 1..n
      <4>1. Log[i].lsn < nextLsn /\ Log'[i] = Log[i] /\ Log[i].lsn \in Nat
        BY <1>0, <1>1, <1>2, <3>1 DEF WriterInv
      <4> QED BY <1>1, <4>1
    <3>2. CASE i = n + 1
      BY <1>1, <3>2
    <3> QED BY <1>1, <3>1, <3>2
  <2>3. image.covered < nextLsn'
    <3>1. image.covered \in Nat /\ image.covered < nextLsn
      BY <1>0 DEF WriterInv, TypeInv, TypeOK
    <3> QED BY <1>1, <3>1
  <2>4. \A i \in 1..Len(Log') : Log'[i].rec.txn < nextTxn
    BY <1>0, <1>1 DEF WriterInv
  <2> QED BY <1>0, <2>1, <2>2, <2>3, <2>4 DEF WriterInv
<1> QED BY <1>3, <1>4, <1>5

\* What is durable stays so.
LEMMA AppendKeepsGroup ==
    ASSUME TypeInv, Sound, NEW rec \in Record, Logs(rec)
    PROVE  /\ durable' < nextLsn' /\ tail' < nextLsn'
           /\ \A i \in 1..Len(Log') : Log'[i].lsn <= durable' => i <= safe'
           /\ tail' # 0 => \A i \in 1..Len(Log') : Log'[i].lsn <= tail' => i <= Len(file')
<1>0. /\ GroupInv /\ durable' = durable /\ tail' = tail /\ safe' = safe /\ durable \in Nat
      /\ tail \in Nat
  BY DEF Sound, UpInv, Logs, TypeInv, TypeOK
<1>1. PICK f \in Frames, n \in Nat : Grown(rec, f, n)
  BY LogGrows
<1> USE DEF Grown
<1>2. durable < nextLsn /\ tail < nextLsn
  BY <1>0 DEF GroupInv
<1>3. durable < nextLsn' /\ tail < nextLsn' /\ ~(f.lsn <= durable) /\ ~(f.lsn <= tail)
  BY <1>0, <1>1, <1>2
<1>4. \A i \in 1..Len(Log') : Log'[i].lsn <= durable => i <= safe
  BY <1>0, <1>1, <1>3 DEF GroupInv
<1>5. tail # 0 => \A i \in 1..Len(Log') : Log'[i].lsn <= tail => i <= Len(file')
  <2> SUFFICES ASSUME tail # 0, NEW i \in 1..Len(Log'), Log'[i].lsn <= tail
               PROVE  i <= Len(file')
    OBVIOUS
  <2>1. i \in 1..n /\ Log[i].lsn <= tail
    BY <1>1, <1>3
  <2>2. i <= Len(file)
    BY <1>0, <1>1, <2>1 DEF GroupInv
  <2> QED BY <1>1, <2>1, <2>2
<1> QED BY <1>0, <1>3, <1>4, <1>5

\* A record that is no commit marker leaves the old cuts as they are, and the
\* new one replays like the last.
LEMMA AppendKeepsCuts ==
    ASSUME TypeInv, Sound, NEW rec \in Record, Logs(rec), order' = order,
           rec.kind # "commit", rec.kind = "op" => status[rec.txn] = "running"
    PROVE  CutsInv'
<1>0. /\ CutsInv /\ MarkerInv /\ image' = image /\ base' = base /\ safe' = safe
      /\ safe \in Nat /\ order \in Seq(Commit)
  BY DEF Sound, UpInv, Logs, TypeInv, TypeOK
<1>1. PICK f \in Frames, n \in Nat : Grown(rec, f, n)
  BY LogGrows
<1> USE DEF Grown
<1>2. f.rec.kind = "op" => ~CommitIn(Log, image, n, f.rec.txn)
  <2> SUFFICES ASSUME rec.kind = "op", NEW p \in 1..n, IsCommit(Log[p], rec.txn)
               PROVE  FALSE
    BY <1>1 DEF CommitIn
  <2>1. rec.txn \in Txn
    BY RecordKinds
  <2>2. status[rec.txn] \in {"none", "staged", "ended"}
    BY <1>0, <1>1, <2>1 DEF MarkerInv
  <2> QED BY <2>2
<1> SUFFICES ASSUME NEW k \in safe..Len(Log')
             PROVE  Replays(Log', image, base, order, k)
  BY <1>0 DEF CutsInv
<1>3. CASE k \in safe..n
  <2>1. Replays(Log, image, base, order, k) /\ k \in 0..Len(Log)
    BY <1>0, <1>1, <1>3 DEF CutsInv
  <2> QED BY <1>0, <1>1, <2>1, CutNeutral
<1>4. CASE k = n + 1
  <2>1. Replays(Log, image, base, order, n)
    BY <1>0, <1>1 DEF CutsInv
  <2>2. \A r \in Row : RowAt(Log, image, n, r) = AppliedAt(base, order, Len(order), r)
    BY <1>0, <1>1, <2>1, Uncut
  <2>3. \A r \in Row : RowAt(Log', image, n + 1, r) = RowAt(Log, image, n, r)
    BY <1>1, <1>2, AppendNeutral
  <2>4. Log' \in Seq(Frames)
    BY <1>1
  <2>5. \A r \in Row : RowAt(Log', image, Len(Log'), r) = AppliedAt(base, order, Len(order), r)
    BY <1>1, <2>2, <2>3
  <2>6. Replays(Log', image, base, order, Len(Log'))
    BY <1>0, <2>4, <2>5, Uncut
  <2> QED BY <1>1, <1>4, <2>6
<1> QED BY <1>0, <1>1, <1>3, <1>4

\* A record of another kind leaves the sequence as it is.
LEMMA AppendKeepsSeq ==
    ASSUME TypeInv, Sound, NEW rec \in Record, Logs(rec), rec.kind # "seq",
           UNCHANGED <<seq, seqPrior, need[SeqCaller]>>
    PROVE  SeqInv'
<1>0. /\ SeqInv /\ image' = image /\ given' = given /\ safe' = safe /\ safe \in Nat
      /\ ckpt' = FALSE
  BY DEF Sound, UpInv, Logs, TypeInv, TypeOK
<1>1. PICK f \in Frames, n \in Nat : Grown(rec, f, n)
  BY LogGrows
<1> USE DEF Grown
<1>2. \A k \in safe..Len(Log') : given <= SeqAt(Log', image, k)
  <2> SUFFICES ASSUME NEW k \in safe..Len(Log') PROVE given <= SeqAt(Log', image, k)
    OBVIOUS
  <2>1. CASE k \in safe..n
    <3>1. k \in Nat /\ \A i \in 1..k : Log[i] = Log'[i]
      BY <1>0, <1>1, <2>1
    <3>2. SeqAt(Log, image, k) = SeqAt(Log', image, k)
      BY <3>1, SameSeq
    <3> QED BY <1>0, <1>1, <2>1, <3>2 DEF SeqInv
  <2>2. CASE k = n + 1
    <3>1. SeqAt(Log', image, n + 1) = SeqAt(Log, image, n)
      BY <1>1, AppendSeq
    <3>2. n \in safe..n
      BY <1>0, <1>1
    <3> QED BY <1>0, <1>1, <2>2, <3>1, <3>2 DEF SeqInv
  <2> QED BY <1>0, <1>1, <2>1, <2>2
<1>3. ASSUME need[SeqCaller] # 0
      PROVE  \E p \in 1..Len(Log') :
                /\ Log'[p].lsn = need[SeqCaller] /\ Log'[p].lsn > image.covered
                /\ Log'[p].rec.kind = "seq" /\ Log'[p].rec.val = seq
                /\ \A q \in (p + 1)..Len(Log') : Log'[q].rec.kind # "seq"
  <2>1. PICK p \in 1..n :
                /\ Log[p].lsn = need[SeqCaller] /\ Log[p].lsn > image.covered
                /\ Log[p].rec.kind = "seq" /\ Log[p].rec.val = seq
                /\ \A q \in (p + 1)..n : Log[q].rec.kind # "seq"
    BY <1>0, <1>1, <1>3 DEF SeqInv
  <2>2. \A q \in (p + 1)..Len(Log') : Log'[q].rec.kind # "seq"
    BY <1>1, <2>1
  <2>3. Log'[p] = Log[p] /\ p \in 1..Len(Log')
    BY <1>1, <2>1
  <2> QED BY <2>1, <2>2, <2>3
<1> QED BY <1>0, <1>2, <1>3 DEF SeqInv

\* The writes of t after the step: on rows t has locked, each over the one
\* before, and each with an operation in the log or on r.
LockedWrites(t, r) ==
    \A i \in 1..Len(Writes(t)') :
        /\ lock'[Writes(t)'[i].row] = t
        /\ ValueOf(SubSeq(Writes(t)', 1, i - 1), Writes(t)'[i].row,
                   db[Writes(t)'[i].row], Writes(t)'[i].old)
        /\ \/ Writes(t)'[i].row = r
           \/ \E p \in 1..Len(Log) : IsOp(Log[p], t, Writes(t)'[i].row)

\* They leave r with v and other rows as before.
MovedWrites(t, r, v) ==
    \A x \in Row, w \in MaybeValue : ValueOf(Writes(t)', x, db[x], w) =>
        IF x = r THEN w = v ELSE ValueOf(Writes(t), x, db[x], w)

\* An operation of t on r keeps the writes, the operations and the locks of all
\* transactions together, if the writes of t are now what it makes of them.
LEMMA AppendOpKeepsTxn ==
    ASSUME TypeInv, Sound, NEW t \in Txn, NEW r \in Row, NEW v \in MaybeValue,
           Logs(OpRec(t, r, v)), OpRec(t, r, v) \in Record, status[t] = "running", status' = status,
           lock[r] \in {0, t}, lock' = [lock EXCEPT ![r] = t],
           \A u \in Txn \ {t} : undo'[u] = undo[u] /\ undoing'[u] = undoing[u],
           LockedWrites(t, r), MovedWrites(t, r, v)
    PROVE  TxnInv' /\ OpsInv'
<1> USE DEF LockedWrites, MovedWrites
<1> DEFINE rec == OpRec(t, r, v)
<1>0. /\ TxnInv /\ OpsInv /\ WriterInv /\ image' = image /\ db' = db
      /\ lock \in [Row -> Txn \cup {0}] /\ image.covered \in Nat
  BY DEF Sound, UpInv, Logs, TypeInv, TypeOK
<1>1. PICK f \in Frames, n \in Nat : Grown(rec, f, n)
  BY LogGrows
<1> USE DEF Grown
<1>2. f.rec.kind = "op" /\ f.rec.txn = t /\ f.rec.row = r /\ f.rec.val = v
  BY <1>1 DEF OpRec
<1> HIDE DEF rec
<1>3. \A u, x : IsOp(f, u, x) <=> u = t /\ x = r
  BY <1>2 DEF IsOp
<1>4. \A x \in Row : lock'[x] = IF x = r THEN t ELSE lock[x]
  BY <1>0
<1>5. \A u \in Txn \ {t} : Writes(u)' = Writes(u)
  BY DEF Writes
<1>6. \A u \in Txn, x \in Row : u # t /\ lock[x] = u => x # r /\ lock'[x] = u
  <2>1. \A u \in Txn : u # 0
    BY DEF Txn
  <2> QED BY <1>4, <2>1
<1>7. \A u \in Txn : Active(u)' <=> Active(u)
  BY DEF Active
<1>8. Active(t)
  BY DEF Active
<1>9. TxnInv'
  <2> SUFFICES ASSUME NEW u \in Txn
               PROVE  /\ status'[u] # "failed"
                      /\ status'[u] # "running" => undoing'[u] = <<>>
                      /\ ~Active(u)' => undo'[u] = <<>> /\ \A x \in Row : lock'[x] # u
                      /\ \A i \in 1..Len(Writes(u)') :
                            /\ lock'[Writes(u)'[i].row] = u
                            /\ ValueOf(SubSeq(Writes(u)', 1, i - 1), Writes(u)'[i].row,
                                       db'[Writes(u)'[i].row], Writes(u)'[i].old)
                            /\ \E p \in 1..Len(Log') : IsOp(Log'[p], u, Writes(u)'[i].row)
    BY DEF TxnInv
  <2>1. CASE u = t
    <3>1. \A i \in 1..Len(Writes(t)') :
              \E p \in 1..Len(Log') : IsOp(Log'[p], t, Writes(t)'[i].row)
      <4> SUFFICES ASSUME NEW i \in 1..Len(Writes(t)')
                   PROVE  \E p \in 1..Len(Log') : IsOp(Log'[p], t, Writes(t)'[i].row)
        OBVIOUS
      <4>1. CASE Writes(t)'[i].row = r
        <5>1. IsOp(Log'[n + 1], t, Writes(t)'[i].row) /\ n + 1 \in 1..Len(Log')
          BY <1>1, <1>3, <4>1
        <5> QED BY <5>1
      <4>2. CASE Writes(t)'[i].row # r
        BY <1>1, <4>2
      <4> QED BY <4>1, <4>2
    <3> QED BY <1>0, <1>7, <1>8, <2>1, <3>1
  <2>2. CASE u # t
    <3>1. \A i \in 1..Len(Writes(u)) :
              /\ lock[Writes(u)[i].row] = u
              /\ ValueOf(SubSeq(Writes(u), 1, i - 1), Writes(u)[i].row,
                         db[Writes(u)[i].row], Writes(u)[i].old)
              /\ \E p \in 1..Len(Log) : IsOp(Log[p], u, Writes(u)[i].row)
      BY <1>0 DEF TxnInv
    <3>2. \A i \in 1..Len(Writes(u)) : lock'[Writes(u)[i].row] = u
      <4>1. \A i \in 1..Len(Writes(u)) : Writes(u)[i].row \in Row
        <5>1. Writes(u) \in Seq(Undo)
          BY DEF Writes, TypeInv, TypeOK
        <5>2. \A i \in 1..Len(Writes(u)) : Writes(u)[i] \in Undo
          BY <5>1
        <5> QED BY <5>2 DEF Undo
      <4> QED BY <1>6, <2>2, <3>1, <4>1
    <3>3. \A i \in 1..Len(Writes(u)) : \E p \in 1..Len(Log') : IsOp(Log'[p], u, Writes(u)[i].row)
      BY <1>1, <3>1
    <3>4. ~Active(u) => \A x \in Row : lock'[x] # u
      BY <1>0, <1>4, <2>2 DEF TxnInv
    <3>5. /\ status'[u] # "failed" /\ (status'[u] # "running" => undoing'[u] = <<>>)
          /\ (~Active(u) => undo'[u] = <<>>)
      BY <1>0, <2>2 DEF TxnInv
    <3>6. Writes(u)' = Writes(u)
      BY <1>5, <2>2
    <3> HIDE DEF Grown
    <3> QED BY <1>0, <1>7, <3>1, <3>2, <3>3, <3>4, <3>5, <3>6
  <2> QED BY <2>1, <2>2
<1>10. OpsInv'
  <2> SUFFICES ASSUME NEW u \in Txn, Active(u), NEW p \in 1..Len(Log'), NEW x \in Row,
                      IsOp(Log'[p], u, x)
               PROVE  /\ Log'[p].lsn > image.covered
                      /\ lock'[x] = u
                      /\ \A q \in (p + 1)..Len(Log'), y \in Txn \ {u} : ~IsOp(Log'[q], y, x)
                      /\ \A w \in MaybeValue :
                            ValueOf(Writes(u)', x, db[x], w) => LastOp(u, x, w)'
    BY <1>0, <1>7 DEF OpsInv
  <2>1. \A w : /\ u = t /\ x = r /\ w = v => LastOp(u, x, w)'
               /\ ~(u = t /\ x = r) /\ LastOp(u, x, w) => LastOp(u, x, w)'
    <3> SUFFICES ASSUME NEW w
                 PROVE  /\ u = t /\ x = r /\ w = v => LastOp(u, x, w)'
                        /\ ~(u = t /\ x = r) /\ LastOp(u, x, w) => LastOp(u, x, w)'
      OBVIOUS
    <3>1. ASSUME u = t, x = r, w = v PROVE LastOp(u, x, w)'
      <4>1. /\ n + 1 \in 1..Len(Log') /\ IsOp(Log'[n + 1], u, x) /\ w = Log'[n + 1].rec.val
            /\ \A j \in (n + 2)..Len(Log') : FALSE
        BY <1>1, <1>2, <1>3, <3>1
      <4> QED BY <1>1, <4>1 DEF LastOp
    <3>2. ASSUME ~(u = t /\ x = r), LastOp(u, x, w) PROVE LastOp(u, x, w)'
      <4>1. PICK i \in 1..Len(Log) : /\ IsOp(Log[i], u, x) /\ w = Log[i].rec.val
                                     /\ \A j \in (i + 1)..Len(Log) : ~IsOp(Log[j], u, x)
        BY <3>2 DEF LastOp
      <4>2. ~IsOp(Log'[n + 1], u, x)
        BY <1>1, <1>3, <3>2
      <4>3. \A j \in (i + 1)..Len(Log') : ~IsOp(Log'[j], u, x)
        BY <1>1, <4>1, <4>2
      <4>4. i \in 1..Len(Log') /\ Log'[i] = Log[i]
        BY <1>1, <4>1
      <4> QED BY <4>1, <4>3, <4>4 DEF LastOp
    <3> QED BY <3>1, <3>2
  <2>2. CASE p = n + 1
    <3>1. u = t /\ x = r
      BY <1>1, <1>3, <2>2
    <3>2. Log'[p].lsn > image.covered
      <4>1. image.covered < nextLsn
        BY <1>0 DEF WriterInv
      <4> QED BY <1>0, <1>1, <2>2, <4>1
    <3>3. \A q \in (p + 1)..Len(Log') : FALSE
      BY <1>1, <2>2
    <3> QED BY <1>4, <2>1, <3>1, <3>2, <3>3
  <2>3. CASE p \in 1..n
    <3>1. IsOp(Log[p], u, x) /\ Log'[p] = Log[p]
      BY <1>1, <2>3
    <3>2. /\ Log[p].lsn > image.covered /\ lock[x] = u
          /\ \A q \in (p + 1)..Len(Log), y \in Txn \ {u} : ~IsOp(Log[q], y, x)
          /\ \A w \in MaybeValue : ValueOf(Writes(u), x, db[x], w) => LastOp(u, x, w)
      BY <1>0, <1>1, <2>3, <3>1 DEF OpsInv
    <3>3. lock'[x] = u /\ (u = t \/ x # r)
      BY <1>4, <1>6, <3>2
    <3>4. \A q \in (p + 1)..Len(Log'), y \in Txn \ {u} : ~IsOp(Log'[q], y, x)
      <4> SUFFICES ASSUME NEW q \in (p + 1)..Len(Log'), NEW y \in Txn \ {u}
                   PROVE  ~IsOp(Log'[q], y, x)
        OBVIOUS
      <4>1. CASE q = n + 1
        BY <1>1, <1>3, <3>3, <4>1
      <4>2. CASE q # n + 1
        <5>1. q \in (p + 1)..Len(Log) /\ q \in 1..n
          BY <1>1, <2>3, <4>2
        <5> QED BY <1>1, <3>2, <5>1
      <4> QED BY <4>1, <4>2
    <3>5. ASSUME NEW w \in MaybeValue, ValueOf(Writes(u)', x, db[x], w)
          PROVE  LastOp(u, x, w)'
      <4>1. CASE u = t /\ x = r
        BY <2>1, <3>5, <4>1
      <4>2. CASE u = t /\ x # r
        <5>1. ValueOf(Writes(t), x, db[x], w)
          BY <3>5, <4>2
        <5> QED BY <2>1, <3>2, <4>2, <5>1
      <4>3. CASE u # t
        <5>1. ValueOf(Writes(u), x, db[x], w)
          BY <1>5, <3>5, <4>3
        <5> QED BY <2>1, <3>2, <4>3, <5>1
      <4> QED BY <4>1, <4>2, <4>3
    <3> QED BY <3>1, <3>2, <3>3, <3>4, <3>5
  <2> QED BY <1>1, <2>2, <2>3
<1> QED BY <1>9, <1>10

\* A marker or a sequence record changes nothing of them.
LEMMA AppendKeepsTxn ==
    ASSUME TypeInv, Sound, NEW rec \in Record, Logs(rec), rec.kind # "op",
           UNCHANGED <<undo, undoing, lock>>,
           \A t \in Txn : /\ Active(t)' <=> Active(t)
                          /\ status'[t] # "failed"
                          /\ status'[t] # "running" => undoing[t] = <<>>
    PROVE  TxnInv' /\ OpsInv'
<1>0. TxnInv /\ OpsInv /\ image' = image /\ db' = db
  BY DEF Sound, UpInv, Logs
<1>1. PICK f \in Frames, n \in Nat : Grown(rec, f, n)
  BY LogGrows
<1> USE DEF Grown
<1>2. \A u, x : ~IsOp(f, u, x)
  BY <1>1 DEF IsOp
<1>3. \A u : Writes(u)' = Writes(u)
  BY DEF Writes
<1>4. \A i \in 1..Len(Log) : i \in 1..Len(Log') /\ Log'[i] = Log[i]
  BY <1>1
<1>5. TxnInv'
  <2> SUFFICES ASSUME NEW u \in Txn
               PROVE  /\ status'[u] # "failed"
                      /\ status'[u] # "running" => undoing'[u] = <<>>
                      /\ ~Active(u)' => undo'[u] = <<>> /\ \A x \in Row : lock'[x] # u
                      /\ \A i \in 1..Len(Writes(u)') :
                            /\ lock'[Writes(u)'[i].row] = u
                            /\ ValueOf(SubSeq(Writes(u)', 1, i - 1), Writes(u)'[i].row,
                                       db'[Writes(u)'[i].row], Writes(u)'[i].old)
                            /\ \E p \in 1..Len(Log') : IsOp(Log'[p], u, Writes(u)'[i].row)
    BY DEF TxnInv
  <2>1. \A i \in 1..Len(Writes(u)) :
              /\ lock[Writes(u)[i].row] = u
              /\ ValueOf(SubSeq(Writes(u), 1, i - 1), Writes(u)[i].row,
                         db[Writes(u)[i].row], Writes(u)[i].old)
              /\ \E p \in 1..Len(Log) : IsOp(Log[p], u, Writes(u)[i].row)
    BY <1>0 DEF TxnInv
  <2>2. \A i \in 1..Len(Writes(u)) : \E p \in 1..Len(Log') : IsOp(Log'[p], u, Writes(u)[i].row)
    BY <1>4, <2>1
  <2>3. ~Active(u) => undo[u] = <<>> /\ \A x \in Row : lock[x] # u
    BY <1>0 DEF TxnInv
  <2> HIDE DEF Grown
  <2> QED BY <1>0, <1>3, <2>1, <2>2, <2>3
<1>6. OpsInv'
  <2> SUFFICES ASSUME NEW u \in Txn, Active(u), NEW p \in 1..Len(Log'), NEW x \in Row,
                      IsOp(Log'[p], u, x)
               PROVE  /\ Log'[p].lsn > image.covered
                      /\ lock[x] = u
                      /\ \A q \in (p + 1)..Len(Log'), y \in Txn \ {u} : ~IsOp(Log'[q], y, x)
                      /\ \A w \in MaybeValue :
                            ValueOf(Writes(u), x, db[x], w) => LastOp(u, x, w)'
    BY <1>0, <1>3 DEF OpsInv
  <2>1. p \in 1..n /\ IsOp(Log[p], u, x) /\ Log'[p] = Log[p]
    BY <1>1, <1>2
  <2>2. /\ Log[p].lsn > image.covered /\ lock[x] = u
        /\ \A q \in (p + 1)..Len(Log), y \in Txn \ {u} : ~IsOp(Log[q], y, x)
        /\ \A w \in MaybeValue : ValueOf(Writes(u), x, db[x], w) => LastOp(u, x, w)
    BY <1>0, <1>1, <2>1 DEF OpsInv
  <2>3. \A q \in (p + 1)..Len(Log'), y \in Txn \ {u} : ~IsOp(Log'[q], y, x)
    BY <1>1, <1>2, <2>1, <2>2
  <2>4. \A w : LastOp(u, x, w) => LastOp(u, x, w)'
    <3> SUFFICES ASSUME NEW w, LastOp(u, x, w) PROVE LastOp(u, x, w)'
      OBVIOUS
    <3>1. PICK i \in 1..Len(Log) : /\ IsOp(Log[i], u, x) /\ w = Log[i].rec.val
                                   /\ \A j \in (i + 1)..Len(Log) : ~IsOp(Log[j], u, x)
      BY DEF LastOp
    <3>2. \A j \in (i + 1)..Len(Log') : ~IsOp(Log'[j], u, x)
      BY <1>1, <1>2, <3>1
    <3> QED BY <1>4, <3>1, <3>2 DEF LastOp
  <2> QED BY <2>1, <2>2, <2>3, <2>4
<1> QED BY <1>5, <1>6

\* An appended record that is no marker of t leaves the other parts alone.
LEMMA AppendKeepsRest ==
    ASSUME TypeInv, Sound, NEW rec \in Record, Logs(rec),
           rec.kind \notin {"commit", "abort"}, UNCHANGED <<status, order>>
    PROVE  MarkerInv' /\ OrderInv' /\ ImageInv'
<1>0. MarkerInv /\ OrderInv /\ acked' = acked /\ safe' = safe /\ ~ckpt'
  BY DEF Sound, UpInv, Logs
<1>1. PICK f \in Frames, n \in Nat : Grown(rec, f, n)
  BY LogGrows
<1> USE DEF Grown
<1>2. \A u : ~IsCommit(f, u) /\ ~IsAbort(f, u)
  BY <1>1 DEF IsCommit, IsAbort
<1>3. MarkerInv'
  BY <1>0, <1>1, <1>2 DEF MarkerInv
<1>4. OrderInv'
  <2>1. \A i \in acked : \A p \in (safe + 1)..Len(Log') : ~IsCommit(Log'[p], order[i].txn)
    <3> SUFFICES ASSUME NEW i \in acked, NEW p \in (safe + 1)..Len(Log')
                 PROVE  ~IsCommit(Log'[p], order[i].txn)
      OBVIOUS
    <3>1. CASE p = n + 1
      BY <1>1, <1>2, <3>1
    <3>2. CASE p # n + 1
      <4>0. safe \in Nat
        BY DEF TypeInv, TypeOK
      <4>1. p \in (safe + 1)..Len(Log) /\ p \in 1..n
        BY <1>1, <3>2, <4>0
      <4> QED BY <1>0, <1>1, <4>1 DEF OrderInv
    <3> QED BY <3>1, <3>2
  <2> QED BY <1>0, <2>1 DEF OrderInv
<1>5. ImageInv'
  BY <1>0 DEF ImageInv
<1> QED BY <1>3, <1>4, <1>5

\* The waiting threads' markers stay where they are.
LEMMA AppendKeepsWaiting ==
    ASSUME TypeInv, Sound, NEW rec \in Record, Logs(rec), need' = need, status' = status
    PROVE  GroupInv'
<1>0. GroupInv /\ leader' = leader /\ durable' = durable
  BY DEF Sound, UpInv, Logs
<1>1. PICK f \in Frames, n \in Nat : Grown(rec, f, n)
  BY LogGrows
<1> USE DEF Grown
<1>2. \A t \in Txn : status[t] = "staged" =>
          \E i \in 1..Len(Log') : IsCommit(Log'[i], t) /\ Log'[i].lsn = need[t]
  BY <1>0, <1>1 DEF GroupInv
<1>3. /\ durable' < nextLsn' /\ tail' < nextLsn'
      /\ \A i \in 1..Len(Log') : Log'[i].lsn <= durable' => i <= safe'
      /\ tail' # 0 => \A i \in 1..Len(Log') : Log'[i].lsn <= tail' => i <= Len(file')
  BY AppendKeepsGroup
<1>4. /\ leader # NoThread => need[leader] # 0 /\ durable < need[leader]
      /\ \A t \in Txn : need[t] # 0 <=> status[t] = "staged"
  BY <1>0 DEF GroupInv
<1> HIDE DEF Grown
<1> QED BY <1>0, <1>2, <1>3, <1>4 DEF GroupInv

LEMMA CurrentSame ==
    ASSUME NEW u \in Txn, undo'[u] = undo[u], db' = db
    PROVE  \A r : Current(u, r)' = Current(u, r)
BY DEF Current

\* The rows that staged commits hold keep their pending values.
LEMMA AppendKeepsStaged ==
    ASSUME TypeInv, Sound, UNCHANGED <<db, base, order, status>>,
           NEW t \in Txn, NEW r \in Row, status[t] = "running", lock[r] \in {0, t},
           lock' = [lock EXCEPT ![r] = t], \A u \in Txn \ {t} : undo'[u] = undo[u], mode = "up"
    PROVE  StagedInv'
<1>0. StagedInv /\ lock \in [Row -> Txn \cup {0}]
  BY DEF Sound, UpInv, TypeInv, TypeOK
<1> SUFFICES ASSUME NEW x \in Row, NEW u \in Txn \cup {0}, lock'[x] = u
             PROVE  AppliedAt(base, order, Len(order), x) =
                       IF u \in Txn /\ status[u] = "staged" THEN Current(u, x)' ELSE db[x]
  BY DEF StagedInv
<1>1. lock'[x] = IF x = r THEN t ELSE lock[x]
  BY <1>0
<1>2. CASE x = r
  <2>1. PICK w \in {0, t} : lock[x] = w
    BY <1>2
  <2>2. w \in Txn \cup {0} /\ ~(w \in Txn /\ status[w] = "staged")
    BY <2>1 DEF Txn
  <2>3. AppliedAt(base, order, Len(order), x) = db[x]
    BY <1>0, <2>1, <2>2 DEF StagedInv
  <2>4. u = t
    BY <1>1, <1>2
  <2> QED BY <2>3, <2>4
<1>3. CASE x # r
  <2>1. lock[x] = u
    BY <1>1, <1>3
  <2>2. AppliedAt(base, order, Len(order), x) =
            IF u \in Txn /\ status[u] = "staged" THEN Current(u, x) ELSE db[x]
    BY <1>0, <2>1 DEF StagedInv
  <2>3. CASE u \in Txn /\ status[u] = "staged"
    <3>1. u \in Txn /\ undo'[u] = undo[u]
      BY <2>3
    <3>2. Current(u, x)' = Current(u, x)
      BY <3>1, CurrentSame
    <3> QED BY <2>2, <2>3, <3>2
  <2>4. CASE ~(u \in Txn /\ status[u] = "staged")
    BY <2>2, <2>4
  <2> QED BY <2>3, <2>4
<1> QED BY <1>2, <1>3

LEMMA WriteKeeps ==
    ASSUME TypeInv, Sound, NEW t \in Txn, NEW r \in Row, NEW v \in NewValues(t, r),
           Write(t, r, v)
    PROVE  Sound'
<1> DEFINE rec == OpRec(t, r, v)
           e == [row |-> r, old |-> Current(t, r), new |-> v]
<1>0. /\ UpInv /\ mode = "up" /\ mode' = "up" /\ ~ckpt /\ status[t] = "running"
      /\ undoing[t] = <<>> /\ UNCHANGED <<status, order, need, seq, seqPrior, undoing, base, db>>
  BY DEF Write, Running, Up, Sound, groupVars, seqVars, histVars
<1>1. Pushed(t, r, v) /\ Len(undo[t]) < MaxOps
  BY DEF Write, Pushed
<1>2. v \in MaybeValue
  BY <1>1, NewValuesType
<1>3. rec \in Record /\ Logs(rec)
  <2>1. rec \in Record
    BY <1>2, NewRecords
  <2> QED BY <1>0, <2>1 DEF Logs, Write, Running, Up, groupVars, histVars
<1>4. rec.kind = "op" /\ rec.txn = t
  BY DEF OpRec
<1>5. /\ undo' = [undo EXCEPT ![t] = Append(@, e)] /\ lock' = [lock EXCEPT ![r] = t]
      /\ lock[r] \in {0, t} /\ undo \in [Txn -> Seq(Undo)] /\ lock \in [Row -> Txn \cup {0}]
      /\ db \in [Row -> MaybeValue]
  BY <1>1 DEF Pushed, TypeInv, TypeOK, Rows, MaybeValue
<1>6. e \in Undo /\ e.row = r /\ e.new = v /\ e.old = Current(t, r)
  BY <1>2, WriteSetType DEF Undo, MaybeValue
<1> HIDE DEF rec, e
<1>7. TxnInv' /\ OpsInv'
  <2>1. undo[t] \in Seq(Undo) /\ undo'[t] = Append(undo[t], e)
    BY <1>5
  <2>2. Writes(t) = undo[t] /\ Writes(t)' = Append(undo[t], e)
    <3>1. Writes(t) = undo[t]
      BY <1>0, <2>1 DEF Writes
    <3>2. Append(undo[t], e) \in Seq(Undo)
      BY <1>6, <2>1
    <3>3. undoing'[t] = <<>> /\ undo'[t] \in Seq(Undo)
      BY <1>0, <2>1, <3>2
    <3>4. undo'[t] \o undoing'[t] = undo'[t]
      BY <3>3
    <3>5. Writes(t)' = undo'[t]
      BY <3>4 DEF Writes
    <3> QED BY <2>1, <3>1, <3>5
  <2> DEFINE s == undo[t]
             a == Append(s, e)
  <2>3. /\ Len(s) \in Nat /\ Len(a) = Len(s) + 1 /\ a[Len(s) + 1] = e
        /\ \A i \in 1..Len(s) : a[i] = s[i]
    BY <1>6, <2>1
  <2>4. \A i \in 1..Len(s) : SubSeq(a, 1, i - 1) = SubSeq(s, 1, i - 1)
    BY <1>6, <2>1
  <2>5. SubSeq(a, 1, Len(s)) = s
    BY <1>6, <2>1
  <2> HIDE DEF a
  <2>6. \A i \in 1..Len(a) :
            /\ lock'[a[i].row] = t
            /\ ValueOf(SubSeq(a, 1, i - 1), a[i].row, db[a[i].row], a[i].old)
            /\ \/ a[i].row = r
               \/ \E p \in 1..Len(Log) : IsOp(Log[p], t, a[i].row)
    <3> SUFFICES ASSUME NEW i \in 1..Len(a)
                 PROVE  /\ lock'[a[i].row] = t
                        /\ ValueOf(SubSeq(a, 1, i - 1), a[i].row, db[a[i].row], a[i].old)
                        /\ \/ a[i].row = r
                           \/ \E p \in 1..Len(Log) : IsOp(Log[p], t, a[i].row)
      OBVIOUS
    <3>1. CASE i = Len(s) + 1
      <4>1. ValueOf(s, r, db[r], e.old)
        BY <1>6, <2>1, CurrentIs
      <4>2. SubSeq(a, 1, i - 1) = s /\ a[i] = e
        BY <2>3, <2>5, <3>1
      <4>3. lock'[r] = t
        BY <1>5
      <4> QED BY <1>6, <4>1, <4>2, <4>3
    <3>2. CASE i \in 1..Len(s)
      <4>1. a[i] = s[i] /\ SubSeq(a, 1, i - 1) = SubSeq(s, 1, i - 1)
        BY <2>3, <2>4, <3>2
      <4>2. /\ lock[s[i].row] = t
            /\ ValueOf(SubSeq(s, 1, i - 1), s[i].row, db[s[i].row], s[i].old)
            /\ \E p \in 1..Len(Log) : IsOp(Log[p], t, s[i].row)
        BY <1>0, <2>2, <3>2 DEF UpInv, TxnInv
      <4>3. s[i].row \in Row
        <5>1. s[i] \in Undo
          BY <2>1, <3>2
        <5> QED BY <5>1 DEF Undo
      <4>4. lock'[s[i].row] = t
        BY <1>5, <4>2, <4>3
      <4> QED BY <4>1, <4>2, <4>4
    <3> QED BY <2>3, <3>1, <3>2
  <2>7. \A x \in Row, w \in MaybeValue : ValueOf(a, x, db[x], w) =>
            IF x = r THEN w = v ELSE ValueOf(s, x, db[x], w)
    <3> SUFFICES ASSUME NEW x \in Row, NEW w \in MaybeValue, ValueOf(a, x, db[x], w)
                 PROVE  IF x = r THEN w = v ELSE ValueOf(s, x, db[x], w)
      OBVIOUS
    <3>1. IF e.row = x THEN w = e.new ELSE ValueOf(s, x, db[x], w)
      BY <1>6, <2>1, ValueOfAppend DEF a
    <3> QED BY <1>6, <3>1
  <2>8. \A u \in Txn \ {t} : undo'[u] = undo[u] /\ undoing'[u] = undoing[u]
    BY <1>0, <1>5
  <2>9. Writes(t) = s /\ Writes(t)' = a
    BY <2>2 DEF a
  <2>10. LockedWrites(t, r)
    BY <2>6, <2>9 DEF LockedWrites
  <2>11. MovedWrites(t, r, v)
    BY <2>7, <2>9 DEF MovedWrites
  <2> HIDE DEF s
  <2>12. Logs(OpRec(t, r, v)) /\ OpRec(t, r, v) \in Record
    BY <1>3 DEF rec
  <2> QED BY <1>0, <1>2, <1>5, <2>8, <2>10, <2>11, <2>12, AppendOpKeepsTxn
<1>8. StagedInv'
  <2>1. \A u \in Txn \ {t} : undo'[u] = undo[u]
    BY <1>5
  <2> QED BY <1>0, <1>5, <2>1, AppendKeepsStaged
<1>9. Climbs' /\ OneEnd' /\ WriterInv'
  <2>1. t < nextTxn
    BY <1>0 DEF UpInv, WriterInv
  <2> QED BY <1>0, <1>3, <1>4, <2>1, AppendKeepsLog
<1>10. CutsInv'
  BY <1>0, <1>3, <1>4, AppendKeepsCuts
<1>11. SeqInv'
  BY <1>0, <1>3, <1>4, AppendKeepsSeq
<1>12. MarkerInv' /\ OrderInv' /\ ImageInv'
  BY <1>0, <1>3, <1>4, AppendKeepsRest
<1>13. GroupInv'
  BY <1>0, <1>3, AppendKeepsWaiting
<1> QED BY <1>0, <1>7, <1>8, <1>9, <1>10, <1>11, <1>12, <1>13 DEF Sound, UpInv

LEMMA ConcatAppend ==
    ASSUME NEW s \in Seq(Undo), NEW y \in Seq(Undo), NEW e \in Undo
    PROVE  s \o Append(y, e) = Append(s \o y, e)
OBVIOUS

LEMMA CompensateKeeps ==
    ASSUME TypeInv, Sound, NEW t \in Txn, Compensate(t)
    PROVE  Sound'
<1> DEFINE s == undo[t]
           z == undoing[t]
           e == z[Len(z)]
           y == SubSeq(z, 1, Len(z) - 1)
           a == s \o y
           r == e.row
           v == e.old
           rec == OpRec(t, r, v)
<1>0. /\ UpInv /\ mode = "up" /\ mode' = "up" /\ ~ckpt /\ z # <<>>
      /\ UNCHANGED <<status, order, need, seq, seqPrior, undo, base, db, lock>>
  BY DEF Compensate, Alive, Sound, groupVars, seqVars, histVars
<1>1. /\ s \in Seq(Undo) /\ z \in Seq(Undo) /\ lock \in [Row -> Txn \cup {0}]
      /\ db \in [Row -> MaybeValue] /\ undoing \in [Txn -> Seq(Undo)]
  BY DEF TypeInv, TypeOK, Rows, MaybeValue
<1>2. undoing' = [undoing EXCEPT ![t] = y]
  BY DEF Compensate
<1>3. Len(z) \in Nat \ {0} /\ Len(s) \in Nat
  BY <1>0, <1>1
<1>4. e \in Undo /\ y \in Seq(Undo) /\ z = Append(y, e)
  BY <1>1, <1>3
<1>5. e.row \in Row /\ e.old \in MaybeValue
  BY <1>4 DEF Undo, MaybeValue
<1>6. rec \in Record /\ rec.kind = "op" /\ rec.txn = t
  BY <1>5, NewRecords DEF OpRec
<1>7. Logs(rec)
  BY <1>0 DEF Logs, Compensate, Inverse, groupVars, histVars
<1>8. status[t] = "running"
  BY <1>0 DEF UpInv, TxnInv
<1> HIDE DEF z, y, e
<1>9. Writes(t) = Append(a, e) /\ Writes(t)' = a /\ a \in Seq(Undo)
  <2>1. Writes(t) = s \o z
    BY DEF Writes, z
  <2>2. s \o Append(y, e) = Append(s \o y, e)
    BY <1>1, <1>4, ConcatAppend
  <2>3. undoing'[t] = y /\ undo'[t] = s
    BY <1>0, <1>1, <1>2
  <2>4. Writes(t)' = s \o y
    BY <2>3 DEF Writes
  <2>5. s \o y \in Seq(Undo)
    BY <1>1, <1>4
  <2> QED BY <1>4, <2>1, <2>2, <2>4, <2>5
<1> DEFINE w0 == Append(a, e)
<1> HIDE DEF a, s
<1>10. /\ Len(a) \in Nat /\ Len(w0) = Len(a) + 1 /\ w0[Len(a) + 1] = e
       /\ \A i \in 1..Len(a) : w0[i] = a[i]
  BY <1>4, <1>9
<1>11. \A i \in 1..Len(a) : SubSeq(w0, 1, i - 1) = SubSeq(a, 1, i - 1)
  BY <1>4, <1>9
<1>12. SubSeq(w0, 1, Len(a)) = a
  BY <1>4, <1>9
<1> HIDE DEF w0
<1>13. \A i \in 1..Len(w0) :
            /\ lock[w0[i].row] = t
            /\ ValueOf(SubSeq(w0, 1, i - 1), w0[i].row, db[w0[i].row], w0[i].old)
            /\ \E p \in 1..Len(Log) : IsOp(Log[p], t, w0[i].row)
  <2>1. w0 = Writes(t)
    BY <1>9 DEF w0
  <2> QED BY <1>0, <2>1 DEF UpInv, TxnInv
<1>14. lock[r] = t /\ ValueOf(a, r, db[r], v)
  <2>1. Len(a) + 1 \in 1..Len(w0) /\ (Len(a) + 1) - 1 = Len(a)
    BY <1>10
  <2> QED BY <1>10, <1>12, <1>13, <2>1
<1>15. lock' = [lock EXCEPT ![r] = t]
  BY <1>0, <1>1, <1>14
<1>16. TxnInv' /\ OpsInv'
  <2>1. LockedWrites(t, r)
    <3> SUFFICES ASSUME NEW i \in 1..Len(a)
                 PROVE  /\ lock'[a[i].row] = t
                        /\ ValueOf(SubSeq(a, 1, i - 1), a[i].row, db[a[i].row], a[i].old)
                        /\ \/ a[i].row = r
                           \/ \E p \in 1..Len(Log) : IsOp(Log[p], t, a[i].row)
      BY <1>9 DEF LockedWrites
    <3>1. i \in 1..Len(w0) /\ w0[i] = a[i] /\ SubSeq(w0, 1, i - 1) = SubSeq(a, 1, i - 1)
      BY <1>10, <1>11
    <3> QED BY <1>0, <1>13, <3>1
  <2>2. MovedWrites(t, r, v)
    <3> SUFFICES ASSUME NEW x \in Row, NEW w \in MaybeValue, ValueOf(a, x, db[x], w)
                 PROVE  IF x = r THEN w = v ELSE ValueOf(Writes(t), x, db[x], w)
      BY <1>9 DEF MovedWrites
    <3>1. CASE x = r
      BY <1>9, <1>14, <3>1, ValueOfOne
    <3>2. CASE x # r
      <4>1. ValueOf(Append(a, e), x, db[x], w)
        BY <1>4, <1>9, <3>2, ValueOfAppend
      <4> QED BY <1>9, <3>2, <4>1
    <3> QED BY <3>1, <3>2
  <2>3. \A u \in Txn \ {t} : undo'[u] = undo[u] /\ undoing'[u] = undoing[u]
    BY <1>0, <1>1, <1>2
  <2>4. lock[r] \in {0, t}
    BY <1>14
  <2>5. Logs(OpRec(t, r, v)) /\ OpRec(t, r, v) \in Record /\ r \in Row /\ v \in MaybeValue
    BY <1>5, <1>6, <1>7
  <2> HIDE DEF rec, r, v
  <2> QED BY <1>0, <1>8, <1>15, <2>1, <2>2, <2>3, <2>4, <2>5, AppendOpKeepsTxn
<1>17. StagedInv'
  <2>1. \A u \in Txn \ {t} : undo'[u] = undo[u]
    BY <1>0
  <2>2. lock[r] \in {0, t} /\ r \in Row
    BY <1>5, <1>14
  <2> HIDE DEF r
  <2> QED BY <1>0, <1>8, <1>15, <2>1, <2>2, AppendKeepsStaged
<1> HIDE DEF rec, r, v
<1>18. Climbs' /\ OneEnd' /\ WriterInv'
  <2>1. t < nextTxn
    BY <1>0, <1>8 DEF UpInv, WriterInv
  <2> QED BY <1>0, <1>6, <1>7, <2>1, AppendKeepsLog
<1>19. CutsInv'
  BY <1>0, <1>6, <1>7, <1>8, AppendKeepsCuts
<1>20. SeqInv'
  BY <1>0, <1>6, <1>7, AppendKeepsSeq
<1>21. MarkerInv' /\ OrderInv' /\ ImageInv'
  BY <1>0, <1>6, <1>7, AppendKeepsRest
<1>22. GroupInv'
  BY <1>0, <1>6, <1>7, AppendKeepsWaiting
<1> QED BY <1>0, <1>16, <1>17, <1>18, <1>19, <1>20, <1>21, <1>22 DEF Sound, UpInv

\* Nothing of the rows changes when status, undo, lock, db and the commits do not.
LEMMA StagedSame ==
    ASSUME StagedInv, UNCHANGED <<undo, lock, db, base, order>>,
           \A u \in Txn : (\E r \in Row : lock[r] = u) =>
                              (status'[u] = "staged" <=> status[u] = "staged")
    PROVE  StagedInv'
<1> SUFFICES ASSUME NEW x \in Row, NEW u \in Txn \cup {0}, lock[x] = u
             PROVE  AppliedAt(base, order, Len(order), x) =
                       IF u \in Txn /\ status'[u] = "staged" THEN Current(u, x)' ELSE db[x]
  BY DEF StagedInv
<1>1. AppliedAt(base, order, Len(order), x) =
          IF u \in Txn /\ status[u] = "staged" THEN Current(u, x) ELSE db[x]
  BY DEF StagedInv
<1>2. u \in Txn => Current(u, x)' = Current(u, x)
  BY CurrentSame
<1>3. u \in Txn => (status'[u] = "staged" <=> status[u] = "staged")
  OBVIOUS
<1> QED BY <1>1, <1>2, <1>3

LEMMA AbortMarkerKeeps ==
    ASSUME TypeInv, Sound, NEW t \in Txn, AbortMarker(t), survived' = 0
    PROVE  Sound'
<1> DEFINE rec == MarkRec("abort", t)
<1>0. /\ UpInv /\ mode = "up" /\ mode' = "up" /\ ~ckpt /\ status[t] = "aborting"
      /\ status' = [status EXCEPT ![t] = "ended"]
      /\ UNCHANGED <<order, need, seq, seqPrior, undo, undoing, base, db, lock>>
  BY DEF AbortMarker, Alive, Sound, groupVars, seqVars, histVars
<1>1. rec \in Record /\ rec.kind = "abort" /\ rec.txn = t
  BY NewRecords DEF MarkRec
<1>2. Logs(rec)
  <2>1. ~AppendFails(rec)
    <3> SUFFICES ASSUME AppendFails(rec) PROVE FALSE
      OBVIOUS
    <3>1. TypeOK
      BY DEF TypeInv
    <3> HIDE DEF rec
    <3> QED BY <1>1, <3>1, AppendFailsEffect
  <2> QED BY <1>0, <2>1 DEF Logs, AbortMarker, groupVars, histVars
<1> HIDE DEF rec
<1>3. status \in [Txn -> {"none", "running", "failed", "staged", "aborting", "ended"}]
  BY DEF TypeInv, TypeOK
<1>4. \A u \in Txn : status'[u] = IF u = t THEN "ended" ELSE status[u]
  BY <1>0, <1>3
<1>5. Climbs' /\ OneEnd' /\ WriterInv'
  <2>1. t < nextTxn
    BY <1>0 DEF UpInv, WriterInv
  <2>2. \A u \in Txn : status'[u] # "none" => status[u] # "none"
    BY <1>0, <1>4
  <2> QED BY <1>0, <1>1, <1>2, <2>1, <2>2, AppendKeepsLog
<1>6. TxnInv' /\ OpsInv'
  <2>1. TxnInv
    BY <1>0 DEF UpInv
  <2>2. \A u \in Txn : /\ Active(u)' <=> Active(u)
                       /\ status'[u] # "failed"
                       /\ status'[u] # "running" => undoing[u] = <<>>
    BY <1>0, <1>4, <2>1 DEF TxnInv, Active
  <2> QED BY <1>0, <1>1, <1>2, <2>2, AppendKeepsTxn
<1>7. CutsInv'
  BY <1>0, <1>1, <1>2, AppendKeepsCuts
<1>8. SeqInv'
  BY <1>0, <1>1, <1>2, AppendKeepsSeq
<1>9. StagedInv'
  <2>1. StagedInv /\ \A r \in Row : lock[r] # t
    BY <1>0 DEF UpInv, TxnInv, Active
  <2>2. \A u \in Txn : status'[u] = "staged" <=> status[u] = "staged"
    BY <1>0, <1>4
  <2> QED BY <1>0, <2>1, <2>2, StagedSame
<1>10. PICK f \in Frames, n \in Nat : Grown(rec, f, n)
  BY <1>1, <1>2, LogGrows
<1>11. \A u : ~IsCommit(f, u) /\ (IsAbort(f, u) <=> u = t)
  BY <1>1, <1>10 DEF IsCommit, IsAbort, Grown
<1>12. MarkerInv'
  <2> SUFFICES ASSUME NEW u \in Txn, NEW i \in 1..Len(Log')
               PROVE  /\ IsCommit(Log'[i], u) => status'[u] \in {"none", "staged", "ended"}
                      /\ IsAbort(Log'[i], u) => status'[u] \in {"none", "ended"}
    BY DEF MarkerInv
  <2>1. CASE i = n + 1
    BY <1>4, <1>10, <1>11, <2>1 DEF Grown
  <2>2. CASE i \in 1..n
    <3>1. Log'[i] = Log[i] /\ i \in 1..Len(Log)
      BY <1>10, <2>2 DEF Grown
    <3>2. /\ IsCommit(Log[i], u) => status[u] \in {"none", "staged", "ended"}
          /\ IsAbort(Log[i], u) => status[u] \in {"none", "ended"}
      BY <1>0, <3>1 DEF UpInv, MarkerInv
    <3> QED BY <1>4, <3>1, <3>2
  <2> QED BY <1>10, <2>1, <2>2 DEF Grown
<1>13. OrderInv'
  <2>0. /\ OrderInv /\ acked' = acked /\ safe' = safe /\ order \in Seq(Commit)
        /\ safe \in Nat
    BY <1>0, <1>2 DEF UpInv, Logs, TypeInv, TypeOK
  <2>1. \A i \in 1..Len(order) : status'[order[i].txn] \in {"staged", "ended"}
    <3>1. \A i \in 1..Len(order) : order[i] \in Commit
      BY <2>0
    <3>2. \A i \in 1..Len(order) : order[i].txn \in Txn
      BY <3>1 DEF Commit
    <3> QED BY <1>4, <2>0, <3>2 DEF OrderInv
  <2>2. \A i \in acked : \A p \in (safe + 1)..Len(Log') : ~IsCommit(Log'[p], order[i].txn)
    <3> SUFFICES ASSUME NEW i \in acked, NEW p \in (safe + 1)..Len(Log')
                 PROVE  ~IsCommit(Log'[p], order[i].txn)
      OBVIOUS
    <3>1. CASE p = n + 1
      BY <1>10, <1>11, <3>1 DEF Grown
    <3>2. CASE p # n + 1
      <4>1. p \in (safe + 1)..Len(Log) /\ Log'[p] = Log[p]
        BY <1>10, <2>0, <3>2 DEF Grown
      <4> QED BY <2>0, <4>1 DEF OrderInv
    <3> QED BY <3>1, <3>2
  <2> QED BY <1>0, <2>0, <2>1, <2>2 DEF OrderInv
<1>14. GroupInv'
  <2>0. GroupInv /\ leader' = leader /\ durable' = durable
    BY <1>0, <1>2 DEF UpInv, Logs
  <2>1. /\ durable' < nextLsn' /\ tail' < nextLsn'
        /\ \A i \in 1..Len(Log') : Log'[i].lsn <= durable' => i <= safe'
        /\ tail' # 0 => \A i \in 1..Len(Log') : Log'[i].lsn <= tail' => i <= Len(file')
    BY <1>1, <1>2, AppendKeepsGroup
  <2>2. \A u \in Txn : status'[u] = "staged" <=> status[u] = "staged"
    BY <1>0, <1>4
  <2>3. /\ \A u \in Txn : need[u] # 0 <=> status[u] = "staged"
        /\ \A u \in Txn : status[u] = "staged" =>
              \E i \in 1..Len(Log') : IsCommit(Log'[i], u) /\ Log'[i].lsn = need[u]
    BY <2>0, <1>10 DEF GroupInv, Grown
  <2>4. leader # NoThread => need[leader] # 0 /\ durable < need[leader]
    BY <2>0 DEF GroupInv
  <2> QED BY <1>0, <2>0, <2>1, <2>2, <2>3, <2>4 DEF GroupInv
<1>15. ImageInv'
  BY <1>0, <1>2 DEF ImageInv, Logs
<1> QED BY <1>0, <1>5, <1>6, <1>7, <1>8, <1>9, <1>12, <1>13, <1>14, <1>15 DEF Sound, UpInv

LEMMA NextvalKeeps ==
    ASSUME TypeInv, Sound, Nextval
    PROVE  Sound'
<1> DEFINE rec == SeqRec(seq + 1)
<1>0. /\ UpInv /\ mode = "up" /\ mode' = "up" /\ ~ckpt /\ need[SeqCaller] = 0
      /\ need' = [need EXCEPT ![SeqCaller] = nextLsn] /\ seq' = seq + 1 /\ seqPrior' = seq
      /\ UNCHANGED <<order, status, undo, undoing, base, db, lock>>
  BY DEF Nextval, Up, Sound, txnVars, histVars
<1>1. rec \in Record /\ rec.kind = "seq" /\ rec.txn = 0 /\ rec.val = seq + 1
  BY NewRecords DEF SeqRec, TypeInv, TypeOK
<1>2. Logs(rec)
  BY <1>0 DEF Logs, Nextval, txnVars, histVars
<1> HIDE DEF rec
<1>3. /\ need \in [Thread -> Nat] /\ seq \in Nat /\ given \in Nat /\ nextTxn \in Nat \ {0}
      /\ image.covered \in Nat /\ nextLsn \in Nat \ {0} /\ safe \in Nat
  BY WalAssumption DEF TypeInv, TypeOK
<1>4. SeqCaller \in Thread /\ \A u \in Txn : u \in Thread /\ u # SeqCaller
  BY DEF Thread, SeqCaller, Txn
<1>5. need'[SeqCaller] = nextLsn /\ \A u \in Txn : need'[u] = need[u]
  BY <1>0, <1>3, <1>4
<1>6. Climbs' /\ OneEnd' /\ WriterInv'
  <2>1. rec.txn < nextTxn
    BY <1>1, <1>3
  <2> QED BY <1>0, <1>1, <1>2, <2>1, AppendKeepsLog
<1>7. TxnInv' /\ OpsInv'
  <2>1. TxnInv
    BY <1>0 DEF UpInv
  <2>2. \A u \in Txn : /\ Active(u)' <=> Active(u)
                       /\ status'[u] # "failed"
                       /\ status'[u] # "running" => undoing[u] = <<>>
    BY <1>0, <2>1 DEF TxnInv, Active
  <2> QED BY <1>0, <1>1, <1>2, <2>2, AppendKeepsTxn
<1>8. CutsInv'
  BY <1>0, <1>1, <1>2, AppendKeepsCuts
<1>9. StagedInv'
  BY <1>0, StagedSame DEF UpInv
<1>10. MarkerInv' /\ OrderInv' /\ ImageInv'
  BY <1>0, <1>1, <1>2, AppendKeepsRest
<1>11. PICK f \in Frames, n \in Nat : Grown(rec, f, n)
  BY <1>1, <1>2, LogGrows
<1>12. GroupInv'
  <2>0. GroupInv /\ leader' = leader /\ durable' = durable
    BY <1>0, <1>2 DEF UpInv, Logs
  <2>1. /\ durable' < nextLsn' /\ tail' < nextLsn'
        /\ \A i \in 1..Len(Log') : Log'[i].lsn <= durable' => i <= safe'
        /\ tail' # 0 => \A i \in 1..Len(Log') : Log'[i].lsn <= tail' => i <= Len(file')
    BY <1>1, <1>2, AppendKeepsGroup
  <2>2. /\ \A u \in Txn : need[u] # 0 <=> status[u] = "staged"
        /\ \A u \in Txn : status[u] = "staged" =>
              \E i \in 1..Len(Log') : IsCommit(Log'[i], u) /\ Log'[i].lsn = need[u]
    BY <2>0, <1>11 DEF GroupInv, Grown
  <2>3. leader # NoThread => need'[leader] # 0 /\ durable < need'[leader]
    <3> SUFFICES ASSUME leader # NoThread PROVE need'[leader] # 0 /\ durable < need'[leader]
      OBVIOUS
    <3>1. need[leader] # 0 /\ durable < need[leader]
      BY <2>0 DEF GroupInv
    <3>2. leader \in Thread
      BY DEF TypeInv, TypeOK
    <3>3. leader # SeqCaller
      BY <1>0, <3>1
    <3>4. need'[leader] = need[leader]
      BY <1>0, <1>3, <3>2, <3>3
    <3> QED BY <3>1, <3>4
  <2> QED BY <1>0, <1>5, <2>0, <2>1, <2>2, <2>3 DEF GroupInv
<1>13. SeqInv'
  <2>0. SeqInv /\ given' = given /\ image' = image /\ safe' = safe /\ ckpt' = FALSE
    BY <1>0, <1>2 DEF UpInv, Logs
  <2>1. given <= seq /\ given <= seq' /\ seqPrior' < seq'
    BY <1>0, <1>3, <2>0 DEF SeqInv
  <2>2. image.covered < nextLsn
    BY <1>0 DEF UpInv, WriterInv
  <2>3. f.lsn > image.covered /\ f.rec.kind = "seq" /\ f.rec.val = seq + 1
    BY <1>1, <1>3, <1>11, <2>2 DEF Grown
  <2>4. \A k \in safe..Len(Log') : given <= SeqAt(Log', image, k)
    <3> SUFFICES ASSUME NEW k \in safe..Len(Log') PROVE given <= SeqAt(Log', image, k)
      OBVIOUS
    <3>1. CASE k \in safe..n
      <4>1. k \in Nat /\ \A i \in 1..k : Log[i] = Log'[i]
        BY <1>3, <1>11, <3>1 DEF Grown
      <4>2. SeqAt(Log, image, k) = SeqAt(Log', image, k)
        BY <4>1, SameSeq
      <4> QED BY <1>11, <2>0, <3>1, <4>2 DEF SeqInv, Grown
    <3>2. CASE k = n + 1
      <4>1. SeqAt(Log', image, n + 1) = f.rec.val
        BY <1>11, <2>3, AppendSeq DEF Grown
      <4> QED BY <1>3, <2>1, <2>3, <3>2, <4>1
    <3> QED BY <1>3, <1>11, <3>1, <3>2 DEF Grown
  <2>5. /\ n + 1 \in 1..Len(Log') /\ Log'[n + 1] = f /\ f.lsn = nextLsn
        /\ \A q \in (n + 1 + 1)..Len(Log') : FALSE
    BY <1>11 DEF Grown
  <2>6. \E p \in 1..Len(Log') :
                /\ Log'[p].lsn = need'[SeqCaller] /\ Log'[p].lsn > image.covered
                /\ Log'[p].rec.kind = "seq" /\ Log'[p].rec.val = seq'
                /\ \A q \in (p + 1)..Len(Log') : Log'[q].rec.kind # "seq"
    BY <1>0, <1>5, <2>3, <2>5
  <2> QED BY <1>0, <2>0, <2>1, <2>4, <2>6 DEF SeqInv
<1> QED BY <1>0, <1>6, <1>7, <1>8, <1>9, <1>10, <1>12, <1>13 DEF Sound, UpInv

\* The rows a transaction did not write it sees as committed.
LEMMA NotWritten ==
    ASSUME TypeInv, NEW t \in Txn, NEW r
    PROVE  /\ r \notin DOMAIN WriteSet(t) => Current(t, r) = db[r]
           /\ r \in DOMAIN WriteSet(t) => \E i \in 1..Len(undo[t]) : undo[t][i].row = r
<1>1. DOMAIN WriteSet(t) = {undo[t][i].row : i \in 1..Len(undo[t])}
  BY DEF WriteSet
<1> QED BY <1>1 DEF Current

LEMMA CommitStageKeeps ==
    ASSUME TypeInv, Sound, NEW t \in Txn, CommitStage(t)
    PROVE  Sound'
<1> DEFINE rec == MarkRec("commit", t)
           c == [txn |-> t, sets |-> WriteSet(t)]
<1>0. /\ UpInv /\ mode = "up" /\ mode' = "up" /\ ~ckpt /\ status[t] = "running"
      /\ undoing[t] = <<>> /\ status' = [status EXCEPT ![t] = "staged"]
      /\ need' = [need EXCEPT ![t] = nextLsn] /\ order' = Append(order, c)
      /\ UNCHANGED <<seq, seqPrior, undo, undoing, base, db, lock>>
  BY DEF CommitStage, Running, Up, Sound, seqVars
<1>1. rec \in Record /\ rec.kind = "commit" /\ rec.txn = t
  BY NewRecords DEF MarkRec
<1>2. Logs(rec)
  BY <1>0 DEF Logs, CommitStage
<1>3. c \in Commit /\ c.txn = t /\ c.sets = WriteSet(t)
  BY WriteSetType DEF Commit
<1> HIDE DEF rec, c
<1>4. /\ status \in [Txn -> {"none", "running", "failed", "staged", "aborting", "ended"}]
      /\ need \in [Thread -> Nat] /\ order \in Seq(Commit) /\ safe \in Nat
      /\ image.covered \in Nat /\ nextLsn \in Nat \ {0} /\ undo[t] \in Seq(Undo)
      /\ acked \subseteq 1..Len(order) /\ lock \in [Row -> Txn \cup {0}]
  BY DEF TypeInv, TypeOK
<1>5. \A u \in Txn : status'[u] = IF u = t THEN "staged" ELSE status[u]
  BY <1>0, <1>4
<1>6. \A u \in Thread : need'[u] = IF u = t THEN nextLsn ELSE need[u]
  BY <1>0, <1>4
<1>7. SeqCaller \in Thread /\ \A u \in Txn : u \in Thread /\ u # SeqCaller
  BY DEF Thread, SeqCaller, Txn
<1>8. PICK f \in Frames, n \in Nat : Grown(rec, f, n)
  BY <1>1, <1>2, LogGrows
<1>9. IsCommit(f, t) /\ f.lsn > image.covered /\ \A u : ~IsAbort(f, u) /\ (IsCommit(f, u) => u = t)
  <2>1. image.covered < nextLsn
    BY <1>0 DEF UpInv, WriterInv
  <2> QED BY <1>1, <1>4, <1>8, <2>1 DEF IsCommit, IsAbort, Grown
<1>10. \A i \in 1..Len(order) : order[i].txn \in Txn /\ order[i].txn # t
  <2>1. \A i \in 1..Len(order) : order[i] \in Commit
    BY <1>4
  <2>2. \A i \in 1..Len(order) : status[order[i].txn] \in {"staged", "ended"}
    BY <1>0 DEF UpInv, OrderInv
  <2> QED BY <1>0, <2>1, <2>2 DEF Commit
<1>11. /\ Len(order) \in Nat /\ Len(order') = Len(order) + 1 /\ order'[Len(order) + 1] = c
       /\ \A i \in 1..Len(order) : order'[i] = order[i]
  BY <1>0, <1>3, <1>4
<1>12. Writes(t) = undo[t]
  BY <1>0, <1>4 DEF Writes
<1>13. Climbs' /\ OneEnd' /\ WriterInv'
  <2>1. t < nextTxn
    BY <1>0 DEF UpInv, WriterInv
  <2>2. \A u \in Txn : status'[u] # "none" => status[u] # "none"
    BY <1>0, <1>5
  <2> QED BY <1>0, <1>1, <1>2, <2>1, <2>2, AppendKeepsLog
<1>14. TxnInv' /\ OpsInv'
  <2>1. TxnInv
    BY <1>0 DEF UpInv
  <2>2. \A u \in Txn : /\ Active(u)' <=> Active(u)
                       /\ status'[u] # "failed"
                       /\ status'[u] # "running" => undoing[u] = <<>>
    BY <1>0, <1>5, <2>1 DEF TxnInv, Active
  <2> QED BY <1>0, <1>1, <1>2, <2>2, AppendKeepsTxn
<1>15. SeqInv'
  <2>1. need'[SeqCaller] = need[SeqCaller]
    BY <1>6, <1>7
  <2> QED BY <1>0, <1>1, <1>2, <2>1, AppendKeepsSeq
<1>16. MarkerInv'
  <2> SUFFICES ASSUME NEW u \in Txn, NEW i \in 1..Len(Log')
               PROVE  /\ IsCommit(Log'[i], u) => status'[u] \in {"none", "staged", "ended"}
                      /\ IsAbort(Log'[i], u) => status'[u] \in {"none", "ended"}
    BY DEF MarkerInv
  <2>1. CASE i = n + 1
    BY <1>5, <1>8, <1>9, <2>1 DEF Grown
  <2>2. CASE i \in 1..n
    <3>1. Log'[i] = Log[i] /\ i \in 1..Len(Log)
      BY <1>8, <2>2 DEF Grown
    <3>2. /\ IsCommit(Log[i], u) => status[u] \in {"none", "staged", "ended"}
          /\ IsAbort(Log[i], u) => status[u] \in {"none", "ended"}
      BY <1>0, <3>1 DEF UpInv, MarkerInv
    <3> QED BY <1>0, <1>5, <3>1, <3>2
  <2> QED BY <1>8, <2>1, <2>2 DEF Grown
<1>17. OrderInv'
  <2>0. OrderInv /\ acked' = acked /\ safe' = safe
    BY <1>0, <1>2 DEF UpInv, Logs
  <2>1. \A i \in 1..Len(order') : status'[order'[i].txn] \in {"staged", "ended"}
    <3> SUFFICES ASSUME NEW i \in 1..Len(order')
                 PROVE  status'[order'[i].txn] \in {"staged", "ended"}
      OBVIOUS
    <3>1. CASE i \in 1..Len(order)
      BY <1>5, <1>10, <1>11, <2>0, <3>1 DEF OrderInv
    <3>2. CASE i = Len(order) + 1
      BY <1>3, <1>5, <1>11, <3>2
    <3> QED BY <1>11, <3>1, <3>2
  <2>2. \A i \in acked : \A p \in (safe + 1)..Len(Log') : ~IsCommit(Log'[p], order'[i].txn)
    <3> SUFFICES ASSUME NEW i \in acked, NEW p \in (safe + 1)..Len(Log')
                 PROVE  ~IsCommit(Log'[p], order'[i].txn)
      OBVIOUS
    <3>0. i \in 1..Len(order) /\ order'[i] = order[i] /\ order[i].txn # t
      BY <1>4, <1>10, <1>11
    <3>1. CASE p = n + 1
      BY <1>8, <1>9, <3>0, <3>1 DEF Grown
    <3>2. CASE p # n + 1
      <4>1. p \in (safe + 1)..Len(Log) /\ Log'[p] = Log[p]
        BY <1>4, <1>8, <3>2 DEF Grown
      <4> QED BY <2>0, <3>0, <4>1 DEF OrderInv
    <3> QED BY <3>1, <3>2
  <2> QED BY <2>0, <2>1, <2>2 DEF OrderInv
<1>18. GroupInv'
  <2>0. GroupInv /\ leader' = leader /\ durable' = durable
    BY <1>0, <1>2 DEF UpInv, Logs
  <2>1. /\ durable' < nextLsn' /\ tail' < nextLsn'
        /\ \A i \in 1..Len(Log') : Log'[i].lsn <= durable' => i <= safe'
        /\ tail' # 0 => \A i \in 1..Len(Log') : Log'[i].lsn <= tail' => i <= Len(file')
    BY <1>1, <1>2, AppendKeepsGroup
  <2>2. \A u \in Txn : need'[u] # 0 <=> status'[u] = "staged"
    BY <1>4, <1>5, <1>6, <1>7, <2>0 DEF GroupInv
  <2>3. ASSUME NEW u \in Txn, status'[u] = "staged"
        PROVE  \E i \in 1..Len(Log') : IsCommit(Log'[i], u) /\ Log'[i].lsn = need'[u]
    <3>1. CASE u = t
      <4>1. n + 1 \in 1..Len(Log') /\ IsCommit(Log'[n + 1], t) /\ Log'[n + 1].lsn = nextLsn
        BY <1>8, <1>9 DEF Grown
      <4> QED BY <1>6, <1>7, <3>1, <4>1
    <3>2. CASE u # t
      BY <1>5, <1>6, <1>7, <1>8, <2>0, <2>3, <3>2 DEF GroupInv, Grown
    <3> QED BY <3>1, <3>2
  <2>4. leader # NoThread => need'[leader] # 0 /\ durable < need'[leader]
    <3> SUFFICES ASSUME leader # NoThread PROVE need'[leader] # 0 /\ durable < need'[leader]
      OBVIOUS
    <3>1. need[leader] # 0 /\ durable < need[leader]
      BY <2>0 DEF GroupInv
    <3>2. leader \in Thread
      BY DEF TypeInv, TypeOK
    <3>3. leader # t
      BY <1>0, <2>0, <3>1 DEF GroupInv
    <3> QED BY <1>6, <3>1, <3>2, <3>3
  <2> QED BY <2>0, <2>1, <2>2, <2>3, <2>4 DEF GroupInv
<1>19. ImageInv'
  BY <1>0, <1>2 DEF ImageInv, Logs
<1>20. \A r : AppliedAt(base, order', Len(order'), r) =
              IF r \in DOMAIN WriteSet(t) THEN Current(t, r)
              ELSE AppliedAt(base, order, Len(order), r)
  <2> SUFFICES ASSUME NEW r
               PROVE  AppliedAt(base, order', Len(order'), r) =
                          IF r \in DOMAIN WriteSet(t) THEN Current(t, r)
                          ELSE AppliedAt(base, order, Len(order), r)
    OBVIOUS
  <2>0. order' = Append(order, c) /\ Len(order') = Len(order) + 1
    BY <1>0, <1>11
  <2>1. r \in DOMAIN c.sets =>
            AppliedAt(base, Append(order, c), Len(order) + 1, r) = c.sets[r]
    BY <1>3, <1>4, AppliedOwn
  <2>2. r \notin DOMAIN c.sets => AppliedAt(base, Append(order, c), Len(order) + 1, r) =
                                     AppliedAt(base, order, Len(order), r)
    BY <1>3, <1>4, AppliedOther
  <2>3. r \in DOMAIN WriteSet(t) => WriteSet(t)[r] = Current(t, r)
    BY WriteSetType
  <2> QED BY <1>3, <2>0, <2>1, <2>2, <2>3
<1>21. StagedInv'
  <2> SUFFICES ASSUME NEW x \in Row, NEW u \in Txn \cup {0}, lock[x] = u
               PROVE  AppliedAt(base, order', Len(order'), x) =
                         IF u \in Txn /\ status'[u] = "staged" THEN Current(u, x)' ELSE db[x]
    BY <1>0 DEF StagedInv
  <2>1. AppliedAt(base, order, Len(order), x) =
            IF u \in Txn /\ status[u] = "staged" THEN Current(u, x) ELSE db[x]
    BY <1>0 DEF UpInv, StagedInv
  <2>2. u \in Txn => Current(u, x)' = Current(u, x)
    BY <1>0, CurrentSame
  <2>3. x \in DOMAIN WriteSet(t) => u = t
    <3> SUFFICES ASSUME x \in DOMAIN WriteSet(t) PROVE u = t
      OBVIOUS
    <3>1. PICK i \in 1..Len(undo[t]) : undo[t][i].row = x
      BY NotWritten
    <3>2. lock[undo[t][i].row] = t
      BY <1>0, <1>12 DEF UpInv, TxnInv
    <3> QED BY <3>1, <3>2
  <2>4. CASE u = t
    <3>1. AppliedAt(base, order', Len(order'), x) = Current(t, x)
      BY <1>0, <1>20, <2>1, <2>4, NotWritten
    <3> QED BY <1>5, <2>2, <2>4, <3>1
  <2>5. CASE u # t
    BY <1>5, <1>20, <2>1, <2>2, <2>3, <2>5
  <2> QED BY <2>4, <2>5
<1>22. CutsInv'
  <2>0. /\ CutsInv /\ image' = image /\ base' = base /\ safe' = safe
    BY <1>0, <1>2 DEF UpInv, Logs
  <2> SUFFICES ASSUME NEW k \in safe..Len(Log')
               PROVE  Replays(Log', image, base, order', k)
    BY <2>0 DEF CutsInv
  <2>1. CASE k \in safe..n
    <3>1. Replays(Log, image, base, order, k) /\ k \in 0..Len(Log)
      BY <1>4, <1>8, <2>0, <2>1 DEF CutsInv, Grown
    <3>2. IsCommit(f, c.txn) /\ \A i \in 1..Len(order) : order[i].txn # c.txn
      BY <1>3, <1>9, <1>10
    <3>3. Log \in Seq(Frames) /\ Log' = Append(Log, f) /\ order' = Append(order, c)
      BY <1>0, <1>8 DEF Grown
    <3> QED BY <1>3, <1>4, <1>9, <3>1, <3>2, <3>3, CutCommit
  <2>2. CASE k = n + 1
    <3>1. Replays(Log, image, base, order, n)
      BY <1>4, <1>8, <2>0 DEF CutsInv, Grown
    <3>2. \A r \in Row : RowAt(Log, image, n, r) = AppliedAt(base, order, Len(order), r)
      BY <1>4, <1>8, <3>1, Uncut DEF Grown
    <3>3. ASSUME NEW r \in Row
          PROVE  RowAt(Log', image, n + 1, r) = AppliedAt(base, order', Len(order'), r)
      <4>1. CASE \A i \in 1..n : ~IsOp(Log[i], t, r)
        <5>1. RowAt(Log', image, n + 1, r) = RowAt(Log, image, n, r)
          BY <1>8, <1>9, <4>1, AppendCommitOther DEF Grown
        <5>2. r \notin DOMAIN WriteSet(t)
          <6> SUFFICES ASSUME r \in DOMAIN WriteSet(t) PROVE FALSE
            OBVIOUS
          <6>1. PICK i \in 1..Len(undo[t]) : undo[t][i].row = r
            BY NotWritten
          <6>2. \E p \in 1..Len(Log) : IsOp(Log[p], t, undo[t][i].row)
            BY <1>0, <1>12 DEF UpInv, TxnInv
          <6> QED BY <1>8, <4>1, <6>1, <6>2 DEF Grown
        <5> QED BY <1>20, <3>2, <5>1, <5>2
      <4>2. ASSUME NEW p \in 1..n, IsOp(Log[p], t, r)
            PROVE  RowAt(Log', image, n + 1, r) = AppliedAt(base, order', Len(order'), r)
        <5>0. n = Len(Log) /\ Active(t)
          BY <1>0, <1>8 DEF Grown, Active
        <5>1. /\ lock[r] = t
              /\ \A v \in MaybeValue : ValueOf(Writes(t), r, db[r], v) => LastOp(t, r, v)
          BY <1>0, <4>2, <5>0 DEF UpInv, OpsInv
        <5>2. Current(t, r) \in MaybeValue /\ ValueOf(undo[t], r, db[r], Current(t, r))
          BY <1>4, CurrentIs, WriteSetType
        <5>3. PICK i \in 1..n : /\ IsOp(Log[i], t, r) /\ Current(t, r) = Log[i].rec.val
                                /\ \A j \in (i + 1)..n : ~IsOp(Log[j], t, r)
          BY <1>12, <5>0, <5>1, <5>2 DEF LastOp
        <5>4. /\ Log[i].lsn > image.covered
              /\ \A q \in (i + 1)..n, u \in Txn \ {t} : ~IsOp(Log[q], u, r)
          BY <1>0, <5>0, <5>3 DEF UpInv, OpsInv
        <5>5. \A j \in (i + 1)..n : \A u : ~IsOp(Log[j], u, r)
          <6> SUFFICES ASSUME NEW j \in (i + 1)..n, NEW u, IsOp(Log[j], u, r) PROVE FALSE
            OBVIOUS
          <6>1. j \in 1..Len(Log) /\ Log \in Seq(Frames)
            BY <1>8, <5>0 DEF Grown
          <6>2. Log[j].rec \in Record
            BY <6>1, FrameParts
          <6>3. u \in Txn
            BY <6>2, RecordKinds DEF IsOp
          <6> QED BY <5>3, <5>4, <6>3
        <5>6. RowAt(Log', image, n + 1, r) = Current(t, r)
          <6>1. /\ Log \in Seq(Frames) /\ Log' = Append(Log, f) /\ i \in 1..Len(Log)
                /\ NoLaterOp(Log, i, r)
            BY <1>8, <5>0, <5>5 DEF Grown, NoLaterOp
          <6>2. IsOp(Log[i], t, r) /\ Log[i].lsn > image.covered
            BY <5>3, <5>4
          <6>3. IsCommit(f, t) /\ f.lsn > image.covered
            BY <1>9
          <6>4. RowAt(Append(Log, f), image, Len(Log) + 1, r) = Log[i].rec.val
            BY <6>1, <6>2, <6>3, AppendCommitOwn
          <6> QED BY <5>0, <5>3, <6>1, <6>4
        <5>7. AppliedAt(base, order, Len(order), r) = db[r]
          BY <1>0, <5>1 DEF UpInv, StagedInv
        <5> QED BY <1>20, <5>6, <5>7, NotWritten
      <4> QED BY <4>1, <4>2
    <3>4. Log' \in Seq(Frames) /\ order' \in Seq(Commit) /\ Len(Log') = n + 1
      BY <1>0, <1>3, <1>4, <1>8 DEF Grown
    <3>5. Replays(Log', image, base, order', Len(Log'))
      BY <3>3, <3>4, Uncut
    <3> QED BY <2>2, <3>4, <3>5
  <2> QED BY <1>4, <1>8, <2>1, <2>2 DEF Grown
<1> QED BY <1>0, <1>13, <1>14, <1>15, <1>16, <1>17, <1>18, <1>19, <1>21, <1>22 DEF Sound, UpInv

-----------------------------------------------------------------------------
(* Steps that leave the log alone                                          *)

Quiet ==
    /\ mode = "up" /\ mode' = "up" /\ Log' = Log
    /\ UNCHANGED <<image, nextLsn, base, order>>

LEMMA QuietLog ==
    /\ UNCHANGED <<file, buf>> => Log' = Log
    /\ TypeOK /\ file' = file \o buf /\ buf' = <<>> => Log' = Log /\ Len(file') = Len(Log)
<1>1. ASSUME TypeOK, file' = file \o buf, buf' = <<>>
      PROVE  Log' = Log /\ Len(file') = Len(Log)
  <2>1. file \in Seq(Frames) /\ buf \in Seq(Frames)
    BY <1>1 DEF TypeOK
  <2>2. (file \o buf) \o <<>> = file \o buf
    BY <2>1
  <2> QED BY <1>1, <2>2 DEF Log
<1> QED BY <1>1 DEF Log

LEMMA QuietKeepsLog ==
    ASSUME TypeInv, Sound, Quiet, nextTxn' \in {nextTxn, nextTxn + 1},
           \A t \in Txn : status'[t] # "none" => status[t] # "none" \/ t < nextTxn'
    PROVE  Climbs' /\ OneEnd' /\ WriterInv'
<1>0. Climbs /\ OneEnd /\ WriterInv
  BY DEF Sound, UpInv, Quiet
<1>1. Climbs' /\ OneEnd'
  BY <1>0 DEF Climbs, OneEnd, Quiet
<1>2. /\ \A i \in 1..Len(Log) : Log[i].rec.txn \in Nat
      /\ image.txn \in Nat /\ nextTxn \in Nat
  <2>1. Log \in Seq(Frames)
    BY LogIs DEF TypeInv
  <2> QED BY <2>1, FrameParts, WalAssumption DEF TypeInv, TypeOK
<1>3. \A i \in 1..Len(Log) : Log[i].rec.txn < nextTxn'
  BY <1>0, <1>2 DEF WriterInv
<1>4. image.txn < nextTxn' /\ \A t \in Txn : status[t] # "none" => t < nextTxn'
  BY <1>0, <1>2 DEF WriterInv, Txn
<1> QED BY <1>0, <1>1, <1>3, <1>4 DEF WriterInv, Quiet

LEMMA QuietKeepsCuts ==
    ASSUME TypeInv, Sound, Quiet, safe' \in Nat, safe <= safe'
    PROVE  CutsInv'
<1>1. CutsInv /\ safe \in Nat /\ Len(Log) \in Nat
  BY LogIs DEF Sound, UpInv, Quiet, TypeInv
<1>2. \A k \in safe'..Len(Log) : k \in safe..Len(Log)
  BY <1>1
<1> QED BY <1>1, <1>2 DEF CutsInv, Quiet

LEMMA QuietKeepsSeq ==
    ASSUME TypeInv, Sound, Quiet, safe' \in Nat, safe <= safe',
           UNCHANGED <<seq, seqPrior, given, need[SeqCaller]>>, ckpt' => ckpt
    PROVE  SeqInv'
<1>1. SeqInv /\ safe \in Nat /\ Len(Log) \in Nat
  BY LogIs DEF Sound, UpInv, Quiet, TypeInv
<1>2. \A k \in safe'..Len(Log) : k \in safe..Len(Log)
  BY <1>1
<1>3. \A k \in safe'..Len(Log) : given <= SeqAt(Log, image, k)
  BY <1>1, <1>2 DEF SeqInv
<1> QED BY <1>1, <1>3 DEF SeqInv, Quiet

\* Neither the writes, nor the locks, nor the committed rows change.
LEMMA QuietKeepsTxn ==
    ASSUME TypeInv, Sound, Quiet, UNCHANGED <<lock, db, status>>,
           \A t \in Txn : /\ Writes(t)' = Writes(t)
                          /\ (status[t] # "running" => undo'[t] = undo[t] /\ undoing'[t] = undoing[t])
    PROVE  TxnInv' /\ OpsInv' /\ StagedInv'
<1>0. TxnInv /\ OpsInv /\ StagedInv
  BY DEF Sound, UpInv, Quiet
<1>1. \A t \in Txn : Active(t)' <=> Active(t)
  BY DEF Active
<1>2. TxnInv'
  <2> SUFFICES ASSUME NEW u \in Txn
               PROVE  /\ status'[u] # "failed"
                      /\ status'[u] # "running" => undoing'[u] = <<>>
                      /\ ~Active(u)' => undo'[u] = <<>> /\ \A x \in Row : lock'[x] # u
                      /\ \A i \in 1..Len(Writes(u)') :
                            /\ lock'[Writes(u)'[i].row] = u
                            /\ ValueOf(SubSeq(Writes(u)', 1, i - 1), Writes(u)'[i].row,
                                       db'[Writes(u)'[i].row], Writes(u)'[i].old)
                            /\ \E p \in 1..Len(Log') : IsOp(Log'[p], u, Writes(u)'[i].row)
    BY DEF TxnInv
  <2>1. \A i \in 1..Len(Writes(u)) :
              /\ lock[Writes(u)[i].row] = u
              /\ ValueOf(SubSeq(Writes(u), 1, i - 1), Writes(u)[i].row,
                         db[Writes(u)[i].row], Writes(u)[i].old)
              /\ \E p \in 1..Len(Log) : IsOp(Log[p], u, Writes(u)[i].row)
    BY <1>0 DEF TxnInv
  <2>2. /\ status[u] # "failed" /\ (status[u] # "running" => undoing[u] = <<>>)
        /\ (~Active(u) => undo[u] = <<>> /\ \A x \in Row : lock[x] # u)
    BY <1>0 DEF TxnInv
  <2>3. status[u] = "running" => Active(u)
    BY DEF Active
  <2> QED BY <1>1, <2>1, <2>2, <2>3 DEF Quiet
<1>3. OpsInv'
  <2>1. \A u, x, w : LastOp(u, x, w)' <=> LastOp(u, x, w)
    BY DEF LastOp, Quiet
  <2> QED BY <1>0, <1>1, <2>1 DEF OpsInv, Quiet
<1>4. StagedInv'
  <2> SUFFICES ASSUME NEW x \in Row, NEW u \in Txn \cup {0}, lock[x] = u
               PROVE  AppliedAt(base, order, Len(order), x) =
                         IF u \in Txn /\ status[u] = "staged" THEN Current(u, x)' ELSE db[x]
    BY DEF StagedInv, Quiet
  <2>1. AppliedAt(base, order, Len(order), x) =
            IF u \in Txn /\ status[u] = "staged" THEN Current(u, x) ELSE db[x]
    BY <1>0 DEF StagedInv
  <2>2. CASE u \in Txn /\ status[u] = "staged"
    <3>1. u \in Txn /\ undo'[u] = undo[u]
      BY <2>2
    <3>2. Current(u, x)' = Current(u, x)
      BY <3>1, CurrentSame
    <3> QED BY <2>1, <2>2, <3>2
  <2>3. CASE ~(u \in Txn /\ status[u] = "staged")
    BY <2>1, <2>3
  <2> QED BY <2>2, <2>3
<1> QED BY <1>2, <1>3, <1>4

\* Nor do the markers that count.
LEMMA QuietKeepsRest ==
    ASSUME TypeInv, Sound, Quiet, UNCHANGED <<status, acked, db>>, safe' \in Nat, safe <= safe',
           ckpt' => ckpt
    PROVE  MarkerInv' /\ OrderInv' /\ ImageInv'
<1>0. MarkerInv /\ OrderInv /\ ImageInv
  BY DEF Sound, UpInv, Quiet
<1>1. MarkerInv'
  BY <1>0 DEF MarkerInv, Quiet
<1>2. \A p \in (safe' + 1)..Len(Log) : p \in (safe + 1)..Len(Log)
  <2>1. safe \in Nat /\ Len(Log) \in Nat
    BY LogIs DEF TypeInv
  <2> SUFFICES ASSUME NEW m \in Nat, NEW p \in (m + 1)..Len(Log), safe <= m
               PROVE  p \in (safe + 1)..Len(Log)
    OBVIOUS
  <2> QED BY <2>1
<1>3. OrderInv'
  BY <1>0, <1>2 DEF OrderInv, Quiet
<1>4. ImageInv'
  BY <1>0 DEF ImageInv, Quiet, Active
<1> QED BY <1>1, <1>3, <1>4

LEMMA BeginKeeps ==
    ASSUME TypeInv, Sound, NEW t \in Txn, Begin(t)
    PROVE  Sound'
<1>0. /\ UpInv /\ mode = "up" /\ mode' = "up" /\ ~ckpt /\ t = nextTxn
      /\ nextTxn' = nextTxn + 1 /\ status' = [status EXCEPT ![t] = "running"]
      /\ UNCHANGED <<safe, image, base, order, acked, given, durable, leader, tail, need, seq,
                     seqPrior, undo, undoing, lock, db, ckpt, nextLsn, file, buf>>
  BY DEF Begin, Up, Sound, logVars, groupVars, seqVars, histVars
<1>1. Quiet
  BY <1>0, QuietLog DEF Quiet
<1>2. /\ status \in [Txn -> {"none", "running", "failed", "staged", "aborting", "ended"}]
      /\ nextTxn \in Nat /\ Log \in Seq(Frames) /\ safe \in Nat
  BY LogIs, WalAssumption DEF TypeInv, TypeOK
<1>3. \A u \in Txn : status'[u] = IF u = t THEN "running" ELSE status[u]
  BY <1>0, <1>2
<1>4. status[t] = "none"
  BY <1>0, <1>2 DEF UpInv, WriterInv
<1>5. \A i \in 1..Len(Log) : Log[i].rec.txn # t
  <2>1. \A i \in 1..Len(Log) : Log[i].rec.txn < nextTxn /\ Log[i].rec.txn \in Nat
    BY <1>0, <1>2, FrameParts DEF UpInv, WriterInv
  <2> QED BY <1>0, <1>2, <2>1
<1>6. Climbs' /\ OneEnd' /\ WriterInv'
  <2>1. \A u \in Txn : status'[u] # "none" => status[u] # "none" \/ u < nextTxn'
    BY <1>0, <1>2, <1>3
  <2> QED BY <1>0, <1>1, <2>1, QuietKeepsLog
<1>7. CutsInv' /\ SeqInv'
  BY <1>0, <1>1, <1>2, QuietKeepsCuts, QuietKeepsSeq
<1>8. MarkerInv'
  BY <1>0, <1>1, <1>3, <1>5 DEF UpInv, MarkerInv, IsCommit, IsAbort, Quiet
<1>9. GroupInv'
  <2>1. \A u \in Txn : status'[u] = "staged" <=> status[u] = "staged"
    BY <1>3, <1>4
  <2> QED BY <1>0, <1>1, <2>1 DEF UpInv, GroupInv, Quiet
<1>10. TxnInv'
  <2>0. TxnInv
    BY <1>0 DEF UpInv
  <2>1. \A u \in Txn : Writes(u)' = Writes(u)
    BY <1>0 DEF Writes
  <2>2. \A u \in Txn : ~Active(u)' => ~Active(u)
    BY <1>3 DEF Active
  <2>3. \A u \in Txn : /\ status'[u] # "failed"
                       /\ (status'[u] # "running" => status[u] # "running")
    BY <1>3, <1>4, <2>0 DEF TxnInv
  <2> QED BY <1>0, <1>1, <2>0, <2>1, <2>2, <2>3 DEF TxnInv, Quiet
<1>11. OpsInv'
  <2>0. OpsInv
    BY <1>0 DEF UpInv
  <2>1. \A u \in Txn : Writes(u)' = Writes(u)
    BY <1>0 DEF Writes
  <2>2. \A u \in Txn : u # t => (Active(u)' <=> Active(u))
    BY <1>3 DEF Active
  <2>3. \A p \in 1..Len(Log) : \A x : ~IsOp(Log[p], t, x)
    BY <1>5 DEF IsOp
  <2>4. \A u, x, w : LastOp(u, x, w)' <=> LastOp(u, x, w)
    BY <1>1 DEF LastOp, Quiet
  <2> SUFFICES ASSUME NEW u \in Txn, Active(u)', NEW p \in 1..Len(Log), NEW x \in Row,
                      IsOp(Log[p], u, x)
               PROVE  /\ Log[p].lsn > image.covered
                      /\ lock[x] = u
                      /\ \A q \in (p + 1)..Len(Log), y \in Txn \ {u} : ~IsOp(Log[q], y, x)
                      /\ \A w \in MaybeValue : ValueOf(Writes(u), x, db[x], w) => LastOp(u, x, w)
    BY <1>0, <1>1, <2>1, <2>4 DEF OpsInv, Quiet
  <2>5. Active(u)
    BY <2>2, <2>3
  <2> QED BY <2>0, <2>5 DEF OpsInv
<1>12. StagedInv'
  <2>1. StagedInv /\ \A u \in Txn : status'[u] = "staged" <=> status[u] = "staged"
    BY <1>0, <1>3, <1>4 DEF UpInv
  <2> QED BY <1>0, <2>1, StagedSame
<1>13. OrderInv'
  <2>0. OrderInv
    BY <1>0 DEF UpInv
  <2>1. \A i \in 1..Len(order) : order[i].txn \in Txn
    <3>1. \A i \in 1..Len(order) : order[i] \in Commit
      BY DEF TypeInv
    <3> QED BY <3>1 DEF Commit
  <2>2. \A i \in 1..Len(order) : status'[order[i].txn] \in {"staged", "ended"}
    BY <1>3, <1>4, <2>0, <2>1 DEF OrderInv
  <2> QED BY <1>0, <1>1, <2>0, <2>2 DEF OrderInv, Quiet
<1>14. ImageInv'
  BY <1>0 DEF ImageInv
<1> QED BY <1>0, <1>6, <1>7, <1>8, <1>9, <1>10, <1>11, <1>12, <1>13, <1>14 DEF Sound, UpInv

\* The rows t had locked are free, and all others as they were.
LEMMA UnlockedIs ==
    ASSUME TypeInv, NEW t \in Txn, lock' = Unlocked(t)
    PROVE  \A x \in Row : /\ lock[x] = t => lock'[x] = 0
                          /\ lock[x] # t => lock'[x] = lock[x]
                          /\ lock'[x] # t
                          /\ \A u \in Txn : lock'[x] = u <=> u # t /\ lock[x] = u
BY DEF Unlocked, TypeInv, TypeOK, Txn

\* A transaction that stops without a marker: rolled back, or nothing written.
LEMMA LeavesKeeps ==
    ASSUME TypeInv, Sound, NEW t \in Txn, NEW s \in {"aborting", "ended"}, Quiet, ~ckpt,
           status[t] = "running", undoing[t] = <<>>,
           status' = [status EXCEPT ![t] = s],
           undo' = [undo EXCEPT ![t] = <<>>], lock' = Unlocked(t),
           UNCHANGED <<safe, image, base, order, acked, given, durable, leader, tail, need, seq,
                       seqPrior, undoing, db, ckpt, nextTxn, file, buf>>
    PROVE  Sound'
<1>0. UpInv /\ mode' = "up"
  BY DEF Sound, Quiet
<1>1. /\ status \in [Txn -> {"none", "running", "failed", "staged", "aborting", "ended"}]
      /\ undo \in [Txn -> Seq(Undo)] /\ safe \in Nat /\ nextTxn \in Nat
      /\ undoing \in [Txn -> Seq(Undo)] /\ Len(Log) \in Nat
  BY LogIs, WalAssumption DEF TypeInv, TypeOK
<1>2. \A u \in Txn : /\ status'[u] = IF u = t THEN s ELSE status[u]
                     /\ undo'[u] = IF u = t THEN <<>> ELSE undo[u]
  BY <1>1
<1>3. \A u \in Txn : status'[u] = "staged" <=> status[u] = "staged"
  BY <1>2
<1>4. \A u \in Txn : Active(u)' <=> u # t /\ Active(u)
  BY <1>2 DEF Active
<1>5. /\ \A u \in Txn : u # t => Writes(u)' = Writes(u)
      /\ Writes(t)' = <<>>
  <2>1. \A u \in Txn : u # t => Writes(u)' = Writes(u)
    BY <1>2 DEF Writes
  <2>2. undo'[t] = <<>> /\ undoing'[t] = <<>>
    BY <1>2
  <2>3. Writes(t)' = <<>> \o <<>>
    BY <2>2 DEF Writes
  <2>4. <<>> \o <<>> = <<>>
    OBVIOUS
  <2> QED BY <2>1, <2>3, <2>4
<1>6. Climbs' /\ OneEnd' /\ WriterInv'
  BY <1>2, QuietKeepsLog
<1>7. CutsInv' /\ SeqInv'
  BY <1>1, QuietKeepsCuts, QuietKeepsSeq
<1>8. MarkerInv'
  <2>1. MarkerInv
    BY <1>0 DEF UpInv
  <2>2. \A i \in 1..Len(Log) : ~IsCommit(Log[i], t) /\ ~IsAbort(Log[i], t)
    BY <2>1 DEF MarkerInv
  <2> QED BY <1>2, <2>1, <2>2 DEF MarkerInv, Quiet
<1>9. GroupInv'
  BY <1>0, <1>3 DEF UpInv, GroupInv, Quiet
<1>10. TxnInv'
  <2>0. TxnInv
    BY <1>0 DEF UpInv
  <2> SUFFICES ASSUME NEW u \in Txn
               PROVE  /\ status'[u] # "failed"
                      /\ status'[u] # "running" => undoing'[u] = <<>>
                      /\ ~Active(u)' => undo'[u] = <<>> /\ \A x \in Row : lock'[x] # u
                      /\ \A i \in 1..Len(Writes(u)') :
                            /\ lock'[Writes(u)'[i].row] = u
                            /\ ValueOf(SubSeq(Writes(u)', 1, i - 1), Writes(u)'[i].row,
                                       db'[Writes(u)'[i].row], Writes(u)'[i].old)
                            /\ \E p \in 1..Len(Log') : IsOp(Log'[p], u, Writes(u)'[i].row)
    BY DEF TxnInv
  <2>1. CASE u = t
    <3>1. \A x \in Row : lock'[x] # t
      BY UnlockedIs
    <3>2. Len(Writes(u)') = 0
      BY <1>5, <2>1
    <3>3. \A i \in 1..Len(Writes(u)') : FALSE
      BY <3>2
    <3> QED BY <1>2, <2>1, <3>1, <3>3
  <2>2. CASE u # t
    <3>1. \A i \in 1..Len(Writes(u)) :
                /\ lock[Writes(u)[i].row] = u
                /\ ValueOf(SubSeq(Writes(u), 1, i - 1), Writes(u)[i].row,
                           db[Writes(u)[i].row], Writes(u)[i].old)
                /\ \E p \in 1..Len(Log) : IsOp(Log[p], u, Writes(u)[i].row)
      BY <2>0 DEF TxnInv
    <3>2. \A i \in 1..Len(Writes(u)) : lock'[Writes(u)[i].row] = u
      <4>1. \A i \in 1..Len(Writes(u)) : Writes(u)[i].row \in Row
        <5>1. Writes(u) \in Seq(Undo)
          BY <1>1 DEF Writes
        <5>2. \A i \in 1..Len(Writes(u)) : Writes(u)[i] \in Undo
          BY <5>1
        <5> QED BY <5>2 DEF Undo
      <4> QED BY <2>2, <3>1, <4>1, UnlockedIs
    <3>3. ~Active(u) => undo[u] = <<>> /\ \A x \in Row : lock'[x] # u
      BY <2>0, <2>2, UnlockedIs DEF TxnInv
    <3>4. /\ status'[u] # "failed" /\ (status'[u] # "running" => undoing[u] = <<>>)
      BY <1>2, <2>0, <2>2 DEF TxnInv
    <3>5. Writes(u)' = Writes(u) /\ undo'[u] = undo[u] /\ Log' = Log /\ (Active(u)' <=> Active(u))
      BY <1>2, <1>4, <1>5, <2>2 DEF Quiet
    <3> QED BY <3>1, <3>2, <3>3, <3>4, <3>5
  <2> QED BY <2>1, <2>2
<1>11. OpsInv'
  <2>0. OpsInv
    BY <1>0 DEF UpInv
  <2> SUFFICES ASSUME NEW u \in Txn, Active(u)', NEW p \in 1..Len(Log), NEW x \in Row,
                      IsOp(Log[p], u, x)
               PROVE  /\ Log[p].lsn > image.covered
                      /\ lock'[x] = u
                      /\ \A q \in (p + 1)..Len(Log), y \in Txn \ {u} : ~IsOp(Log[q], y, x)
                      /\ \A w \in MaybeValue :
                            ValueOf(Writes(u)', x, db[x], w) => LastOp(u, x, w)'
    BY DEF OpsInv, Quiet
  <2>1. u # t /\ Active(u)
    BY <1>4
  <2>2. /\ Log[p].lsn > image.covered
        /\ lock[x] = u
        /\ \A q \in (p + 1)..Len(Log), y \in Txn \ {u} : ~IsOp(Log[q], y, x)
        /\ \A w \in MaybeValue : ValueOf(Writes(u), x, db[x], w) => LastOp(u, x, w)
    BY <2>0, <2>1 DEF OpsInv
  <2>3. lock'[x] = u
    BY <2>1, <2>2, UnlockedIs
  <2>4. \A w : LastOp(u, x, w)' <=> LastOp(u, x, w)
    BY DEF LastOp, Quiet
  <2>5. Writes(u)' = Writes(u)
    BY <1>5, <2>1
  <2> QED BY <2>2, <2>3, <2>4, <2>5
<1>12. StagedInv'
  <2>0. StagedInv
    BY <1>0 DEF UpInv
  <2> SUFFICES ASSUME NEW x \in Row, NEW u \in Txn \cup {0}, lock'[x] = u
               PROVE  AppliedAt(base, order, Len(order), x) =
                         IF u \in Txn /\ status'[u] = "staged" THEN Current(u, x)' ELSE db[x]
    BY DEF StagedInv, Quiet
  <2>1. CASE lock[x] = t
    <3>1. u = 0 /\ u \notin Txn
      BY <2>1, UnlockedIs DEF Txn
    <3>2. AppliedAt(base, order, Len(order), x) = db[x]
      BY <2>0, <2>1 DEF StagedInv
    <3> QED BY <3>1, <3>2
  <2>2. CASE lock[x] # t
    <3>1. lock[x] = u /\ u # t
      BY <2>2, UnlockedIs
    <3>2. AppliedAt(base, order, Len(order), x) =
              IF u \in Txn /\ status[u] = "staged" THEN Current(u, x) ELSE db[x]
      BY <2>0, <3>1 DEF StagedInv
    <3>3. u \in Txn => undo'[u] = undo[u]
      BY <1>2, <3>1
    <3>4. u \in Txn => Current(u, x)' = Current(u, x)
      BY <3>3, CurrentSame
    <3> QED BY <1>3, <3>2, <3>4
  <2> QED BY <2>1, <2>2
<1>13. OrderInv'
  <2>0. OrderInv
    BY <1>0 DEF UpInv
  <2>1. \A i \in 1..Len(order) : order[i].txn \in Txn
    <3>1. \A i \in 1..Len(order) : order[i] \in Commit
      BY DEF TypeInv
    <3> QED BY <3>1 DEF Commit
  <2>2. \A i \in 1..Len(order) : status'[order[i].txn] \in {"staged", "ended"}
    BY <1>2, <2>0, <2>1 DEF OrderInv
  <2> QED BY <2>0, <2>2 DEF OrderInv, Quiet
<1>14. ImageInv'
  BY DEF ImageInv
<1> QED BY <1>0, <1>6, <1>7, <1>8, <1>9, <1>10, <1>11, <1>12, <1>13, <1>14 DEF Sound, UpInv

LEMMA RollbackKeeps ==
    ASSUME TypeInv, Sound, NEW t \in Txn, Rollback(t) \/ CommitReadOnly(t)
    PROVE  Sound'
<1>0. /\ UpInv /\ mode = "up" /\ mode' = "up" /\ ~ckpt /\ undoing[t] = <<>>
      /\ lock' = Unlocked(t)
      /\ UNCHANGED <<safe, image, base, order, acked, given, durable, leader, tail, need, seq,
                     seqPrior, undoing, db, ckpt, nextTxn, nextLsn, file, buf>>
  BY DEF Rollback, Aborted, CommitReadOnly, Running, Up, Alive, Sound, logVars, groupVars,
         seqVars, histVars
<1>1. Quiet
  BY <1>0, QuietLog DEF Quiet
<1>2. undo \in [Txn -> Seq(Undo)]
  BY DEF TypeInv, TypeOK
<1>3. CASE Rollback(t)
  <2>1. /\ status' = [status EXCEPT ![t] = "aborting"] /\ undo' = [undo EXCEPT ![t] = <<>>]
        /\ status[t] \in {"running", "failed"}
    BY <1>3 DEF Rollback, Aborted
  <2>2. status[t] = "running"
    BY <1>0, <2>1 DEF UpInv, TxnInv
  <2> QED BY <1>0, <1>1, <2>1, <2>2, LeavesKeeps
<1>4. CASE CommitReadOnly(t)
  <2>1. /\ status' = [status EXCEPT ![t] = "ended"] /\ undo' = undo /\ undo[t] = <<>>
        /\ status[t] = "running"
    BY <1>4 DEF CommitReadOnly, Running
  <2>2. undo' = [undo EXCEPT ![t] = <<>>]
    BY <1>2, <2>1
  <2> QED BY <1>0, <1>1, <2>1, <2>2, LeavesKeeps
<1> QED BY <1>3, <1>4

LEMMA SplitSeq ==
    ASSUME NEW s \in Seq(Undo), NEW m \in Nat, m < Len(s)
    PROVE  SubSeq(s, 1, m) \o SubSeq(s, m + 1, Len(s)) = s
<1> DEFINE x == SubSeq(s, 1, m)
           y == SubSeq(s, m + 1, Len(s))
           z == x \o y
<1>0. Len(s) \in Nat
  OBVIOUS
<1>1. x \in Seq(Undo) /\ Len(x) = m /\ \A i \in 1..m : x[i] = s[i]
  BY <1>0
<1>2. y \in Seq(Undo) /\ Len(y) = Len(s) - m
      /\ \A i \in 1..(Len(s) - m) : y[i] = s[m + i]
  BY <1>0
<1> HIDE DEF x, y
<1>3. z \in Seq(Undo) /\ Len(z) = Len(s)
  <2>1. x \in Seq(Undo) /\ y \in Seq(Undo)
    BY <1>1, <1>2
  <2>2. z \in Seq(Undo) /\ Len(z) = Len(x) + Len(y)
    BY <2>1
  <2>3. Len(x) + Len(y) = Len(s)
    BY <1>0, <1>1, <1>2
  <2> QED BY <2>2, <2>3
<1>4. \A i \in 1..m : z[i] = x[i]
  BY <1>0, <1>1, <1>2
<1>5. \A i \in (m + 1)..Len(s) : z[i] = y[i - m]
  BY <1>0, <1>1, <1>2
<1>6. \A i \in (m + 1)..Len(s) : y[i - m] = s[i]
  <2> SUFFICES ASSUME NEW i \in (m + 1)..Len(s) PROVE y[i - m] = s[i]
    OBVIOUS
  <2>1. i - m \in 1..(Len(s) - m) /\ m + (i - m) = i
    BY <1>0
  <2> QED BY <1>2, <2>1
<1> HIDE DEF z
<1>7. \A i \in 1..Len(s) : z[i] = s[i]
  BY <1>0, <1>1, <1>4, <1>5, <1>6
<1>8. z = s
  BY <1>3, <1>7
<1> QED BY <1>8 DEF x, y, z

LEMMA RollbackToKeeps ==
    ASSUME TypeInv, Sound, NEW t \in Txn, NEW mark \in Nat, RollbackTo(t, mark)
    PROVE  Sound'
<1>0. /\ UpInv /\ mode = "up" /\ mode' = "up" /\ ~ckpt /\ undoing[t] = <<>>
      /\ status[t] \in {"running", "failed"} /\ mark < Len(undo[t])
      /\ status' = [status EXCEPT ![t] = "running"]
      /\ undo' = [undo EXCEPT ![t] = SubSeq(@, 1, mark)]
      /\ undoing' = [undoing EXCEPT ![t] = SubSeq(undo[t], mark + 1, Len(undo[t]))]
      /\ UNCHANGED <<safe, image, base, order, acked, given, durable, leader, tail, need, seq,
                     seqPrior, lock, db, ckpt, nextTxn, nextLsn, file, buf>>
  BY DEF RollbackTo, Up, Sound, logVars, groupVars, seqVars, histVars
<1>1. Quiet
  BY <1>0, QuietLog DEF Quiet
<1>2. /\ undo \in [Txn -> Seq(Undo)] /\ undoing \in [Txn -> Seq(Undo)] /\ safe \in Nat
      /\ status \in [Txn -> {"none", "running", "failed", "staged", "aborting", "ended"}]
  BY DEF TypeInv, TypeOK
<1>3. status[t] = "running"
  BY <1>0 DEF UpInv, TxnInv
<1>4. status' = status
  BY <1>0, <1>2, <1>3
<1>5. Writes(t)' = Writes(t)
  <2> DEFINE s == undo[t]
  <2>1. s \in Seq(Undo) /\ Len(s) \in Nat /\ mark < Len(s)
    BY <1>0, <1>2
  <2>2. Writes(t) = s
    BY <1>0, <2>1 DEF Writes
  <2>3. undo'[t] = SubSeq(s, 1, mark) /\ undoing'[t] = SubSeq(s, mark + 1, Len(s))
    BY <1>0, <1>2
  <2>4. Writes(t)' = SubSeq(s, 1, mark) \o SubSeq(s, mark + 1, Len(s))
    BY <2>3 DEF Writes
  <2> HIDE DEF s
  <2>5. SubSeq(s, 1, mark) \o SubSeq(s, mark + 1, Len(s)) = s
    BY <2>1, SplitSeq
  <2> QED BY <2>2, <2>4, <2>5
<1>6. \A u \in Txn : /\ Writes(u)' = Writes(u)
                     /\ (status[u] # "running" => undo'[u] = undo[u] /\ undoing'[u] = undoing[u])
  <2>1. \A u \in Txn : u # t => undo'[u] = undo[u] /\ undoing'[u] = undoing[u]
    BY <1>0, <1>2
  <2>2. \A u \in Txn : u # t => Writes(u)' = Writes(u)
    BY <2>1 DEF Writes
  <2> QED BY <1>3, <1>5, <2>1, <2>2
<1>7. TxnInv' /\ OpsInv' /\ StagedInv'
  BY <1>0, <1>1, <1>4, <1>6, QuietKeepsTxn
<1>8. Climbs' /\ OneEnd' /\ WriterInv'
  BY <1>0, <1>1, <1>4, QuietKeepsLog
<1>9. CutsInv' /\ SeqInv' /\ MarkerInv' /\ OrderInv' /\ ImageInv'
  BY <1>0, <1>1, <1>2, <1>4, QuietKeepsCuts, QuietKeepsSeq, QuietKeepsRest
<1>10. GroupInv'
  BY <1>0, <1>1, <1>4 DEF UpInv, GroupInv, Quiet
<1> QED BY <1>0, <1>7, <1>8, <1>9, <1>10 DEF Sound, UpInv

\* A step of the group or of the checkpoint, which changes nothing of the
\* transactions.
Apart == Quiet /\ UNCHANGED <<status, undo, undoing, lock, db, acked>>

LEMMA ApartKeeps ==
    ASSUME TypeInv, Sound, Apart, nextTxn' \in {nextTxn, nextTxn + 1},
           safe' \in Nat, safe <= safe', ckpt' => ckpt
    PROVE  /\ Climbs' /\ OneEnd' /\ WriterInv' /\ MarkerInv' /\ TxnInv' /\ OpsInv' /\ StagedInv'
           /\ OrderInv' /\ ImageInv' /\ CutsInv'
<1>0. Quiet /\ UNCHANGED <<status, undo, undoing, lock, db, acked>>
  BY DEF Apart
<1>1. TxnInv' /\ OpsInv' /\ StagedInv'
  <2>1. \A u \in Txn : Writes(u)' = Writes(u)
    BY <1>0 DEF Writes
  <2> QED BY <1>0, <2>1, QuietKeepsTxn
<1>2. Climbs' /\ OneEnd' /\ WriterInv'
  BY <1>0, QuietKeepsLog
<1>3. CutsInv' /\ MarkerInv' /\ OrderInv' /\ ImageInv'
  BY <1>0, QuietKeepsCuts, QuietKeepsRest
<1> QED BY <1>1, <1>2, <1>3

LEMMA LeadKeeps ==
    ASSUME TypeInv, Sound, NEW th \in Thread, Lead(th)
    PROVE  Sound'
<1>0. /\ UpInv /\ mode = "up" /\ mode' = "up" /\ ~ckpt
      /\ need[th] # 0 /\ durable < need[th] /\ leader' = th /\ tail' = 0
      /\ UNCHANGED <<safe, image, base, order, acked, given, durable, need, seq, status, undo,
                     undoing, seqPrior, lock, db, ckpt, nextTxn, nextLsn, file, buf>>
  BY DEF Lead, Waiting, Alive, Sound, logVars, txnVars, seqVars, histVars
<1>1. Quiet /\ Apart /\ safe \in Nat /\ nextLsn \in Nat \ {0}
  BY <1>0, QuietLog DEF Quiet, Apart, TypeInv, TypeOK
<1>2. GroupInv'
  <2>1. GroupInv
    BY <1>0 DEF UpInv
  <2>2. 0 < nextLsn
    BY <1>1
  <2> QED BY <1>0, <1>1, <2>1, <2>2 DEF GroupInv, Quiet
<1>3. SeqInv'
  BY <1>0, <1>1, QuietKeepsSeq
<1> QED BY <1>0, <1>1, <1>2, <1>3, ApartKeeps DEF Sound, UpInv

LEMMA LeaderFlushKeeps ==
    ASSUME TypeInv, Sound, LeaderFlush
    PROVE  Sound'
<1>0. /\ UpInv /\ mode = "up" /\ mode' = "up" /\ ~ckpt
      /\ file' = file \o buf /\ buf' = <<>> /\ tail' = nextLsn - 1
      /\ UNCHANGED <<safe, image, base, order, acked, given, durable, leader, need, seq, status,
                     undo, undoing, seqPrior, lock, db, ckpt, nextTxn, nextLsn>>
  BY DEF LeaderFlush, Alive, Sound, txnVars, seqVars, histVars
<1>1. Log' = Log /\ Len(file') = Len(Log) /\ Len(Log) \in Nat
  BY <1>0, QuietLog, LogIs DEF TypeInv
<1>2. Quiet /\ Apart /\ safe \in Nat /\ nextLsn \in Nat \ {0}
  BY <1>0, <1>1 DEF Quiet, Apart, TypeInv, TypeOK
<1>3. GroupInv'
  <2>1. GroupInv
    BY <1>0 DEF UpInv
  <2>2. tail' < nextLsn
    BY <1>0, <1>2
  <2>3. \A i \in 1..Len(Log) : i <= Len(file')
    BY <1>1
  <2> QED BY <1>0, <1>1, <2>1, <2>2, <2>3 DEF GroupInv
<1>4. SeqInv'
  BY <1>0, <1>2, QuietKeepsSeq
<1> QED BY <1>0, <1>2, <1>3, <1>4, ApartKeeps DEF Sound, UpInv

LEMMA LeaderSyncKeeps ==
    ASSUME TypeInv, Sound, LeaderSync
    PROVE  Sound'
<1>0. /\ UpInv /\ mode = "up" /\ mode' = "up" /\ ~ckpt /\ tail # 0
      /\ safe' = Len(file) /\ durable' = IF tail > durable THEN tail ELSE durable
      /\ leader' = NoThread /\ tail' = 0
      /\ UNCHANGED <<image, base, order, acked, given, need, seq, status, file, buf,
                     undo, undoing, seqPrior, lock, db, ckpt, nextTxn, nextLsn>>
  BY DEF LeaderSync, Alive, Sound, txnVars, seqVars, histVars, logVars
<1>1. /\ Quiet /\ Apart /\ safe' \in Nat /\ safe <= safe' /\ safe \in Nat
      /\ nextLsn \in Nat \ {0} /\ durable \in Nat /\ tail \in Nat
  <2>1. Log' = Log
    BY <1>0, QuietLog
  <2>2. safe \in Nat /\ Len(file) \in Nat /\ safe <= Len(file)
    BY LogIs DEF TypeInv
  <2> QED BY <1>0, <2>1, <2>2 DEF Quiet, Apart, TypeInv, TypeOK
<1>2. GroupInv'
  <2>1. GroupInv
    BY <1>0 DEF UpInv
  <2>2. durable' < nextLsn /\ 0 < nextLsn
    BY <1>0, <1>1, <2>1 DEF GroupInv
  <2>3. \A i \in 1..Len(Log) : Log[i].lsn <= durable' => i <= safe'
    <3> SUFFICES ASSUME NEW i \in 1..Len(Log), Log[i].lsn <= durable' PROVE i <= safe'
      OBVIOUS
    <3>1. CASE durable' = tail
      <4>1. Log[i].lsn <= tail
        BY <3>1
      <4> QED BY <1>0, <2>1, <4>1 DEF GroupInv
    <3>2. CASE durable' = durable
      <4>1. Log[i].lsn <= durable
        BY <3>2
      <4>2. i <= safe /\ i \in Nat
        BY <2>1, <4>1 DEF GroupInv
      <4> QED BY <1>1, <4>2
    <3> QED BY <1>0, <3>1, <3>2
  <2>4. /\ \A t \in Txn : need[t] # 0 <=> status[t] = "staged"
        /\ \A t \in Txn : status[t] = "staged" =>
              \E i \in 1..Len(Log) : IsCommit(Log[i], t) /\ Log[i].lsn = need[t]
    BY <2>1 DEF GroupInv
  <2> QED BY <1>0, <1>1, <2>2, <2>3, <2>4 DEF GroupInv, Quiet
<1>3. SeqInv'
  BY <1>0, <1>1, QuietKeepsSeq
<1> QED BY <1>0, <1>1, <1>2, <1>3, ApartKeeps DEF Sound, UpInv

\* Nextval's fsync failed: the number is taken back.
LEMMA NextvalSyncFailsKeeps ==
    ASSUME TypeInv, Sound, LeaderSyncFails, leader = SeqCaller
    PROVE  Sound'
<1>n. SeqCaller \notin Txn /\ SeqCaller \in Thread
  BY DEF SeqCaller, Txn, Thread
<1>0. /\ UpInv /\ mode = "up" /\ mode' = "up" /\ ~ckpt
      /\ leader' = NoThread /\ tail' = 0 /\ seq' = seqPrior
      /\ need' = [need EXCEPT ![SeqCaller] = 0] /\ leader # NoThread
      /\ UNCHANGED <<image, base, order, acked, given, safe, durable, status, file, buf,
                     undo, undoing, lock, db, ckpt, nextTxn, nextLsn>>
  BY <1>n DEF LeaderSyncFails, LeaderFailed, Alive, Sound, histVars
<1>1. /\ Quiet /\ Apart /\ safe \in Nat /\ nextLsn \in Nat \ {0} /\ need \in [Thread -> Nat]
  BY <1>0, QuietLog DEF Quiet, Apart, TypeInv, TypeOK
<1>2. need'[SeqCaller] = 0 /\ \A t \in Txn : need'[t] = need[t]
  BY <1>n, <1>0, <1>1 DEF Thread
<1>3. GroupInv'
  <2>1. GroupInv /\ 0 < nextLsn
    BY <1>0, <1>1 DEF UpInv
  <2> QED BY <1>0, <1>1, <1>2, <2>1 DEF GroupInv, Quiet
<1>4. SeqInv'
  <2>1. need[SeqCaller] # 0
    BY <1>0 DEF UpInv, GroupInv
  <2> QED BY <1>0, <1>1, <1>2, <2>1 DEF UpInv, SeqInv, Quiet
<1> QED BY <1>0, <1>1, <1>3, <1>4, ApartKeeps DEF Sound, UpInv

\* Nextval returns: the record of its number is behind no cut.
LEMMA NextvalReturnsKeeps ==
    ASSUME TypeInv, Sound, NextvalReturns
    PROVE  Sound' /\ seq > given
<1>n. SeqCaller \notin Txn /\ SeqCaller \in Thread
  BY DEF SeqCaller, Txn, Thread
<1>0. /\ UpInv /\ mode = "up" /\ mode' = "up" /\ ~ckpt
      /\ need[SeqCaller] # 0 /\ durable >= need[SeqCaller]
      /\ need' = [need EXCEPT ![SeqCaller] = 0] /\ given' = seq
      /\ UNCHANGED <<image, base, order, acked, seq, safe, durable, leader, tail, status, file, buf,
                     undo, undoing, lock, db, ckpt, nextTxn, nextLsn>>
  BY DEF NextvalReturns, Alive, Sound, logVars, txnVars
<1>1. /\ Quiet /\ Apart /\ safe \in Nat /\ nextLsn \in Nat \ {0} /\ need \in [Thread -> Nat]
      /\ durable \in Nat /\ leader \in Thread \cup {NoThread} /\ seq \in Nat /\ given \in Nat
      /\ seqPrior \in Nat
  BY <1>0, QuietLog DEF Quiet, Apart, TypeInv, TypeOK
<1>2. need'[SeqCaller] = 0 /\ \A t \in Thread \ {SeqCaller} : need'[t] = need[t]
  BY <1>n, <1>0, <1>1
<1>3. GroupInv'
  <2>1. GroupInv
    BY <1>0 DEF UpInv
  <2>2. \A t \in Txn : need'[t] = need[t]
    BY <1>n, <1>2 DEF Thread
  <2>3. ASSUME leader # NoThread PROVE need'[leader] # 0 /\ durable < need'[leader]
    <3>1. need[leader] # 0 /\ durable < need[leader] /\ leader \in Thread
      BY <1>1, <2>1, <2>3 DEF GroupInv
    <3>2. leader # SeqCaller
      BY <1>0, <1>1, <3>1
    <3> QED BY <1>2, <3>1, <3>2
  <2> QED BY <1>0, <1>1, <2>1, <2>2, <2>3 DEF GroupInv, Quiet
<1>4. PICK p \in 1..Len(Log) :
          /\ Log[p].lsn = need[SeqCaller] /\ Log[p].lsn > image.covered
          /\ Log[p].rec.kind = "seq" /\ Log[p].rec.val = seq
          /\ \A q \in (p + 1)..Len(Log) : Log[q].rec.kind # "seq"
  BY <1>0 DEF UpInv, SeqInv
<1>5. seq > given
  <2>1. given <= seqPrior /\ seqPrior < seq
    BY <1>0 DEF UpInv, SeqInv
  <2> QED BY <1>1, <2>1
<1>6. SeqInv'
  <2>1. p <= safe
    <3>1. Log[p].lsn <= durable
      BY <1>0, <1>1, <1>4
    <3> QED BY <1>0, <3>1 DEF UpInv, GroupInv
  <2>2. Log \in Seq(Frames) /\ Len(Log) \in Nat
    BY LogIs DEF TypeInv
  <2>3. \A k \in safe..Len(Log) : seq <= SeqAt(Log, image, k)
    <3> SUFFICES ASSUME NEW k \in safe..Len(Log) PROVE seq <= SeqAt(Log, image, k)
      OBVIOUS
    <3>1. k \in p..Len(Log)
      BY <1>1, <2>1, <2>2
    <3>2. SeqAt(Log, image, k) = Log[p].rec.val
      BY <1>4, <2>2, <3>1, SeqDecided
    <3> QED BY <1>1, <1>4, <3>2
  <2>4. seq <= seq
    BY <1>1
  <2> QED BY <1>0, <1>1, <1>2, <2>3, <2>4 DEF SeqInv, Quiet
<1> QED BY <1>0, <1>1, <1>3, <1>5, <1>6, ApartKeeps DEF Sound, UpInv

LEMMA CommitFinishKeeps ==
    ASSUME TypeInv, Sound, NEW t \in Txn, CommitFinish(t)
    PROVE  Sound'
<1>0. /\ UpInv /\ mode = "up" /\ mode' = "up" /\ ~ckpt /\ status[t] = "staged"
      /\ durable >= need[t] /\ status' = [status EXCEPT ![t] = "ended"]
      /\ need' = [need EXCEPT ![t] = 0] /\ db' = Overlay(WriteSet(t), db)
      /\ undo' = [undo EXCEPT ![t] = <<>>] /\ lock' = Unlocked(t)
      /\ acked' = acked \cup {i \in 1..Len(order) : order[i].txn = t}
      /\ UNCHANGED <<safe, image, base, order, given, durable, leader, tail, seq, seqPrior,
                     undoing, ckpt, nextTxn, nextLsn, file, buf>>
  BY DEF CommitFinish, Alive, Sound, logVars, seqVars
<1>1. Quiet
  BY <1>0, QuietLog DEF Quiet
<1>2. /\ status \in [Txn -> {"none", "running", "failed", "staged", "aborting", "ended"}]
      /\ undo \in [Txn -> Seq(Undo)] /\ safe \in Nat /\ nextTxn \in Nat
      /\ undoing \in [Txn -> Seq(Undo)] /\ Len(Log) \in Nat /\ need \in [Thread -> Nat]
      /\ durable \in Nat /\ leader \in Thread \cup {NoThread} /\ Log \in Seq(Frames)
      /\ acked \subseteq 1..Len(order)
  BY LogIs, WalAssumption DEF TypeInv, TypeOK
<1>n. t \in Thread /\ t # SeqCaller /\ SeqCaller \in Thread /\ \A u \in Txn : u \in Thread
  BY DEF SeqCaller, Txn, Thread
<1>3. \A u \in Txn : /\ status'[u] = IF u = t THEN "ended" ELSE status[u]
                     /\ undo'[u] = IF u = t THEN <<>> ELSE undo[u]
  BY <1>0, <1>2
<1>4. need'[t] = 0 /\ \A u \in Thread \ {t} : need'[u] = need[u]
  BY <1>0, <1>2, <1>n
<1>5. undoing[t] = <<>>
  BY <1>0 DEF UpInv, TxnInv
<1>6. \A u \in Txn : Active(u)' <=> u # t /\ Active(u)
  BY <1>3 DEF Active
<1>7. \A u \in Txn : u # t => Writes(u)' = Writes(u)
  BY <1>0, <1>3 DEF Writes
<1>8. Writes(t) = undo[t]
  BY <1>2, <1>5 DEF Writes
\* Only rows that t has locked change.
<1>9. \A x \in Row : lock[x] # t => db'[x] = db[x]
  <2> SUFFICES ASSUME NEW x \in Row, lock[x] # t PROVE db'[x] = db[x]
    OBVIOUS
  <2>1. x \notin DOMAIN WriteSet(t)
    <3> SUFFICES ASSUME x \in DOMAIN WriteSet(t) PROVE FALSE
      OBVIOUS
    <3>1. PICK i \in 1..Len(undo[t]) : undo[t][i].row = x
      BY NotWritten
    <3>2. lock[undo[t][i].row] = t
      BY <1>0, <1>8 DEF UpInv, TxnInv
    <3> QED BY <3>1, <3>2
  <2> QED BY <1>0, <2>1 DEF Overlay
<1>10. \A x \in Row : db'[x] = Current(t, x)
  <2> SUFFICES ASSUME NEW x \in Row PROVE db'[x] = Current(t, x)
    OBVIOUS
  <2>1. db'[x] = IF x \in DOMAIN WriteSet(t) THEN WriteSet(t)[x] ELSE db[x]
    BY <1>0 DEF Overlay
  <2> QED BY <2>1, NotWritten, WriteSetType
<1>11. Climbs' /\ OneEnd' /\ WriterInv'
  BY <1>0, <1>1, <1>3, QuietKeepsLog
<1>12. CutsInv' /\ SeqInv'
  <2>1. need'[SeqCaller] = need[SeqCaller]
    BY <1>4, <1>n
  <2> QED BY <1>0, <1>1, <1>2, <2>1, QuietKeepsCuts, QuietKeepsSeq
<1>13. MarkerInv'
  <2>1. MarkerInv
    BY <1>0 DEF UpInv
  <2>2. \A i \in 1..Len(Log) : ~IsAbort(Log[i], t)
    BY <1>0, <2>1 DEF MarkerInv
  <2> QED BY <1>1, <1>3, <2>1, <2>2 DEF MarkerInv, Quiet
<1>14. GroupInv'
  <2>0. GroupInv
    BY <1>0 DEF UpInv
  <2>1. \A u \in Txn : need'[u] # 0 <=> status'[u] = "staged"
    BY <1>3, <1>4, <1>n, <2>0 DEF GroupInv
  <2>2. \A u \in Txn : status'[u] = "staged" =>
              \E i \in 1..Len(Log) : IsCommit(Log[i], u) /\ Log[i].lsn = need'[u]
    BY <1>3, <1>4, <1>n, <2>0 DEF GroupInv
  <2>3. ASSUME leader # NoThread PROVE need'[leader] # 0 /\ durable < need'[leader]
    <3>1. need[leader] # 0 /\ durable < need[leader] /\ leader \in Thread
      BY <1>2, <2>0, <2>3 DEF GroupInv
    <3>2. leader # t
      BY <1>0, <1>2, <3>1
    <3> QED BY <1>4, <3>1, <3>2
  <2> QED BY <1>0, <1>1, <2>0, <2>1, <2>2, <2>3 DEF GroupInv, Quiet
<1>15. TxnInv'
  <2>0. TxnInv
    BY <1>0 DEF UpInv
  <2> SUFFICES ASSUME NEW u \in Txn
               PROVE  /\ status'[u] # "failed"
                      /\ status'[u] # "running" => undoing'[u] = <<>>
                      /\ ~Active(u)' => undo'[u] = <<>> /\ \A x \in Row : lock'[x] # u
                      /\ \A i \in 1..Len(Writes(u)') :
                            /\ lock'[Writes(u)'[i].row] = u
                            /\ ValueOf(SubSeq(Writes(u)', 1, i - 1), Writes(u)'[i].row,
                                       db'[Writes(u)'[i].row], Writes(u)'[i].old)
                            /\ \E p \in 1..Len(Log') : IsOp(Log'[p], u, Writes(u)'[i].row)
    BY DEF TxnInv
  <2>1. CASE u = t
    <3>1. \A x \in Row : lock'[x] # t
      BY <1>0, UnlockedIs
    <3>2. undo'[t] = <<>> /\ undoing'[t] = <<>>
      BY <1>0, <1>3, <1>5
    <3>3. Writes(t)' = <<>> \o <<>>
      BY <3>2 DEF Writes
    <3>4. Len(<<>> \o <<>>) = 0
      OBVIOUS
    <3>5. \A i \in 1..Len(Writes(u)') : FALSE
      BY <2>1, <3>3, <3>4
    <3> QED BY <1>3, <2>1, <3>1, <3>2, <3>5
  <2>2. CASE u # t
    <3>1. \A i \in 1..Len(Writes(u)) :
                /\ lock[Writes(u)[i].row] = u
                /\ ValueOf(SubSeq(Writes(u), 1, i - 1), Writes(u)[i].row,
                           db[Writes(u)[i].row], Writes(u)[i].old)
                /\ \E p \in 1..Len(Log) : IsOp(Log[p], u, Writes(u)[i].row)
      BY <2>0 DEF TxnInv
    <3>2. \A i \in 1..Len(Writes(u)) : Writes(u)[i].row \in Row
      <4>1. Writes(u) \in Seq(Undo)
        BY <1>2 DEF Writes
      <4>2. \A i \in 1..Len(Writes(u)) : Writes(u)[i] \in Undo
        BY <4>1
      <4> QED BY <4>2 DEF Undo
    <3>3. \A i \in 1..Len(Writes(u)) : /\ lock'[Writes(u)[i].row] = u
                                       /\ db'[Writes(u)[i].row] = db[Writes(u)[i].row]
      <4> SUFFICES ASSUME NEW i \in 1..Len(Writes(u)), NEW x \in Row, Writes(u)[i].row = x
                   PROVE  lock'[x] = u /\ db'[x] = db[x]
        BY <3>2
      <4>1. lock[x] = u
        BY <3>1
      <4>2. lock'[x] = lock[x]
        BY <1>0, <2>2, <4>1, UnlockedIs
      <4> QED BY <1>9, <2>2, <4>1, <4>2
    <3>4. ~Active(u) => undo[u] = <<>> /\ \A x \in Row : lock'[x] # u
      BY <1>0, <2>0, <2>2, UnlockedIs DEF TxnInv
    <3>5. /\ status'[u] # "failed" /\ (status'[u] # "running" => undoing[u] = <<>>)
      BY <1>3, <2>0, <2>2 DEF TxnInv
    <3>6. /\ Writes(u)' = Writes(u) /\ undo'[u] = undo[u] /\ Log' = Log /\ undoing' = undoing
          /\ (Active(u)' <=> Active(u))
      BY <1>0, <1>1, <1>3, <1>6, <1>7, <2>2 DEF Quiet
    <3> QED BY <3>1, <3>3, <3>4, <3>5, <3>6
  <2> QED BY <2>1, <2>2
<1>16. OpsInv'
  <2>0. OpsInv
    BY <1>0 DEF UpInv
  <2> SUFFICES ASSUME NEW u \in Txn, Active(u)', NEW p \in 1..Len(Log), NEW x \in Row,
                      IsOp(Log[p], u, x)
               PROVE  /\ Log[p].lsn > image.covered
                      /\ lock'[x] = u
                      /\ \A q \in (p + 1)..Len(Log), y \in Txn \ {u} : ~IsOp(Log[q], y, x)
                      /\ \A w \in MaybeValue :
                            ValueOf(Writes(u)', x, db'[x], w) => LastOp(u, x, w)'
    BY <1>1 DEF OpsInv, Quiet
  <2>1. u # t /\ Active(u)
    BY <1>6
  <2>2. /\ Log[p].lsn > image.covered
        /\ lock[x] = u
        /\ \A q \in (p + 1)..Len(Log), y \in Txn \ {u} : ~IsOp(Log[q], y, x)
        /\ \A w \in MaybeValue : ValueOf(Writes(u), x, db[x], w) => LastOp(u, x, w)
    BY <2>0, <2>1 DEF OpsInv
  <2>3. lock'[x] = u /\ db'[x] = db[x]
    BY <1>0, <1>9, <2>1, <2>2, UnlockedIs
  <2>4. \A w : LastOp(u, x, w)' <=> LastOp(u, x, w)
    BY <1>1 DEF LastOp, Quiet
  <2>5. Writes(u)' = Writes(u)
    BY <1>7, <2>1
  <2> QED BY <2>2, <2>3, <2>4, <2>5
<1>17. StagedInv'
  <2>0. StagedInv
    BY <1>0 DEF UpInv
  <2> SUFFICES ASSUME NEW x \in Row, NEW u \in Txn \cup {0}, lock'[x] = u
               PROVE  AppliedAt(base, order, Len(order), x) =
                         IF u \in Txn /\ status'[u] = "staged" THEN Current(u, x)' ELSE db'[x]
    BY <1>1 DEF StagedInv, Quiet
  <2>1. CASE lock[x] = t
    <3>1. u = 0 /\ u \notin Txn
      BY <1>0, <2>1, UnlockedIs DEF Txn
    <3>2. AppliedAt(base, order, Len(order), x) = Current(t, x)
      BY <1>0, <2>0, <2>1 DEF StagedInv
    <3> QED BY <1>10, <3>1, <3>2
  <2>2. CASE lock[x] # t
    <3>1. lock[x] = u /\ u # t
      BY <1>0, <2>2, UnlockedIs
    <3>2. AppliedAt(base, order, Len(order), x) =
              IF u \in Txn /\ status[u] = "staged" THEN Current(u, x) ELSE db[x]
      BY <2>0, <3>1 DEF StagedInv
    <3>3. (u \in Txn => undo'[u] = undo[u] /\ status'[u] = status[u]) /\ db'[x] = db[x]
      BY <1>3, <1>9, <2>2, <3>1
    <3>4. u \in Txn => Current(u, x)' = Current(u, x)
      <4> SUFFICES ASSUME u \in Txn PROVE Current(u, x)' = Current(u, x)
        OBVIOUS
      <4>1. undo'[u] = undo[u] /\ db'[x] = db[x]
        BY <3>3
      <4> QED BY <4>1 DEF Current
    <3> QED BY <3>2, <3>3, <3>4
  <2> QED BY <2>1, <2>2
<1>18. OrderInv'
  <2>0. OrderInv
    BY <1>0 DEF UpInv
  <2>1. \A i \in 1..Len(order) : order[i].txn \in Txn
    <3>1. \A i \in 1..Len(order) : order[i] \in Commit
      BY DEF TypeInv
    <3> QED BY <3>1 DEF Commit
  <2>2. \A i \in 1..Len(order) : status'[order[i].txn] \in {"staged", "ended"}
    BY <1>3, <2>0, <2>1 DEF OrderInv
  <2>3. \A p \in (safe + 1)..Len(Log) : ~IsCommit(Log[p], t)
    <3> SUFFICES ASSUME NEW p \in (safe + 1)..Len(Log), IsCommit(Log[p], t) PROVE FALSE
      OBVIOUS
    <3>1. PICK i \in 1..Len(Log) : IsCommit(Log[i], t) /\ Log[i].lsn = need[t]
      BY <1>0 DEF UpInv, GroupInv
    <3>2. Log[i].lsn <= durable
      BY <1>0, <1>2, <1>n, <3>1
    <3>3. i <= safe
      BY <1>0, <3>2 DEF UpInv, GroupInv
    <3>4. p \in 1..Len(Log)
      BY <1>2
    <3>5. i = p
      BY <3>1, <3>4 DEF Sound, OneEnd
    <3> QED BY <1>2, <3>3, <3>5
  <2>4. \A i \in acked' : \A p \in (safe + 1)..Len(Log) : ~IsCommit(Log[p], order[i].txn)
    BY <1>0, <2>0, <2>3 DEF OrderInv
  <2> QED BY <1>0, <1>1, <2>2, <2>4 DEF OrderInv, Quiet
<1>19. ImageInv'
  BY <1>0 DEF ImageInv
<1> QED BY <1>0, <1>11, <1>12, <1>13, <1>14, <1>15, <1>16, <1>17, <1>18, <1>19 DEF Sound, UpInv

-----------------------------------------------------------------------------
(* The checkpoint                                                          *)

LEMMA PublishFailsKeeps ==
    ASSUME TypeInv, Sound, PublishFails
    PROVE  Sound'
<1>0. /\ UpInv /\ mode = "up" /\ mode' = "up" /\ ~ckpt /\ nextTxn' = nextTxn + 1
      /\ UNCHANGED <<safe, image, base, order, acked, given, durable, leader, tail, need, seq,
                     status, undo, undoing, seqPrior, lock, db, ckpt, nextLsn, file, buf>>
  BY DEF PublishFails, Up, Sound, logVars, groupVars, seqVars, histVars
<1>1. Quiet /\ Apart /\ safe \in Nat
  BY <1>0, QuietLog DEF Quiet, Apart, TypeInv, TypeOK
<1>2. GroupInv'
  BY <1>0, <1>1 DEF UpInv, GroupInv, Quiet
<1>3. SeqInv'
  BY <1>0, <1>1, QuietKeepsSeq
<1> QED BY <1>0, <1>1, <1>2, <1>3, ApartKeeps DEF Sound, UpInv

LEMMA TruncateSkippedKeeps ==
    ASSUME TypeInv, Sound, TruncateSkipped
    PROVE  Sound'
<1>0. /\ UpInv /\ mode = "up" /\ mode' = "up" /\ ckpt' = FALSE
      /\ file' = file \o buf /\ buf' = <<>>
      /\ UNCHANGED <<safe, image, base, order, acked, given, durable, leader, tail, need, seq,
                     status, undo, undoing, seqPrior, lock, db, nextTxn, nextLsn>>
  BY DEF TruncateSkipped, Sound, groupVars, txnVars, seqVars, histVars
<1>1. Log' = Log /\ Len(file') = Len(Log) /\ Len(Log) \in Nat
  BY <1>0, QuietLog, LogIs DEF TypeInv
<1>2. Quiet /\ Apart /\ safe \in Nat
  BY <1>0, <1>1 DEF Quiet, Apart, TypeInv, TypeOK
<1>3. GroupInv'
  <2>1. GroupInv
    BY <1>0 DEF UpInv
  <2>2. \A i \in 1..Len(Log) : i <= Len(file')
    BY <1>1
  <2> QED BY <1>0, <1>1, <2>1, <2>2 DEF GroupInv
<1>4. SeqInv'
  BY <1>0, <1>2, QuietKeepsSeq
<1> QED BY <1>0, <1>2, <1>3, <1>4, ApartKeeps DEF Sound, UpInv

\* With no transaction active, the committed rows are what all commits made.
LEMMA AllApplied ==
    ASSUME TypeInv, UpInv, \A t \in Txn : ~Active(t)
    PROVE  \A r \in Row : db[r] = AppliedAt(base, order, Len(order), r)
<1> SUFFICES ASSUME NEW r \in Row PROVE db[r] = AppliedAt(base, order, Len(order), r)
  OBVIOUS
<1>1. PICK u \in Txn \cup {0} : lock[r] = u
  BY DEF TypeInv, TypeOK
<1>2. ~(u \in Txn /\ status[u] = "staged")
  BY DEF Active
<1> QED BY <1>1, <1>2 DEF UpInv, StagedInv

LEMMA PublishKeeps ==
    ASSUME TypeInv, Sound, Publish
    PROVE  Sound'
<1>0. /\ UpInv /\ mode = "up" /\ mode' = "up" /\ ~ckpt /\ nextTxn' = nextTxn + 1
      /\ Live = {} /\ need[SeqCaller] = 0 /\ ckpt' = TRUE
      /\ image' = [rows |-> db, seq |-> seq, txn |-> nextTxn, covered |-> nextLsn - 1]
      /\ UNCHANGED <<safe, base, order, acked, given, durable, leader, tail, need, seq,
                     status, undo, undoing, seqPrior, lock, db, nextLsn, file, buf>>
  BY DEF Publish, Up, Sound, logVars, groupVars, seqVars, histVars
<1>1. /\ Log' = Log /\ Log \in Seq(Frames) /\ Len(Log) \in Nat /\ safe \in Nat
      /\ nextLsn \in Nat \ {0} /\ nextTxn \in Nat /\ order \in Seq(Commit)
  BY <1>0, QuietLog, LogIs, WalAssumption DEF TypeInv, TypeOK
<1>2. /\ image'.rows = db /\ image'.seq = seq /\ image'.txn = nextTxn
      /\ image'.covered = nextLsn - 1 /\ nextLsn - 1 \in Nat
  BY <1>0, <1>1
<1>3. \A t \in Txn : ~Active(t) /\ ~Active(t)'
  BY <1>0 DEF Live, Active
<1>4. \A i \in 1..Len(Log) : /\ Log[i].lsn \in Nat /\ Log[i].rec.txn \in Nat
                             /\ Log[i].lsn <= nextLsn - 1 /\ Log[i].rec.txn < nextTxn
  <2>1. \A i \in 1..Len(Log) : Log[i].lsn \in Nat /\ Log[i].rec.txn \in Nat
    BY <1>1, FrameParts
  <2>2. \A i \in 1..Len(Log) : Log[i].lsn < nextLsn /\ Log[i].rec.txn < nextTxn
    BY <1>0 DEF UpInv, WriterInv
  <2> QED BY <1>1, <2>1, <2>2
<1>5. Climbs' /\ OneEnd'
  <2>1. Climbs /\ OneEnd
    BY DEF Sound
  <2>2. \A i \in 1..Len(Log) : Log[i].rec.txn <= nextTxn
    BY <1>1, <1>4
  <2> QED BY <1>1, <1>2, <2>1, <2>2 DEF Climbs, OneEnd
<1>6. WriterInv'
  <2>1. WriterInv
    BY <1>0 DEF UpInv
  <2>2. /\ \A i \in 1..Len(Log) : Log[i].rec.txn < nextTxn'
        /\ nextTxn < nextTxn' /\ nextLsn - 1 < nextLsn
    BY <1>0, <1>1, <1>4
  <2>3. \A t \in Txn : status[t] # "none" => t < nextTxn'
    BY <1>0, <1>1, <2>1 DEF WriterInv, Txn
  <2> QED BY <1>0, <1>1, <1>2, <2>1, <2>2, <2>3 DEF WriterInv
<1>7. MarkerInv' /\ OrderInv'
  BY <1>0, <1>1 DEF UpInv, MarkerInv, OrderInv
<1>8. GroupInv'
  BY <1>0, <1>1 DEF UpInv, GroupInv
<1>9. TxnInv'
  <2>1. \A u \in Txn : Writes(u)' = Writes(u)
    BY <1>0 DEF Writes
  <2> QED BY <1>0, <1>1, <1>3, <2>1 DEF UpInv, TxnInv
<1>10. OpsInv'
  BY <1>3 DEF OpsInv
<1>11. StagedInv'
  BY <1>0, StagedSame DEF UpInv
<1>12. ImageInv'
  BY <1>0, <1>2, <1>3 DEF ImageInv
<1>13. CutsInv'
  <2> SUFFICES ASSUME NEW k \in safe..Len(Log) PROVE Replays(Log, image', base, order, k)
    BY <1>0, <1>1 DEF CutsInv
  <2>1. \A r \in Row : image'.rows[r] = AppliedAt(base, order, Len(order), r)
    BY <1>0, <1>2, <1>3, AllApplied
  <2>2. k \in 0..Len(Log) /\ image'.covered \in Nat
        /\ \A i \in 1..Len(Log) : Log[i].lsn <= image'.covered
    BY <1>1, <1>2, <1>4
  <2> QED BY <1>1, <2>1, <2>2, CutCovered
<1>14. SeqInv'
  <2>1. \A k \in safe..Len(Log) : SeqAt(Log, image', k) = seq
    <3> SUFFICES ASSUME NEW k \in safe..Len(Log) PROVE SeqAt(Log, image', k) = seq
      OBVIOUS
    <3>1. k \in 0..Len(Log) /\ image'.covered \in Nat
          /\ \A i \in 1..Len(Log) : Log[i].lsn <= image'.covered
      BY <1>1, <1>2, <1>4
    <3> QED BY <1>1, <1>2, <3>1, CutCovered
  <2>2. given <= seq
    BY <1>0 DEF UpInv, SeqInv
  <2> QED BY <1>0, <1>1, <1>2, <2>1, <2>2 DEF SeqInv
<1> QED BY <1>0, <1>5, <1>6, <1>7, <1>8, <1>9, <1>10, <1>11, <1>12, <1>13, <1>14
        DEF Sound, UpInv

LEMMA TruncateKeeps ==
    ASSUME TypeInv, Sound, Truncate
    PROVE  Sound'
<1>0. /\ UpInv /\ mode = "up" /\ mode' = "up" /\ ckpt /\ ckpt' = FALSE
      /\ file' = <<>> /\ buf' = <<>> /\ safe' = 0
      /\ UNCHANGED <<image, base, order, acked, given, durable, leader, tail, need, seq,
                     status, undo, undoing, seqPrior, lock, db, nextTxn, nextLsn>>
  BY DEF Truncate, Sound, groupVars, txnVars, seqVars, histVars
<1>1. Log' = <<>> /\ Len(Log') = 0 /\ Log' \in Seq(Frames)
  <2>1. Log' = <<>> \o <<>>
    BY <1>0 DEF Log
  <2> QED BY <2>1
<1>2. \A i \in 1..Len(Log') : FALSE
  BY <1>1
<1>3. /\ image.rows = db /\ image.covered = nextLsn - 1 /\ image.seq = seq
      /\ \A t \in Txn : ~Active(t)
  BY <1>0 DEF UpInv, ImageInv, SeqInv
<1>4. \A t \in Txn : ~Active(t)'
  BY <1>0, <1>3 DEF Active
<1>5. /\ nextLsn \in Nat \ {0} /\ order \in Seq(Commit) /\ image.covered \in Nat
      /\ undo \in [Txn -> Seq(Undo)]
  BY DEF TypeInv, TypeOK
<1>6. Climbs' /\ OneEnd' /\ MarkerInv'
  BY <1>2 DEF Climbs, OneEnd, MarkerInv
<1>7. WriterInv'
  BY <1>0, <1>2 DEF UpInv, WriterInv
<1>8. GroupInv'
  <2>1. \A t \in Txn : status[t] # "staged"
    BY <1>3 DEF Active
  <2> QED BY <1>0, <1>2, <2>1 DEF UpInv, GroupInv
<1>9. TxnInv'
  <2>1. TxnInv
    BY <1>0 DEF UpInv
  <2>2. \A u \in Txn : undo[u] = <<>> /\ undoing[u] = <<>>
    BY <1>3, <2>1 DEF TxnInv, Active
  <2>3. \A u \in Txn : Writes(u)' = <<>> \o <<>>
    BY <1>0, <2>2 DEF Writes
  <2>4. Len(<<>> \o <<>>) = 0
    OBVIOUS
  <2>5. \A u \in Txn : \A i \in 1..Len(Writes(u)') : FALSE
    BY <2>3, <2>4
  <2> QED BY <1>0, <1>3, <2>1, <2>2, <2>5 DEF TxnInv
<1>10. OpsInv'
  BY <1>4 DEF OpsInv
<1>11. StagedInv'
  BY <1>0, StagedSame DEF UpInv
<1>12. OrderInv'
  <2>1. OrderInv
    BY <1>0 DEF UpInv
  <2>2. \A p \in (safe' + 1)..Len(Log') : FALSE
    BY <1>0, <1>1
  <2> QED BY <1>0, <2>1, <2>2 DEF OrderInv
<1>13. ImageInv'
  BY <1>0 DEF ImageInv
<1>14. CutsInv' /\ SeqInv'
  <2>1. \A r \in Row : image.rows[r] = AppliedAt(base, order, Len(order), r)
    BY <1>0, <1>3, AllApplied
  <2>2. \A k \in safe'..Len(Log') : k \in 0..Len(Log')
    BY <1>0, <1>1
  <2>3. \A k \in 0..Len(Log') : /\ Replays(Log', image, base, order, k)
                                /\ SeqAt(Log', image, k) = seq
    <3> SUFFICES ASSUME NEW k \in 0..Len(Log')
                 PROVE  Replays(Log', image, base, order, k) /\ SeqAt(Log', image, k) = seq
      OBVIOUS
    <3> QED BY <1>1, <1>2, <1>3, <1>5, <2>1, CutCovered
  <2>4. CutsInv'
    BY <1>0, <2>2, <2>3 DEF CutsInv
  <2>5. given <= seq /\ need[SeqCaller] = 0
    BY <1>0 DEF UpInv, SeqInv
  <2>6. SeqInv'
    BY <1>0, <2>2, <2>3, <2>5 DEF SeqInv
  <2> QED BY <2>4, <2>6
<1> QED BY <1>0, <1>6, <1>7, <1>8, <1>9, <1>10, <1>11, <1>12, <1>13, <1>14 DEF Sound, UpInv

-----------------------------------------------------------------------------
(* Crashes and recovery                                                    *)

\* A cut of the log behind its fsynced part, and nothing in memory.
LEMMA GoneKeeps ==
    ASSUME TypeInv, Sound, mode = "up", Gone, UNCHANGED <<image, base, order, acked, given>>,
           NEW k \in safe..Len(Log), CutAt(file', Log, k)
    PROVE  Sound'
<1>0. UpInv /\ mode' = "down" /\ buf' = <<>>
  BY DEF Sound, Gone
<1>1. /\ Log \in Seq(Frames) /\ Len(Log) \in Nat /\ safe \in Nat /\ k \in 0..Len(Log)
      /\ k \in Nat
  BY LogIs DEF TypeInv
<1>2. /\ file' \in Seq(Frames) /\ Len(file') \in {k, k + 1}
      /\ \A i \in 1..k : file'[i] = Log[i]
      /\ Len(file') = k + 1 => k < Len(Log) /\ file'[k + 1] = Torn(Log[k + 1])
  BY <1>1, CutIs
<1>3. Log' = file'
  <2>1. Log' = file' \o <<>>
    BY <1>0 DEF Log
  <2> QED BY <1>2, <2>1
<1>4. Len(file') = k + 1 => /\ k + 1 \in 1..Len(Log)
                            /\ file'[k + 1].lsn = Log[k + 1].lsn
                            /\ file'[k + 1].rec = Log[k + 1].rec /\ ~file'[k + 1].whole
  <2> SUFFICES ASSUME Len(file') = k + 1
               PROVE  /\ k + 1 \in 1..Len(Log)
                      /\ file'[k + 1].lsn = Log[k + 1].lsn
                      /\ file'[k + 1].rec = Log[k + 1].rec /\ ~file'[k + 1].whole
    OBVIOUS
  <2>1. k + 1 \in 1..Len(Log) /\ file'[k + 1] = Torn(Log[k + 1])
    BY <1>1, <1>2
  <2>2. Log[k + 1] \in Frames
    BY <1>1, <2>1
  <2> QED BY <2>1, <2>2 DEF Torn, Frames
<1>5. \A i \in 1..Len(file') : /\ i \in 1..Len(Log)
                               /\ file'[i].lsn = Log[i].lsn /\ file'[i].rec = Log[i].rec
  <2> SUFFICES ASSUME NEW i \in 1..Len(file')
               PROVE  /\ i \in 1..Len(Log)
                      /\ file'[i].lsn = Log[i].lsn /\ file'[i].rec = Log[i].rec
    OBVIOUS
  <2>1. i \in 1..k \/ (Len(file') = k + 1 /\ i = k + 1)
    BY <1>1, <1>2
  <2>2. CASE i \in 1..k
    BY <1>1, <1>2, <2>2
  <2> QED BY <1>4, <2>1, <2>2
<1>6. Climbs'
  <2>1. Climbs
    BY DEF Sound
  <2> QED BY <1>3, <1>5, <2>1 DEF Climbs
<1>7. OneEnd'
  <2>1. OneEnd
    BY DEF Sound
  <2>2. \A i \in 1..Len(file'), t \in Txn : /\ IsCommit(file'[i], t) <=> IsCommit(Log[i], t)
                                            /\ IsAbort(file'[i], t) <=> IsAbort(Log[i], t)
    BY <1>5 DEF IsCommit, IsAbort
  <2> QED BY <1>3, <1>5, <2>1, <2>2 DEF OneEnd
<1>8. DownInv'
  <2>1. PICK n \in 0..Len(order) :
            /\ CutKeeps(Log, image, order, k, n)
            /\ \A r \in Row : RowAt(Log, image, k, r) = AppliedAt(base, order, n, r)
    BY <1>0 DEF UpInv, CutsInv, Replays
  <2>2. acked \subseteq 1..n
    <3> SUFFICES ASSUME NEW i \in acked PROVE i \in 1..n
      OBVIOUS
    <3>1. i \in 1..Len(order) /\ Len(order) \in Nat
      BY DEF TypeInv, TypeOK
    <3>2. \A p \in (safe + 1)..Len(Log) : ~IsCommit(Log[p], order[i].txn)
      BY <1>0 DEF UpInv, OrderInv
    <3>3. \A p \in (k + 1)..Len(Log) : p \in (safe + 1)..Len(Log)
      BY <1>1
    <3>4. ~MarkedAfter(Log, image, k, order[i].txn)
      BY <3>2, <3>3 DEF MarkedAfter
    <3>5. i <= n
      BY <2>1, <3>1, <3>4 DEF CutKeeps
    <3> QED BY <3>1, <3>5
  <2>3. \A r \in Row : RowAt(file', image, k, r) = AppliedAt(base, order, n, r)
    <3> SUFFICES ASSUME NEW r \in Row
                 PROVE  RowAt(file', image, k, r) = AppliedAt(base, order, n, r)
      OBVIOUS
    <3>1. RowAt(file', image, k, r) = RowAt(Log, image, k, r)
      BY <1>1, <1>2, SameRow
    <3> QED BY <2>1, <3>1
  <2>4. given <= SeqAt(file', image, k)
    <3>1. SeqAt(file', image, k) = SeqAt(Log, image, k)
      BY <1>1, <1>2, SameSeq
    <3>2. given <= SeqAt(Log, image, k)
      BY <1>0 DEF UpInv, SeqInv
    <3> QED BY <3>1, <3>2
  <2>5. GoodCut(k)'
    <3>1. \A i \in 1..k : file'[i].whole
      <4>1. \A i \in 1..k : i \in 1..Len(Log)
        BY <1>1
      <4> QED BY <1>0, <1>2, <4>1 DEF UpInv, WriterInv
    <3> QED BY <1>2, <1>4, <3>1 DEF GoodCut
  <2>6. k \in 0..Len(file')
    BY <1>1, <1>2
  <2>7. /\ GoodCut(k)'
        /\ acked' \subseteq 1..n
        /\ \A r \in Row : RowAt(file', image', k, r) = AppliedAt(base', order', n, r)
        /\ given' <= SeqAt(file', image', k)
        /\ n \in 0..Len(order')
    BY <2>2, <2>3, <2>4, <2>5
  <2> QED BY <2>6, <2>7 DEF DownInv
<1> QED BY <1>0, <1>6, <1>7, <1>8 DEF Sound

LEMMA CrashKeeps ==
    ASSUME TypeInv, Sound, Crash
    PROVE  Sound'
<1>1. PICK k \in safe..Len(Log) : CutAt(file', Log, k)
  BY CrashCuts
<1>2. mode = "up" /\ Gone /\ UNCHANGED <<image, base, order, acked, given>>
  BY DEF Crash, Sound, histVars
<1> QED BY <1>1, <1>2, GoneKeeps

\* The leader's write or fsync failed: a committer's ends the process.
LEMMA LeaderFailsKeeps ==
    ASSUME TypeInv, Sound, LeaderFlushFails \/ LeaderSyncFails, survived' = 0
    PROVE  Sound'
<1>0. /\ mode = "up" /\ LeaderFailed /\ UNCHANGED <<image, base, order, acked, given>>
  BY DEF LeaderFlushFails, LeaderSyncFails, Alive, Sound, histVars
<1>1. /\ file \in Seq(Frames) /\ buf \in Seq(Frames) /\ Log = file \o buf
      /\ safe \in Nat /\ Len(file) \in Nat /\ safe <= Len(file) /\ Len(file) <= Len(Log)
      /\ survived \in Nat /\ Len(Log) \in Nat
  BY LogIs DEF TypeInv, TypeOK, Log
<1>2. CASE LeaderFlushFails
  <2>1. leader # SeqCaller
    <3> SUFFICES ASSUME leader = SeqCaller PROVE FALSE
      OBVIOUS
    <3>1. survived' = survived + 1
      BY <1>2 DEF LeaderFlushFails, Survived
    <3> QED BY <1>1, <3>1
  <2>2. Gone /\ file' \in PartWritten(file, buf)
    BY <1>0, <1>2, <2>1 DEF LeaderFailed, LeaderFlushFails
  <2>3. PICK k \in Len(file)..Len(Log) : CutAt(file', Log, k)
    BY <1>1, <2>2, PartWrittenCuts
  <2>4. k \in safe..Len(Log)
    BY <1>1
  <2> QED BY <1>0, <2>2, <2>3, <2>4, GoneKeeps
<1>3. CASE LeaderSyncFails /\ leader = SeqCaller
  BY <1>3, NextvalSyncFailsKeeps
<1>4. CASE LeaderSyncFails /\ leader # SeqCaller
  <2>1. Gone /\ file' = file
    BY <1>0, <1>4 DEF LeaderFailed, LeaderSyncFails
  <2>2. Len(file) \in safe..Len(Log)
    BY <1>1
  <2>3. SubSeq(Log, 1, Len(file)) = file
    BY <1>1
  <2>4. CutAt(file', Log, Len(file))
    BY <2>1, <2>3 DEF CutAt
  <2> QED BY <1>0, <2>1, <2>2, <2>4, GoneKeeps
<1> QED BY <1>2, <1>3, <1>4

\* What recovery accepts is what lies behind the image's watermark, up to the
\* torn tail; it rebuilds the rows and the sequence as of that cut.
LEMMA RecoveryReads ==
    ASSUME TypeInv, Sound, mode = "down"
    PROVE  /\ GoodLen \in 0..Len(file) /\ Log = file
           /\ Len(file) <= GoodLen + 1
           /\ Replayed = {i \in 1..GoodLen : file[i].lsn > image.covered}
           /\ \A r \in Row : RecoveredRows[r] = RowAt(file, image, GoodLen, r)
           /\ RecoveredSeq = SeqAt(file, image, GoodLen)
           /\ given <= SeqAt(file, image, GoodLen)
           /\ \E n \in 0..Len(order) :
                 /\ acked \subseteq 1..n
                 /\ \A r \in Row : RowAt(file, image, GoodLen, r) = AppliedAt(base, order, n, r)
<1> DEFINE G == GoodLen
<1>0. file \in Seq(Frames) /\ Len(file) \in Nat /\ buf = <<>>
  BY DEF TypeInv, TypeOK, Blank
<1>1. Log = file
  <2>1. Log = file \o <<>>
    BY <1>0 DEF Log
  <2> QED BY <1>0, <2>1
<1>2. PICK g \in 0..Len(file), n \in 0..Len(order) :
          /\ GoodCut(g)
          /\ acked \subseteq 1..n
          /\ \A r \in Row : RowAt(file, image, g, r) = AppliedAt(base, order, n, r)
          /\ given <= SeqAt(file, image, g)
  BY DEF Sound, DownInv
<1>3. GoodLen \in 0..Len(file) /\ GoodLen = g
  <2>1. /\ GoodLen \in 0..Len(file)
        /\ \A i \in 1..GoodLen : file[i].whole
        /\ \A k \in 0..Len(file) : (\A i \in 1..k : file[i].whole) => k <= GoodLen
    BY <1>0, GoodLenIs
  <2>2. g <= GoodLen
    BY <1>2, <2>1 DEF GoodCut
  <2>3. ~(g + 1 <= GoodLen)
    <3> SUFFICES ASSUME g + 1 <= GoodLen PROVE FALSE
      OBVIOUS
    <3>1. g + 1 = Len(file) /\ ~file[g + 1].whole
      BY <1>0, <1>2, <2>1 DEF GoodCut
    <3>2. g + 1 \in 1..GoodLen
      BY <2>1
    <3> QED BY <2>1, <3>1, <3>2
  <2> QED BY <1>0, <2>1, <2>2, <2>3
<1>4. Len(file) <= GoodLen + 1
  BY <1>0, <1>2, <1>3 DEF GoodCut
<1>5. Climbs /\ OneEnd
  BY DEF Sound
<1>6. Replayed = {i \in 1..G : file[i].lsn > image.covered}
  <2>1. \A i \in 1..G : \A j \in 1..(i - 1) : file[j].lsn < file[i].lsn
    <3> SUFFICES ASSUME NEW i \in 1..G, NEW j \in 1..(i - 1) PROVE file[j].lsn < file[i].lsn
      OBVIOUS
    <3>1. i \in 1..Len(file) /\ j \in 1..Len(file) /\ j < i
      BY <1>0, <1>3
    <3> QED BY <1>1, <1>5, <3>1 DEF Climbs
  <2> QED BY <2>1 DEF Replayed, Accepted
<1>7. \A i \in 1..G : i \in 1..Len(file) /\ RecAt(i) = file[i].rec /\ file[i].rec \in Record
  <2>1. \A i \in 1..G : i \in 1..Len(file)
    BY <1>0, <1>3
  <2> QED BY <1>0, <2>1, FrameParts DEF RecAt
<1>8. CommittedIn = {t \in Txn : CommitIn(file, image, G, t)}
  <2>1. ASSUME NEW t \in Txn PROVE t \in CommittedIn <=> CommitIn(file, image, G, t)
    <3>1. \A i \in 1..G : /\ RecAt(i) = MarkRec("commit", t) <=> IsCommit(file[i], t)
                          /\ RecAt(i) = MarkRec("abort", t) <=> IsAbort(file[i], t)
      BY <1>7, RecordKinds DEF IsCommit, IsAbort
    <3>2. ASSUME CommitIn(file, image, G, t) PROVE t \in CommittedIn
      <4>1. PICK p \in 1..G : file[p].lsn > image.covered /\ IsCommit(file[p], t)
        BY <3>2 DEF CommitIn
      <4>2. p \in Replayed /\ RecAt(p) = MarkRec("commit", t)
        BY <1>6, <3>1, <4>1
      <4>3. \A i \in 1..G : ~IsAbort(file[i], t)
        BY <1>1, <1>5, <1>7, <4>1 DEF OneEnd
      <4>4. \A i \in Replayed : RecAt(i) # MarkRec("abort", t)
        BY <1>6, <3>1, <4>3
      <4> QED BY <4>2, <4>4 DEF CommittedIn
    <3>3. ASSUME t \in CommittedIn PROVE CommitIn(file, image, G, t)
      <4>1. PICK p \in Replayed : RecAt(p) = MarkRec("commit", t)
        BY <3>3 DEF CommittedIn
      <4> QED BY <1>6, <3>1, <4>1 DEF CommitIn
    <3> QED BY <3>2, <3>3
  <2>2. CommittedIn \subseteq Txn
    BY DEF CommittedIn
  <2> QED BY <2>1, <2>2
<1>9. ASSUME NEW r \in Row PROVE RecoveredRows[r] = RowAt(file, image, G, r)
  <2> DEFINE ops == {i \in Replayed : /\ RecAt(i).kind = "op" /\ RecAt(i).row = r
                                      /\ RecAt(i).txn \in CommittedIn}
  <2>1. RecoveredRows[r] = IF ops = {} THEN image.rows[r] ELSE RecAt(Last(ops)).val
    BY DEF RecoveredRows
  <2>2. ops = OpsIn(file, image, G, r)
    <3>1. ASSUME NEW i \in 1..G, file[i].rec.kind = "op"
          PROVE  file[i].rec.txn \in CommittedIn <=> CommitIn(file, image, G, file[i].rec.txn)
      <4>1. file[i].rec.txn \in Txn
        BY <1>7, <3>1, RecordKinds
      <4> QED BY <1>8, <4>1
    <3>2. \A i \in 1..G : RecAt(i) = file[i].rec
      BY <1>7
    <3> HIDE DEF G
    <3> QED BY <1>6, <3>1, <3>2 DEF OpsIn
  <2> QED BY <2>1, <2>2 DEF RowAt, RecAt
<1>10. RecoveredSeq = SeqAt(file, image, G)
  <2>1. {i \in Replayed : RecAt(i).kind = "seq"} = SeqsIn(file, image, G)
    BY <1>6 DEF SeqsIn, RecAt
  <2> QED BY <2>1 DEF RecoveredSeq, SeqAt, RecAt
<1> QED BY <1>1, <1>2, <1>3, <1>4, <1>6, <1>9, <1>10

\* A torn frame that more follows is never left.
LEMMA NothingRefused ==
    ASSUME TypeInv, Sound, RefuseHole
    PROVE  FALSE
<1>1. mode = "down" /\ GoodLen + 1 < Len(file) /\ Len(file) \in Nat
  BY DEF RefuseHole, TypeInv, TypeOK
<1>2. GoodLen \in 0..Len(file) /\ Len(file) <= GoodLen + 1
  BY <1>1, RecoveryReads
<1> QED BY <1>1, <1>2

LEMMA RecoverExact ==
    ASSUME TypeInv, Sound, Recover
    PROVE  mode' = "up" /\ ExactRecovery
<1>1. mode = "down" /\ mode' = "up" /\ db' = RecoveredRows
  BY DEF Recover
<1>2. PICK n \in 0..Len(order) :
          /\ acked \subseteq 1..n
          /\ \A r \in Row : RowAt(file, image, GoodLen, r) = AppliedAt(base, order, n, r)
  BY <1>1, RecoveryReads
<1>3. \A r \in Row : RecoveredRows[r] = AppliedAt(base, order, n, r)
  BY <1>1, <1>2, RecoveryReads
<1>4. RecoveredRows = [r \in Row |-> RecoveredRows[r]]
  BY DEF RecoveredRows
<1>5. Applied(n) = [r \in Row |-> AppliedAt(base, order, n, r)]
  BY DEF Applied, AppliedAt, SetsIn
<1>6. RecoveredRows = Applied(n)
  BY <1>3, <1>4, <1>5
<1> QED BY <1>1, <1>2, <1>6 DEF ExactRecovery

LEMMA RecoverKeeps ==
    ASSUME TypeInv, Sound, Recover
    PROVE  Sound'
<1> DEFINE G == GoodLen
           L == SubSeq(file, 1, G)
<1>0. /\ mode = "down" /\ mode' = "up" /\ db' = RecoveredRows /\ base' = RecoveredRows
      /\ seq' = RecoveredSeq /\ nextTxn' = RecoveredTxn + 1 /\ nextLsn' = RecoveredLsn + 1
      /\ file' = SubSeq(file, 1, G) /\ safe' = G /\ order' = <<>> /\ acked' = {}
      /\ UNCHANGED <<buf, image, durable, leader, tail, need, status, undo, undoing, lock,
                     ckpt, given>>
  BY DEF Recover, groupVars
<1>1. /\ Blank /\ file \in Seq(Frames) /\ Len(file) \in Nat
      /\ image.covered \in Nat /\ image.txn \in Nat
  BY <1>0 DEF TypeInv, TypeOK
<1>2. /\ G \in 0..Len(file) /\ Log = file
      /\ Replayed = {i \in 1..G : file[i].lsn > image.covered}
      /\ \A r \in Row : RecoveredRows[r] = RowAt(file, image, G, r)
      /\ RecoveredSeq = SeqAt(file, image, G)
      /\ given <= SeqAt(file, image, G)
  BY <1>0, RecoveryReads
<1>3. L \in Seq(Frames) /\ Len(L) = G /\ G \in Nat /\ \A i \in 1..G : L[i] = file[i]
  <2> HIDE DEF G
  <2> QED BY <1>1, <1>2
<1>4. Log' = L
  <2>1. Log' = L \o <<>>
    BY <1>0, <1>1 DEF Log, Blank
  <2> HIDE DEF L
  <2> QED BY <1>3, <2>1
<1>5. \A i \in 1..G : i \in 1..Len(Log)
  <2> HIDE DEF G
  <2> QED BY <1>1, <1>2
<1>6. /\ \A i \in 1..G : file[i].whole
      /\ \A i \in 1..G : file[i].lsn <= RecoveredLsn
      /\ \A i \in 1..G : file[i].lsn \in Nat /\ file[i].rec.txn \in Nat /\ file[i].lsn > 0
      /\ RecoveredLsn \in Nat /\ image.covered <= RecoveredLsn
  <2>1. \A i \in 1..G : file[i].lsn \in Nat /\ file[i].rec.txn \in Nat
    BY <1>1, <1>2, <1>5, FrameParts
  <2>2. \A i \in 1..G : file[i].lsn > 0
    BY <1>2, <1>5 DEF Sound, Climbs
  <2> QED BY <1>1, <2>1, <2>2, GoodLenIs, RecoveredLsnIs
<1> HIDE DEF L, G
<1>7. Climbs' /\ OneEnd'
  <2>1. Climbs /\ OneEnd
    BY DEF Sound
  <2>2. Climbs'
    BY <1>0, <1>2, <1>3, <1>4, <1>5, <2>1 DEF Climbs
  <2>3. OneEnd'
    BY <1>0, <1>2, <1>3, <1>4, <1>5, <2>1 DEF OneEnd
  <2> QED BY <2>2, <2>3
<1>8. \A t \in Txn : status'[t] = "none"
  BY <1>0, <1>1 DEF Blank
<1>9. WriterInv'
  <2>1. RecoveredTxn \in Nat /\ image.txn <= RecoveredTxn
        /\ \A i \in Replayed : RecAt(i).txn <= RecoveredTxn
    BY RecoveredValues, WalAssumption
  <2>2. ASSUME NEW i \in 1..G PROVE file[i].rec.txn <= RecoveredTxn
    <3>1. CASE file[i].lsn > image.covered
      BY <1>2, <2>1, <3>1 DEF RecAt
    <3>2. CASE ~(file[i].lsn > image.covered)
      <4>1. file[i].rec.txn <= image.txn
        BY <1>1, <1>2, <1>5, <1>6, <3>2 DEF Sound, Climbs
      <4> QED BY <1>1, <1>6, <2>1, <4>1
    <3> QED BY <3>1, <3>2
  <2>3. /\ \A i \in 1..G : file[i].lsn < nextLsn' /\ file[i].rec.txn < nextTxn'
        /\ image.covered < nextLsn' /\ image.txn < nextTxn'
    BY <1>0, <1>1, <1>6, <2>1, <2>2
  <2> QED BY <1>0, <1>3, <1>4, <1>6, <1>8, <2>3 DEF WriterInv
<1>10. MarkerInv'
  BY <1>8 DEF MarkerInv
<1>11. GroupInv'
  <2>1. /\ durable' = 0 /\ tail' = 0 /\ leader' = NoThread /\ nextLsn' > 0
        /\ \A t \in Txn : need'[t] = 0
    BY <1>0, <1>1, <1>6 DEF Blank, Thread
  <2>2. \A i \in 1..G : ~(file[i].lsn <= 0)
    BY <1>6
  <2> QED BY <1>3, <1>4, <1>8, <2>1, <2>2 DEF GroupInv
<1>12. \A t \in Txn : ~Active(t)'
  BY <1>8 DEF Active
<1>13. TxnInv'
  <2>1. \A t \in Txn : undo'[t] = <<>> /\ undoing'[t] = <<>>
    BY <1>0, <1>1 DEF Blank
  <2>2. \A t \in Txn : Writes(t)' = <<>> \o <<>>
    BY <2>1 DEF Writes
  <2>3. Len(<<>> \o <<>>) = 0
    OBVIOUS
  <2>4. \A t \in Txn : \A i \in 1..Len(Writes(t)') : FALSE
    BY <2>2, <2>3
  <2>5. \A t \in Txn, r \in Row : lock'[r] # t
    BY <1>0, <1>1, WalAssumption DEF Blank, Txn
  <2> QED BY <1>8, <2>1, <2>4, <2>5 DEF TxnInv
<1>14. OpsInv'
  BY <1>12 DEF OpsInv
<1>15. \A r \in Row : AppliedAt(base', <<>>, 0, r) = RecoveredRows[r]
  <2>1. \A r \in Row : SetsIn(<<>>, 0, r) = {}
    BY DEF SetsIn
  <2> QED BY <1>0, <2>1 DEF AppliedAt
<1>16. StagedInv'
  <2>1. \A u \in Txn : ~(status'[u] = "staged")
    BY <1>8
  <2>2. order' = <<>> /\ Len(<<>>) = 0 /\ db' = RecoveredRows
    BY <1>0
  <2>3. \A r \in Row : AppliedAt(base', order', Len(order'), r) = db'[r]
    BY <1>15, <2>2
  <2> QED BY <2>1, <2>3 DEF StagedInv
<1>17. OrderInv'
  <2>1. \A i \in 1..Len(order') : FALSE
    BY <1>0
  <2> QED BY <1>0, <2>1 DEF OrderInv
<1>18. ImageInv'
  BY <1>0, <1>1 DEF ImageInv, Blank
<1>19. \A k \in safe'..Len(Log') : k = G
  BY <1>0, <1>3, <1>4
<1>20. CutsInv'
  <2>1. ASSUME NEW r \in Row PROVE RowAt(L, image, G, r) = AppliedAt(base', <<>>, 0, r)
    <3>1. RowAt(L, image, G, r) = RowAt(file, image, G, r)
      BY <1>3, SameRow
    <3> QED BY <1>2, <1>15, <3>1
  <2>2. <<>> \in Seq(Commit) /\ Len(<<>>) = 0
    OBVIOUS
  <2>3. ASSUME NEW b, \A r \in Row : RowAt(L, image, Len(L), r) = AppliedAt(b, <<>>, Len(<<>>), r)
        PROVE  Replays(L, image, b, <<>>, Len(L))
    BY <1>3, <2>2, <2>3, Uncut
  <2>4. Replays(L, image, base', <<>>, G)
    BY <1>3, <2>1, <2>2, <2>3
  <2> QED BY <1>0, <1>4, <1>19, <2>4 DEF CutsInv
<1>21. SeqInv'
  <2>1. SeqAt(L, image, G) = SeqAt(file, image, G)
    BY <1>3, SameSeq
  <2>2. need'[SeqCaller] = 0 /\ ckpt' = FALSE
    BY <1>0, <1>1 DEF Blank, Thread
  <2> QED BY <1>0, <1>2, <1>4, <1>19, <2>1, <2>2 DEF SeqInv
<1> QED BY <1>0, <1>7, <1>9, <1>10, <1>11, <1>13, <1>14, <1>16, <1>17, <1>18, <1>20, <1>21
        DEF Sound, UpInv

-----------------------------------------------------------------------------
(* The theorems                                                            *)

\* A step after which the engine has survived no failed write kept it sound.
LEMMA SoundStep ==
    ASSUME TypeInv, Sound, Next, survived' = 0
    PROVE  Sound'
<1>0. TypeOK /\ survived \in Nat
  BY DEF TypeInv, TypeOK
<1>1. \A rec \in Record : ~AppendFails(rec)
  BY <1>0, AppendFailsEffect
<1>2. ~Survived
  BY <1>0 DEF Survived
<1>3. ASSUME NEW t \in Txn, Session(t) PROVE Sound'
  <2>1. ~CommitAppendFails(t)
    BY <1>1, NewRecords DEF CommitAppendFails
  <2>2. ASSUME NEW r \in Row, NEW v \in NewValues(t, r), Write(t, r, v) \/ WriteFails(t, r, v)
        PROVE  Sound'
    <3>1. Len(undo[t]) < MaxOps
      BY <2>2 DEF Write, WriteFails, Pushed
    <3>2. OpRec(t, r, v) \in Record
      BY <3>1, NewValuesType, NewRecords
    <3>3. ~WriteFails(t, r, v)
      BY <1>1, <3>2 DEF WriteFails
    <3> QED BY <2>2, <3>3, WriteKeeps
  <2>3. ASSUME NEW mark \in 0..(MaxOps - 1), RollbackTo(t, mark) PROVE Sound'
    <3>1. mark \in Nat
      BY WalAssumption
    <3> QED BY <2>3, <3>1, RollbackToKeeps
  <2> QED BY <1>3, <2>1, <2>2, <2>3, BeginKeeps, RollbackKeeps, CommitStageKeeps DEF Session
<1>4. ASSUME NEW t \in Txn, CompensateFails(t) PROVE FALSE
  <2>1. undoing[t] \in Seq(Undo) /\ undoing[t] # <<>>
    BY <1>4 DEF TypeInv, TypeOK, CompensateFails
  <2>2. undoing[t][Len(undoing[t])] \in Undo
    BY <2>1
  <2>3. Inverse(t, undoing[t][Len(undoing[t])]) \in Record
    BY <2>2, NewRecords DEF Inverse, Undo, MaybeValue
  <2> QED BY <1>1, <1>4, <2>3 DEF CompensateFails
<1>5. ASSUME NEW t \in Txn, Engine(t) PROVE Sound'
  BY <1>5, CompensateKeeps, AbortMarkerKeeps, CommitFinishKeeps DEF Engine
<1>6. ASSUME Group PROVE Sound'
  BY <1>6, LeadKeeps, LeaderFlushKeeps, LeaderSyncKeeps DEF Group
<1>7. ~NextvalFails
  <2>1. seq + 1 \in Nat
    BY DEF TypeInv, TypeOK
  <2> QED BY <1>1, <2>1, NewRecords DEF NextvalFails
<1>8. ~TruncateFails
  BY <1>2 DEF TruncateFails
<1>9. ~RefuseHole
  BY NothingRefused
<1>10. ASSUME Publish \/ PublishFails \/ Truncate \/ TruncateSkipped PROVE Sound'
  BY <1>10, PublishKeeps, PublishFailsKeeps, TruncateKeeps, TruncateSkippedKeeps
<1>11. ASSUME LeaderFlushFails \/ LeaderSyncFails PROVE Sound'
  BY <1>11, LeaderFailsKeeps
<1>12. ASSUME Nextval \/ NextvalReturns \/ Crash \/ Recover PROVE Sound'
  BY <1>12, NextvalKeeps, NextvalReturnsKeeps, CrashKeeps, RecoverKeeps
<1> QED BY <1>3, <1>4, <1>5, <1>6, <1>7, <1>8, <1>9, <1>10, <1>11, <1>12 DEF Next

\* Failed writes are counted, never forgotten.
LEMMA SurvivedGrows ==
    ASSUME TypeInv, [Next]_vars
    PROVE  survived' \in Nat /\ survived <= survived'
<1>0. survived \in Nat
  BY DEF TypeInv, TypeOK
<1>1. \A rec : AppendRec(rec) => survived' = survived
  BY DEF AppendRec
<1>2. Survived => survived' = survived + 1
  BY DEF Survived
<1>3. \A rec : AppendFails(rec) => survived' = survived + 1
  BY DEF AppendFails, Survived
<1>4. survived' = survived \/ survived' = survived + 1
  <2>1. CASE UNCHANGED vars
    BY <2>1 DEF vars, logVars
  <2>2. ASSUME NEW t \in Txn, Session(t)
        PROVE  survived' = survived \/ survived' = survived + 1
    BY <1>1, <1>3, <2>2 DEF Session, Begin, Rollback, CommitReadOnly, CommitStage,
       CommitAppendFails, Write, WriteFails, RollbackTo, logVars
  <2>3. ASSUME NEW t \in Txn, Engine(t) \/ CompensateFails(t)
        PROVE  survived' = survived \/ survived' = survived + 1
    BY <1>1, <1>3, <2>3 DEF Engine, Compensate, CompensateFails, AbortMarker, CommitFinish,
       logVars
  <2>4. ASSUME Group \/ LeaderFlushFails \/ LeaderSyncFails
        PROVE  survived' = survived \/ survived' = survived + 1
    BY <1>2, <2>4 DEF Group, Lead, LeaderFlush, LeaderSync, LeaderFlushFails,
       LeaderSyncFails, logVars
  <2>5. ASSUME Nextval \/ NextvalFails \/ NextvalReturns
        PROVE  survived' = survived \/ survived' = survived + 1
    BY <1>1, <1>3, <2>5 DEF Nextval, NextvalFails, NextvalReturns, logVars
  <2>6. ASSUME Publish \/ PublishFails \/ Truncate \/ TruncateSkipped \/ TruncateFails
        PROVE  survived' = survived \/ survived' = survived + 1
    BY <1>2, <2>6 DEF Publish, PublishFails, Truncate, TruncateSkipped, TruncateFails, logVars
  <2>7. ASSUME Crash \/ Recover \/ RefuseHole
        PROVE  survived' = survived \/ survived' = survived + 1
    BY <2>7 DEF Crash, Recover, RefuseHole, logVars
  <2> QED BY <2>1, <2>2, <2>3, <2>4, <2>5, <2>6, <2>7 DEF Next
<1> QED BY <1>0, <1>4

LEMMA SoundStays ==
    ASSUME Sound, UNCHANGED vars
    PROVE  Sound'
<1>1. /\ UNCHANGED <<mode, buf, nextLsn, file, survived, safe, image, durable, leader, tail>>
      /\ UNCHANGED <<need, nextTxn, status, undo, undoing, lock, db, seq, seqPrior, ckpt>>
      /\ UNCHANGED <<base, order, acked, given>>
  BY DEF vars, logVars, groupVars, txnVars, seqVars, histVars
<1>2. Log' = Log
  BY <1>1 DEF Log
<1>3. Climbs' = Climbs /\ OneEnd' = OneEnd /\ WriterInv' = WriterInv /\ MarkerInv' = MarkerInv
  BY <1>1, <1>2 DEF Climbs, OneEnd, WriterInv, MarkerInv
<1>4. GroupInv' = GroupInv /\ OrderInv' = OrderInv /\ CutsInv' = CutsInv /\ SeqInv' = SeqInv
  BY <1>1, <1>2 DEF GroupInv, OrderInv, CutsInv, SeqInv
<1>5. \A t \in Txn : Active(t)' = Active(t) /\ Writes(t)' = Writes(t)
  BY <1>1 DEF Active, Writes
<1>6. \A t \in Txn, r \in Row : \A v : LastOp(t, r, v)' = LastOp(t, r, v)
  BY <1>2 DEF LastOp
<1>7. \A t \in Txn, r \in Row : Current(t, r)' = Current(t, r)
  BY <1>1 DEF Current
<1>8. TxnInv' = TxnInv /\ ImageInv' = ImageInv
  BY <1>1, <1>2, <1>5 DEF TxnInv, ImageInv
<1>9. OpsInv' = OpsInv
  BY <1>1, <1>2, <1>5, <1>6 DEF OpsInv
<1>10. StagedInv' = StagedInv
  BY <1>1, <1>7 DEF StagedInv
<1>11. DownInv' = DownInv
  BY <1>1 DEF DownInv, GoodCut
<1> QED BY <1>1, <1>3, <1>4, <1>8, <1>9, <1>10, <1>11 DEF Sound, UpInv

LEMMA WalStep == WalInv /\ [Next]_vars => WalInv'
<1> SUFFICES ASSUME WalInv, [Next]_vars PROVE WalInv'
  OBVIOUS
<1>1. TypeInv /\ TypeInv'
  BY TypeStep DEF WalInv
<1>2. ASSUME survived' = 0 PROVE Sound'
  <2>1. survived = 0
    <3>1. survived \in Nat /\ survived <= survived'
      BY <1>1, SurvivedGrows DEF TypeInv, TypeOK
    <3> QED BY <1>2, <3>1
  <2>2. Sound
    BY <2>1 DEF WalInv
  <2> QED BY <1>1, <1>2, <2>2, SoundStep, SoundStays
<1> QED BY <1>1, <1>2 DEF WalInv

LEMMA WalStart == Init => WalInv
<1> SUFFICES ASSUME Init PROVE Sound
  BY TypeStart DEF WalInv
<1>0. MaxTxn \in Nat /\ mode = "up" /\ TypeInv
  BY WalAssumption, TypeStart DEF Init
<1>1. Log = <<>> /\ Len(Log) = 0 /\ Log \in Seq(Frames)
  <2>1. Log = <<>> \o <<>>
    BY DEF Init, Log
  <2> QED BY <2>1
<1>2. \A i \in 1..Len(Log) : FALSE
  BY <1>1
<1>3. Climbs /\ OneEnd /\ MarkerInv
  BY <1>2 DEF Climbs, OneEnd, MarkerInv
<1>4. WriterInv
  BY <1>2 DEF Init, WriterInv
<1>5. \A t \in Txn : status[t] = "none" /\ undo[t] = <<>> /\ undoing[t] = <<>> /\ need[t] = 0
  BY DEF Init, Thread
<1>6. GroupInv
  BY <1>2, <1>5 DEF Init, GroupInv
<1>7. TxnInv
  <2>1. \A t \in Txn : Writes(t) = <<>> \o <<>>
    BY <1>5 DEF Writes
  <2>2. Len(<<>> \o <<>>) = 0
    OBVIOUS
  <2>3. \A t \in Txn : \A i \in 1..Len(Writes(t)) : FALSE
    BY <2>1, <2>2
  <2>4. \A t \in Txn, r \in Row : lock[r] # t
    BY DEF Init, Txn
  <2> QED BY <1>5, <2>3, <2>4 DEF TxnInv
<1>8. OpsInv
  BY <1>2 DEF OpsInv
<1>9. \A r \in Row : AppliedAt(base, order, Len(order), r) = db[r]
  <2>1. order = <<>> /\ Len(order) = 0 /\ base = db
    BY DEF Init
  <2>2. \A r \in Row : SetsIn(order, Len(order), r) = {}
    BY <2>1 DEF SetsIn
  <2> QED BY <2>1, <2>2 DEF AppliedAt
<1>10. StagedInv
  BY <1>5, <1>9 DEF StagedInv
<1>11. OrderInv
  <2>1. order = <<>> /\ acked = {}
    BY DEF Init
  <2>2. \A i \in 1..Len(order) : FALSE
    BY <2>1
  <2> QED BY <2>1, <2>2 DEF OrderInv
<1>12. ImageInv
  BY DEF Init, ImageInv
<1>13. CutsInv /\ SeqInv
  <2>1. /\ image.rows = db /\ image.covered = 0 /\ image.seq = 0 /\ seq = 0 /\ given = 0
        /\ need[SeqCaller] = 0 /\ ckpt = FALSE /\ safe = 0
    BY DEF Init, Thread
  <2>2. order \in Seq(Commit)
    BY <1>0 DEF TypeInv
  <2>3. \A k \in 0..Len(Log) : /\ Replays(Log, image, base, order, k)
                               /\ SeqAt(Log, image, k) = image.seq
    <3> SUFFICES ASSUME NEW k \in 0..Len(Log)
                 PROVE  Replays(Log, image, base, order, k) /\ SeqAt(Log, image, k) = image.seq
      OBVIOUS
    <3>1. \A r \in Row : image.rows[r] = AppliedAt(base, order, Len(order), r)
      BY <1>9, <2>1
    <3>2. image.covered \in Nat /\ \A i \in 1..Len(Log) : Log[i].lsn <= image.covered
      BY <1>2, <2>1
    <3> QED BY <1>1, <2>2, <3>1, <3>2, CutCovered
  <2> QED BY <2>1, <2>3 DEF CutsInv, SeqInv
<1> QED BY <1>0, <1>3, <1>4, <1>6, <1>7, <1>8, <1>10, <1>11, <1>12, <1>13 DEF Sound, UpInv

\* The log tells the commits: as long as the engine went on after no failed
\* write, whatever tail of the log behind its fsynced part a crash takes away,
\* open_impl replays the rest over the checkpoint image to what some prefix of
\* the commits made, every reported one among them.
THEOREM LogTellsTheCommits == Spec => []WalInv
BY WalStart, WalStep, PTL DEF Spec

\* WalWriter and open_impl: log positions climb along file and buffer, stay
\* behind next_lsn, and next_lsn stays past the image's watermark, through spills,
\* truncations, crashes and recoveries, as long as the engine went on after no
\* failed write.
THEOREM PositionsOnlyClimb == Spec => [](survived = 0 => PositionsClimb)
<1>1. WalInv => (survived = 0 => PositionsClimb)
  BY DEF WalInv, Sound, UpInv, Climbs, WriterInv, PositionsClimb
<1> QED BY <1>1, LogTellsTheCommits, PTL

\* Recovery from a log none of whose writes failed behind the engine's back
\* rebuilds exactly a prefix of the commits and refuses nothing.
LEMMA FailStopStep ==
    ASSUME WalInv, [Next]_vars, mode = "down", mode' # "down", survived = 0
    PROVE  mode' = "up" /\ ExactRecovery
<1>0. TypeInv /\ Sound /\ ~UNCHANGED vars
  BY DEF WalInv, vars
<1>1. Next
  BY <1>0
<1>2. Recover \/ RefuseHole
  <2>1. ~Up /\ ~Alive
    BY DEF Up, Alive
  <2>2. \A t \in Txn : ~Session(t) /\ ~Engine(t) /\ ~CompensateFails(t)
    BY <2>1 DEF Session, Begin, Rollback, CommitReadOnly, CommitStage, CommitAppendFails,
       Write, WriteFails, RollbackTo, Running, Engine, Compensate, AbortMarker,
       CommitFinish, CompensateFails, Up, Alive
  <2>3. ~Group /\ ~LeaderFlushFails /\ ~LeaderSyncFails
    BY <2>1 DEF Group, Lead, Waiting, LeaderFlush, LeaderSync, LeaderFlushFails,
       LeaderSyncFails
  <2>4. ~Nextval /\ ~NextvalFails /\ ~NextvalReturns /\ ~Publish /\ ~PublishFails
    BY <2>1 DEF Nextval, NextvalFails, NextvalReturns, Publish, PublishFails
  <2>5. ~Truncate /\ ~TruncateSkipped /\ ~TruncateFails /\ ~Crash
    BY DEF Truncate, TruncateSkipped, TruncateFails, Crash
  <2> QED BY <1>1, <2>2, <2>3, <2>4, <2>5 DEF Next
<1> QED BY <1>0, <1>2, NothingRefused, RecoverExact

\* A commit whose flush or fsync fails stops the process (LeaderFailed), so on a
\* disk that fills up recovery is exact too, as long as nothing else went on
\* after a failed write to the log.
THEOREM FailStopRecoversExactly == Spec => FailStopIsExact
<1>1. WalInv /\ [Next]_vars =>
          [mode = "down" /\ mode' # "down" /\ survived = 0 => mode' = "up" /\ ExactRecovery]_vars
  BY FailStopStep
<1> QED BY <1>1, LogTellsTheCommits, PTL DEF Spec, FailStopIsExact

-----------------------------------------------------------------------------
(* An engine that goes on after no failed write                            *)

LEMMA NoFault ==
    ASSUME MaxFault = 0
    PROVE  Spec => [](survived = 0)
<1>1. Init => survived = 0
  BY DEF Init
<1>2. survived = 0 /\ TypeInv /\ [Next]_vars => (survived = 0)'
  <2> SUFFICES ASSUME survived = 0, TypeInv, [Next]_vars PROVE survived' = 0
    OBVIOUS
  <2>1. ~Survived /\ \A rec : ~AppendFails(rec)
    BY DEF Survived, AppendFails
  <2>2. \A rec : AppendRec(rec) => survived' = survived
    BY DEF AppendRec
  <2>3. CASE UNCHANGED vars
    BY <2>3 DEF vars, logVars
  <2>4. ASSUME NEW t \in Txn, Session(t) PROVE survived' = survived
    BY <2>1, <2>2, <2>4 DEF Session, Begin, Rollback, CommitReadOnly, CommitStage,
       CommitAppendFails, Write, WriteFails, RollbackTo, logVars
  <2>5. ASSUME NEW t \in Txn, Engine(t) \/ CompensateFails(t) PROVE survived' = survived
    BY <2>1, <2>2, <2>5 DEF Engine, Compensate, CompensateFails, AbortMarker, CommitFinish,
       logVars
  <2>6. ASSUME Group \/ LeaderFlushFails \/ LeaderSyncFails PROVE survived' = survived
    BY <2>1, <2>6 DEF Group, Lead, LeaderFlush, LeaderSync, LeaderFlushFails,
       LeaderSyncFails, logVars
  <2>7. ASSUME Nextval \/ NextvalFails \/ NextvalReturns PROVE survived' = survived
    BY <2>1, <2>2, <2>7 DEF Nextval, NextvalFails, NextvalReturns, logVars
  <2>8. ASSUME Publish \/ PublishFails \/ Truncate \/ TruncateSkipped \/ TruncateFails
        PROVE  survived' = survived
    BY <2>1, <2>8 DEF Publish, PublishFails, Truncate, TruncateSkipped, TruncateFails, logVars
  <2>9. ASSUME Crash \/ Recover \/ RefuseHole PROVE survived' = survived
    BY <2>9 DEF Crash, Recover, RefuseHole, logVars
  <2> QED BY <2>3, <2>4, <2>5, <2>6, <2>7, <2>8, <2>9 DEF Next
<1>3. WalInv => TypeInv
  BY DEF WalInv
<1> QED BY <1>1, <1>2, <1>3, LogTellsTheCommits, PTL DEF Spec

\* Crashes and power losses alone never make log positions fall.
COROLLARY CrashKeepsPositions ==
    ASSUME MaxFault = 0
    PROVE  Spec => []PositionsClimb
BY NoFault, PositionsOnlyClimb, PTL

\* recover_sealed_prefix: no crash and no power loss, wherever it cuts the log,
\* leaves one that open refuses.
COROLLARY CrashOpensAgain ==
    ASSUME MaxFault = 0
    PROVE  Spec => []OpensAgain
<1>1. WalInv /\ survived = 0 => OpensAgain
  BY DEF WalInv, Sound, OpensAgain
<1> QED BY <1>1, NoFault, LogTellsTheCommits, PTL

\* open_impl after any sequence of crashes and power losses loses no reported
\* commit and brings back nothing but commits, each of them whole.
COROLLARY CrashRecoversExactly ==
    ASSUME MaxFault = 0
    PROVE  Spec => RecoveryIsExact
<1>1. WalInv /\ survived = 0 /\ [Next]_vars =>
          [mode = "down" /\ mode' = "up" => ExactRecovery]_vars
  BY FailStopStep
<1> QED BY <1>1, NoFault, LogTellsTheCommits, PTL DEF Spec, RecoveryIsExact

\* sequence_next is durable before it returns: no crash makes it hand out a
\* number again.
COROLLARY NextvalAlwaysFresh ==
    ASSUME MaxFault = 0
    PROVE  Spec => NextvalNeverRepeats
<1>1. WalInv /\ survived = 0 /\ [Next]_vars => [NextvalReturns => seq > given]_vars
  BY NextvalReturnsKeeps DEF WalInv
<1> QED BY <1>1, NoFault, LogTellsTheCommits, PTL DEF Spec, NextvalNeverRepeats
=============================================================================
