------------------------- MODULE MvccSnapshotProofs -------------------------
(***************************************************************************)
(* What transactions read: every statement sees the state that was         *)
(* committed when its snapshot was taken, plus its transaction's own       *)
(* writes; and a transaction writes only over what its snapshot shows.     *)
(*                                                                         *)
(* A chain is read through the set of transactions whose stamps count.     *)
(* Read through the ended ones it gives the committed state; read through  *)
(* the ones a view sees, its own transaction apart, it gives the state at  *)
(* the moment the view was taken, for as long as the view is held: writers *)
(* and rollbacks touch only stamps outside the set, and a purge pass only  *)
(* what every held view sees.                                              *)
(***************************************************************************)
EXTENDS MvccVersionProofs, FiniteSetTheorems

-----------------------------------------------------------------------------
(* Reading a chain through a set of transactions                           *)

\* The transactions a view sees, its own one apart.
SeenBy(v) == {x \in Txn : x # v.own /\ x < v.horizon /\ x \notin v.active}

\* Version i of chain c decides what is read through the transactions in S.
Decides(S, c, i) ==
    /\ i \in 1..Len(c) /\ c[i].xmin \in S
    /\ \A j \in 1..(i - 1) : c[j].xmin \notin S

\* Read through S, chain c has the value val.
Value(S, c, val) ==
    \/ (\A i \in 1..Len(c) : c[i].xmin \notin S) /\ val = NoTuple
    \/ \E i \in 1..Len(c) : /\ Decides(S, c, i)
                            /\ val = IF c[i].xmax \in S THEN NoTuple ELSE c[i].tuple

\* The first version whose creator the view sees decides (visible_version).
LEMMA FirstSeen ==
    ASSUME NEW v, NEW c \in Seq(Version), NEW i \in 1..Len(c), Sees(v, c[i].xmin),
           \A j \in 1..(i - 1) : ~Sees(v, c[j].xmin)
    PROVE  VisibleTuple(v, c) = IF c[i].xmax # NoTxn /\ Sees(v, c[i].xmax)
                                THEN NoTuple ELSE c[i].tuple
<1> DEFINE seen == {k \in 1..Len(c) : Sees(v, c[k].xmin)}
           k == CHOOSE q \in seen : \A j \in seen : q <= j
<1>0. Len(c) \in Nat
  OBVIOUS
<1>1. i \in seen /\ seen # {}
  OBVIOUS
<1>2. \A j \in seen : i <= j
  <2> SUFFICES ASSUME NEW j \in seen, ~(i <= j) PROVE FALSE
    OBVIOUS
  <2>1. j \in 1..(i - 1)
    BY <1>0
  <2> QED BY <2>1
<1>3. k \in seen /\ \A j \in seen : k <= j
  BY <1>1, <1>2
<1>4. k = i
  <2>1. \A j \in seen : j \in Nat
    BY <1>0
  <2> HIDE DEF k, seen
  <2> QED BY <1>1, <1>2, <1>3, <2>1
<1>5. VisibleTuple(v, c) = IF seen = {} \/ (c[k].xmax # NoTxn /\ Sees(v, c[k].xmax))
                           THEN NoTuple ELSE c[k].tuple
  BY Zenon DEF VisibleTuple
<1> HIDE DEF seen, k
<1> QED BY <1>1, <1>4, <1>5

\* A chain none of whose versions the view sees is a row that is not there.
LEMMA NoneSeen ==
    ASSUME NEW v, NEW c \in Seq(Version), \A i \in 1..Len(c) : ~Sees(v, c[i].xmin)
    PROVE  VisibleTuple(v, c) = NoTuple
<1> DEFINE seen == {k \in 1..Len(c) : Sees(v, c[k].xmin)}
           k == CHOOSE q \in seen : \A j \in seen : q <= j
<1>1. seen = {}
  OBVIOUS
<1>2. VisibleTuple(v, c) = IF seen = {} \/ (c[k].xmax # NoTxn /\ Sees(v, c[k].xmax))
                           THEN NoTuple ELSE c[k].tuple
  BY Zenon DEF VisibleTuple
<1> HIDE DEF seen, k
<1> QED BY <1>1, <1>2

\* A chain without stamps of the view's own transaction reads as the chain
\* through the transactions the view sees.
LEMMA Unwritten ==
    ASSUME NEW v \in View, NEW c \in Seq(Version), NEW val, Value(SeenBy(v), c, val),
           \A i \in 1..Len(c) : c[i].xmin # v.own /\ c[i].xmax # v.own
    PROVE  VisibleTuple(v, c) = val
<1>1. \A i \in 1..Len(c) : c[i] \in Version
  OBVIOUS
<1>2. \A i \in 1..Len(c) : /\ Sees(v, c[i].xmin) <=> c[i].xmin \in SeenBy(v)
                           /\ c[i].xmax # NoTxn /\ Sees(v, c[i].xmax) <=> c[i].xmax \in SeenBy(v)
  BY <1>1 DEF Sees, SeenBy, Version, Txn, NoTxn
<1>3. CASE (\A i \in 1..Len(c) : c[i].xmin \notin SeenBy(v)) /\ val = NoTuple
  BY <1>2, <1>3, NoneSeen
<1>4. ASSUME NEW i \in 1..Len(c), Decides(SeenBy(v), c, i),
             val = IF c[i].xmax \in SeenBy(v) THEN NoTuple ELSE c[i].tuple
      PROVE  VisibleTuple(v, c) = val
  <2>1. Len(c) \in Nat /\ \A j \in 1..(i - 1) : j \in 1..Len(c)
    OBVIOUS
  <2>2. Sees(v, c[i].xmin) /\ \A j \in 1..(i - 1) : ~Sees(v, c[j].xmin)
    BY <1>2, <1>4, <2>1 DEF Decides
  <2>3. VisibleTuple(v, c) = IF c[i].xmax # NoTxn /\ Sees(v, c[i].xmax)
                             THEN NoTuple ELSE c[i].tuple
    BY <2>2, FirstSeen
  <2> QED BY <1>2, <1>4, <2>3
<1> QED BY <1>3, <1>4 DEF Value

\* Reading depends only on which of the chain's stamps count.
LEMMA ValueSame ==
    ASSUME NEW S, NEW T, NEW c \in Seq(Version), NEW val, Value(S, c, val),
           \A i \in 1..Len(c) : (c[i].xmin \in S <=> c[i].xmin \in T)
                                /\ (c[i].xmax \in S <=> c[i].xmax \in T)
    PROVE  Value(T, c, val)
<1>1. CASE \A i \in 1..Len(c) : c[i].xmin \notin S
  BY <1>1 DEF Value, Decides
<1>2. ASSUME NEW i \in 1..Len(c), Decides(S, c, i),
             val = IF c[i].xmax \in S THEN NoTuple ELSE c[i].tuple
      PROVE  Value(T, c, val)
  <2>1. Len(c) \in Nat /\ \A j \in 1..(i - 1) : j \in 1..Len(c)
    OBVIOUS
  <2>2. Decides(T, c, i)
    BY <1>2, <2>1 DEF Decides
  <2> QED BY <1>2, <2>2 DEF Value
<1> QED BY <1>1, <1>2 DEF Value

\* A chain has one value.
LEMMA OneValue ==
    ASSUME NEW S, NEW c \in Seq(Version), NEW a, NEW b, Value(S, c, a), Value(S, c, b)
    PROVE  a = b
<1>0. Len(c) \in Nat
  OBVIOUS
<1>1. \A i, j \in 1..Len(c) : Decides(S, c, i) /\ Decides(S, c, j) => i = j
  <2> SUFFICES ASSUME NEW i \in 1..Len(c), NEW j \in 1..Len(c),
                      Decides(S, c, i), Decides(S, c, j), i # j
               PROVE  FALSE
    OBVIOUS
  <2>1. i \in 1..(j - 1) \/ j \in 1..(i - 1)
    BY <1>0
  <2> QED BY <2>1 DEF Decides
<1> QED BY <1>1 DEF Value, Decides

\* A newest version that counts decides.
LEMMA TopValue ==
    ASSUME NEW S, NEW c \in Seq(Version), c # <<>>, c[1].xmin \in S
    PROVE  Value(S, c, IF c[1].xmax \in S THEN NoTuple ELSE c[1].tuple)
<1>1. 1 \in 1..Len(c)
  OBVIOUS
<1>2. Decides(S, c, 1)
  BY <1>1 DEF Decides
<1> QED BY <1>1, <1>2 DEF Value

-----------------------------------------------------------------------------
(* What steps do to a value read through others' stamps                    *)

\* A version of a transaction that does not count, put on top, changes nothing.
LEMMA ValueUnder ==
    ASSUME NEW S, NEW c \in Seq(Version), NEW d \in Seq(Version), NEW val,
           Len(c) > 0, c[1].xmin \notin S,
           Len(d) = Len(c) - 1, \A i \in 1..Len(d) : d[i] = c[i + 1]
    PROVE  Value(S, c, val) <=> Value(S, d, val)
<1> DEFINE m == Len(c)
           n == Len(d)
<1>0. m \in Nat /\ n \in Nat /\ m = n + 1
  OBVIOUS
<1>1. c[1].xmin \notin S /\ \A i \in 1..n : d[i] = c[i + 1]
  OBVIOUS
<1> HIDE DEF m, n
<1>2. ASSUME NEW i \in 1..n PROVE i + 1 \in 1..m /\ d[i] = c[i + 1]
  BY <1>0, <1>1
<1>3. ASSUME NEW i \in 1..m, i # 1 PROVE i - 1 \in 1..n /\ d[i - 1] = c[i]
  <2>1. i - 1 \in 1..n /\ (i - 1) + 1 = i
    BY <1>0, <1>3
  <2> QED BY <1>1, <2>1
<1>4. (\A i \in 1..m : c[i].xmin \notin S) <=> (\A i \in 1..n : d[i].xmin \notin S)
  <2>1. ASSUME \A i \in 1..m : c[i].xmin \notin S, NEW i \in 1..n PROVE d[i].xmin \notin S
    BY <1>2, <2>1
  <2>2. ASSUME \A i \in 1..n : d[i].xmin \notin S, NEW i \in 1..m PROVE c[i].xmin \notin S
    BY <1>1, <1>3, <2>2
  <2> QED BY <2>1, <2>2
<1>5. ASSUME NEW i \in 1..m, Decides(S, c, i)
      PROVE  i - 1 \in 1..n /\ Decides(S, d, i - 1) /\ d[i - 1] = c[i]
  <2>1. i # 1
    BY <1>1, <1>5 DEF Decides
  <2>2. i - 1 \in 1..n /\ d[i - 1] = c[i]
    BY <1>3, <2>1
  <2>3. ASSUME NEW j \in 1..((i - 1) - 1) PROVE d[j].xmin \notin S
    <3>1. j \in 1..n /\ j + 1 \in 1..(i - 1)
      BY <1>0, <2>2
    <3> QED BY <1>1, <1>5, <3>1 DEF Decides
  <2> QED BY <1>5, <2>2, <2>3 DEF Decides, n
<1>6. ASSUME NEW i \in 1..n, Decides(S, d, i)
      PROVE  i + 1 \in 1..m /\ Decides(S, c, i + 1) /\ d[i] = c[i + 1]
  <2>1. i + 1 \in 1..m /\ d[i] = c[i + 1]
    BY <1>2
  <2>2. ASSUME NEW j \in 1..((i + 1) - 1) PROVE c[j].xmin \notin S
    <3>1. CASE j = 1
      BY <1>1, <3>1
    <3>2. CASE j # 1
      <4>1. j \in 1..m /\ j - 1 \in 1..(i - 1)
        BY <1>0, <3>2
      <4>2. d[j - 1] = c[j]
        BY <1>3, <3>2, <4>1
      <4> QED BY <1>6, <4>1, <4>2 DEF Decides
    <3> QED BY <3>1, <3>2
  <2> QED BY <1>6, <2>1, <2>2 DEF Decides, m
<1>7. ASSUME Value(S, c, val) PROVE Value(S, d, val)
  <2>1. CASE \E i \in 1..m : /\ Decides(S, c, i)
                             /\ val = IF c[i].xmax \in S THEN NoTuple ELSE c[i].tuple
    BY <1>5, <2>1 DEF Value, n
  <2> QED BY <1>4, <1>7, <2>1 DEF Value, m, n
<1>8. ASSUME Value(S, d, val) PROVE Value(S, c, val)
  <2>1. CASE \E i \in 1..n : /\ Decides(S, d, i)
                             /\ val = IF d[i].xmax \in S THEN NoTuple ELSE d[i].tuple
    BY <1>6, <2>1 DEF Value, m
  <2> QED BY <1>4, <1>8, <2>1 DEF Value, m, n
<1> QED BY <1>7, <1>8

\* Neither does a delete mark that does not count.
LEMMA ValueMarked ==
    ASSUME NEW S, NEW c \in Seq(Version), NEW d \in Seq(Version), NEW val,
           Len(d) = Len(c), Len(c) > 0, \A i \in 2..Len(c) : d[i] = c[i],
           d[1].xmin = c[1].xmin, d[1].tuple = c[1].tuple,
           c[1].xmax \notin S, d[1].xmax \notin S, Value(S, c, val)
    PROVE  Value(S, d, val)
<1>0. Len(c) \in Nat
  OBVIOUS
<1>1. ASSUME NEW i \in 1..Len(c)
      PROVE  /\ d[i].xmin = c[i].xmin /\ d[i].tuple = c[i].tuple
             /\ d[i].xmax \in S <=> c[i].xmax \in S
  <2>1. i = 1 \/ i \in 2..Len(c)
    BY <1>0
  <2> QED BY <2>1
<1>2. CASE \A i \in 1..Len(c) : c[i].xmin \notin S
  BY <1>1, <1>2 DEF Value, Decides
<1>3. ASSUME NEW i \in 1..Len(c), Decides(S, c, i),
             val = IF c[i].xmax \in S THEN NoTuple ELSE c[i].tuple
      PROVE  Value(S, d, val)
  <2>1. \A j \in 1..(i - 1) : j \in 1..Len(c)
    BY <1>0
  <2>2. Decides(S, d, i)
    BY <1>1, <1>3, <2>1 DEF Decides
  <2> QED BY <1>1, <1>3, <2>2 DEF Value
<1> QED BY <1>2, <1>3 DEF Value

\* A row write is not seen through transactions that do not include the writer.
LEMMA PushedValue ==
    ASSUME NEW S, S \subseteq Txn, NEW t \in Txn, t \notin S, NEW k, NEW op, NEW c \in Seq(Version),
           NEW d \in Seq(Version), Pushed(t, k, op, c, d), NEW val, Value(S, c, val)
    PROVE  Value(S, d, val)
<1>0. NoTxn \notin S /\ Len(c) \in Nat
  BY DEF Txn, NoTxn
<1>1. CASE c = <<>> /\ d = <<NewVersion(t, k)>>
  <2>1. val = NoTuple
    BY <1>1 DEF Value
  <2>2. Len(d) = 1 /\ d[1].xmin = t
    BY <1>1 DEF NewVersion
  <2>3. \A i \in 1..Len(d) : d[i].xmin \notin S
    BY <2>2
  <2> QED BY <2>1, <2>3 DEF Value
<1>2. CASE d = <<NewVersion(t, k)>> \o c
  <2> DEFINE v == NewVersion(t, k)
  <2>0. v.xmin = t
    BY DEF NewVersion
  <2> HIDE DEF v
  <2>1. /\ Len(d) = Len(c) + 1 /\ d[1] = v
        /\ \A i \in 1..Len(c) : c[i] = d[i + 1]
    BY <1>0, <1>2 DEF v
  <2> QED BY <1>0, <2>0, <2>1, ValueUnder
<1>3. CASE c # <<>> /\ WriteOver(t, c[1]) /\ d = [c EXCEPT ![1] = [c[1] EXCEPT !.xmax = t]]
  <2>1. Len(c) > 0 /\ 1 \in 1..Len(c) /\ c[1] \in Version /\ c[1].xmax = NoTxn
    BY <1>0, <1>3 DEF WriteOver
  <2> DEFINE v == [c[1] EXCEPT !.xmax = t]
  <2>2. v.xmin = c[1].xmin /\ v.tuple = c[1].tuple /\ v.xmax = t
    BY <2>1 DEF Version
  <2> HIDE DEF v
  <2>3. Len(d) = Len(c) /\ d[1] = v /\ \A i \in 2..Len(c) : d[i] = c[i]
    BY <1>0, <1>3, <2>1 DEF v
  <2> QED BY <1>0, <2>1, <2>2, <2>3, ValueMarked
<1> QED BY <1>1, <1>2, <1>3 DEF Pushed

\* Nor is the undo of one.
LEMMA RevertedValue ==
    ASSUME NEW S, S \subseteq Txn, NEW t \in Txn, t \notin S, NEW k, NEW op, NEW c \in Seq(Version),
           NEW d \in Seq(Version), Reverted(t, op, k, c, d),
           op.op # "Inserted" => op.old.xmax = NoTxn, NEW val, Value(S, c, val)
    PROVE  Value(S, d, val)
<1>0. NoTxn \notin S /\ Len(c) \in Nat /\ Len(d) \in Nat
  BY DEF Txn, NoTxn
<1>1. CASE Len(c) = 1 /\ c[1] = NewVersion(t, k) /\ d = <<>>
  <2>1. c[1].xmin = t
    BY <1>1 DEF NewVersion
  <2>2. val = NoTuple
    BY <1>1, <2>1 DEF Value, Decides
  <2> QED BY <1>1, <2>2 DEF Value
<1>2. CASE /\ Len(c) > 1 /\ c[1] = NewVersion(t, k)
           /\ Len(d) = Len(c) - 1 /\ \A i \in 1..Len(d) : d[i] = c[i + 1]
  <2>1. c[1].xmin \notin S
    BY <1>2 DEF NewVersion
  <2>2. Len(c) > 0
    BY <1>0, <1>2
  <2> QED BY <1>2, <2>1, <2>2, ValueUnder
<1>3. CASE /\ op.op = "Deleted" /\ c # <<>> /\ c[1].xmax = t
           /\ Len(d) = Len(c) /\ d[1] = op.old /\ \A i \in 2..Len(d) : d[i] = c[i]
           /\ c[1].xmin = op.old.xmin /\ c[1].tuple = op.old.tuple
  <2>1. Len(c) > 0 /\ d[1].xmax = NoTxn
    BY <1>0, <1>3
  <2> QED BY <1>0, <1>3, <2>1, ValueMarked
<1> QED BY <1>1, <1>2, <1>3 DEF Reverted

\* A purge pass whose settled stamps all count, and a deleter with its row's
\* creator, keeps the value.
LEMMA PurgedValue ==
    ASSUME NEW S, S \subseteq Txn, NEW p \in Purger, NEW c \in Seq(Version), c # <<>>,
           \A x \in {c[1].xmin, c[1].xmax} : x # NoTxn /\ Settled(p, x) => x \in S,
           c[1].xmax \in S => c[1].xmin \in S, NEW val, Value(S, c, val)
    PROVE  Value(S, PurgedChain(p, c), val)
<1>0. c[1] \in Version /\ 1 \in 1..Len(c)
  OBVIOUS
<1>1. c[1].xmin # NoTxn
  BY <1>0 DEF Version, Txn, NoTxn
<1>2. CASE c[1].xmax # NoTxn /\ Settled(p, c[1].xmax)
  <2>1. c[1].xmax \in S /\ c[1].xmin \in S
    BY <1>2
  <2>2. val = NoTuple
    BY <2>1, TopValue, OneValue
  <2>3. PurgedChain(p, c) = <<>>
    BY <1>2 DEF PurgedChain
  <2> QED BY <2>2, <2>3 DEF Value
<1>3. CASE ~(c[1].xmax # NoTxn /\ Settled(p, c[1].xmax)) /\ Settled(p, c[1].xmin)
  <2> DEFINE d == <<c[1]>>
  <2>1. PurgedChain(p, c) = d
    BY <1>3 DEF PurgedChain
  <2>2. d \in Seq(Version) /\ d # <<>> /\ d[1] = c[1]
    BY <1>0
  <2>3. c[1].xmin \in S
    BY <1>1, <1>3
  <2> HIDE DEF d
  <2>4. val = IF c[1].xmax \in S THEN NoTuple ELSE c[1].tuple
    BY <2>3, TopValue, OneValue
  <2>5. Value(S, d, val)
    BY <2>2, <2>3, <2>4, TopValue
  <2> QED BY <2>1, <2>5
<1>4. CASE ~(c[1].xmax # NoTxn /\ Settled(p, c[1].xmax)) /\ ~Settled(p, c[1].xmin)
  BY <1>4 DEF PurgedChain
<1> QED BY <1>2, <1>3, <1>4

-----------------------------------------------------------------------------
(* A transaction's own writes are those of its log                         *)

\* Of the first n operations of log L of t, the last one on every row gives m.
MineIs(t, L, n, m) ==
    \A r \in Row :
        \/ (\A k \in 1..n : L[k].row # r) /\ m[r] = Untouched
        \/ \E k \in 1..n :
              /\ L[k].row = r /\ \A j \in (k + 1)..n : L[j].row # r
              /\ m[r] = IF L[k].op = "Deleted" THEN NoTuple ELSE <<t, k>>

\* `mine` is what the undo log says, and what a savepoint kept of it is what the
\* log says up to the savepoint's mark.
MineInv ==
    \A t \in Txn :
        /\ MineIs(t, undo[t], Len(undo[t]), mine[t])
        /\ \A i \in 1..Len(saves[t]) : MineIs(t, undo[t], saves[t][i].mark, saves[t][i].mine)

\* Only the operations up to the mark matter.
LEMMA MinePrefix ==
    ASSUME NEW t, NEW L, NEW M, NEW n \in Nat, NEW m, MineIs(t, L, n, m),
           \A k \in 1..n : M[k] = L[k]
    PROVE  MineIs(t, M, n, m)
<1> SUFFICES ASSUME NEW r \in Row
             PROVE  \/ (\A k \in 1..n : M[k].row # r) /\ m[r] = Untouched
                    \/ \E k \in 1..n :
                          /\ M[k].row = r /\ \A j \in (k + 1)..n : M[j].row # r
                          /\ m[r] = IF M[k].op = "Deleted" THEN NoTuple ELSE <<t, k>>
  BY DEF MineIs
<1>1. CASE (\A k \in 1..n : L[k].row # r) /\ m[r] = Untouched
  BY <1>1
<1>2. ASSUME NEW k \in 1..n, L[k].row = r, \A j \in (k + 1)..n : L[j].row # r,
             m[r] = IF L[k].op = "Deleted" THEN NoTuple ELSE <<t, k>>
      PROVE  \E q \in 1..n :
                /\ M[q].row = r /\ \A j \in (q + 1)..n : M[j].row # r
                /\ m[r] = IF M[q].op = "Deleted" THEN NoTuple ELSE <<t, q>>
  <2>1. \A j \in (k + 1)..n : j \in 1..n
    OBVIOUS
  <2> QED BY <1>2, <2>1
<1> QED BY <1>1, <1>2 DEF MineIs

\* A write is the last operation on its row and on no other.
LEMMA MineWrite ==
    ASSUME NEW t, NEW L \in Seq(UndoOp), NEW op \in UndoOp, NEW m \in [Row -> Tuple],
           MineIs(t, L, Len(L), m), NEW val,
           val = IF op.op = "Deleted" THEN NoTuple ELSE <<t, Len(L) + 1>>
    PROVE  MineIs(t, Append(L, op), Len(Append(L, op)), [m EXCEPT ![op.row] = val])
<1> DEFINE M == Append(L, op)
           n == Len(L)
           w == [m EXCEPT ![op.row] = val]
<1>1. n \in Nat /\ Len(M) = n + 1 /\ M[n + 1] = op /\ \A k \in 1..n : M[k] = L[k]
  OBVIOUS
<1>2. op.row \in Row
  BY DEF UndoOp
<1>3. w[op.row] = val /\ \A r \in Row : r # op.row => w[r] = m[r]
  BY <1>2
<1>4. val = IF op.op = "Deleted" THEN NoTuple ELSE <<t, n + 1>>
  OBVIOUS
<1>5. \A r \in Row :
        \/ (\A k \in 1..n : L[k].row # r) /\ m[r] = Untouched
        \/ \E k \in 1..n :
              /\ L[k].row = r /\ \A j \in (k + 1)..n : L[j].row # r
              /\ m[r] = IF L[k].op = "Deleted" THEN NoTuple ELSE <<t, k>>
  BY DEF MineIs
<1> HIDE DEF M, n, w
<1>6. ASSUME NEW r \in Row
      PROVE  \/ (\A k \in 1..(n + 1) : M[k].row # r) /\ w[r] = Untouched
             \/ \E k \in 1..(n + 1) :
                   /\ M[k].row = r /\ \A j \in (k + 1)..(n + 1) : M[j].row # r
                   /\ w[r] = IF M[k].op = "Deleted" THEN NoTuple ELSE <<t, k>>
  <2>1. CASE r = op.row
    <3>1. n + 1 \in 1..(n + 1) /\ \A j \in ((n + 1) + 1)..(n + 1) : FALSE
      BY <1>1
    <3> QED BY <1>1, <1>3, <1>4, <2>1, <3>1
  <2>2. CASE r # op.row
    <3>0. \A k \in 1..(n + 1) : k \in 1..n \/ k = n + 1
      BY <1>1
    <3>1. CASE (\A k \in 1..n : L[k].row # r) /\ m[r] = Untouched
      BY <1>1, <1>3, <2>2, <3>0, <3>1
    <3>2. ASSUME NEW k \in 1..n, L[k].row = r, \A j \in (k + 1)..n : L[j].row # r,
                 m[r] = IF L[k].op = "Deleted" THEN NoTuple ELSE <<t, k>>
          PROVE  \E q \in 1..(n + 1) :
                   /\ M[q].row = r /\ \A j \in (q + 1)..(n + 1) : M[j].row # r
                   /\ w[r] = IF M[q].op = "Deleted" THEN NoTuple ELSE <<t, q>>
      <4>1. k \in 1..(n + 1) /\ M[k] = L[k]
        BY <1>1
      <4>2. ASSUME NEW j \in (k + 1)..(n + 1) PROVE M[j].row # r
        <5>1. j = n + 1 \/ (j \in (k + 1)..n /\ j \in 1..n)
          BY <1>1
        <5> QED BY <1>1, <2>2, <3>2, <5>1
      <4> QED BY <1>3, <2>2, <3>2, <4>1, <4>2
    <3> QED BY <1>5, <3>1, <3>2
  <2> QED BY <2>1, <2>2
<1>7. MineIs(t, M, n + 1, w)
  BY <1>6, Zenon DEF MineIs
<1>8. MineIs(t, M, Len(M), w)
  BY <1>1, <1>7
<1> QED BY <1>8 DEF w, M

\* Every step keeps the record of own writes in line with the log.
LEMMA MineStep ==
    ASSUME TypeOK, SavesInv, MineInv, [Next]_vars
    PROVE  MineInv'
<1> USE MvccAssumption
<1>0. /\ undo \in [Txn -> Seq(UndoOp)] /\ saves \in [Txn -> Seq(SaveRec)]
      /\ mine \in [Txn -> Snapshots] /\ chain \in [Row -> Seq(Version)]
  BY DEF TypeOK, LogTypeOK, HistTypeOK, RowTypeOK
<1>1. ASSUME NEW u \in Txn
      PROVE  /\ undo[u] \in Seq(UndoOp) /\ Len(undo[u]) \in Nat
             /\ saves[u] \in Seq(SaveRec) /\ Len(saves[u]) \in Nat
             /\ mine[u] \in [Row -> Tuple]
             /\ \A i \in 1..Len(saves[u]) : saves[u][i] \in SaveRec /\ saves[u][i].mark \in Nat
             /\ \A i \in 1..Len(saves[u]) : saves[u][i].mark <= Len(undo[u])
             /\ \A i \in 1..Len(saves[u]) : \A j \in 1..i : saves[u][j].mark <= saves[u][i].mark
             /\ MineIs(u, undo[u], Len(undo[u]), mine[u])
             /\ \A i \in 1..Len(saves[u]) : MineIs(u, undo[u], saves[u][i].mark, saves[u][i].mine)
  <2>1. /\ undo[u] \in Seq(UndoOp) /\ saves[u] \in Seq(SaveRec) /\ mine[u] \in [Row -> Tuple]
    BY <1>0 DEF Snapshots
  <2>2. \A i \in 1..Len(saves[u]) : saves[u][i] \in SaveRec
    BY <2>1
  <2>3. \A i \in 1..Len(saves[u]) : saves[u][i].mark \in Nat
    BY <2>2 DEF SaveRec
  <2> QED BY <2>1, <2>2, <2>3 DEF SavesInv, MineInv
<1>2. CASE UNCHANGED <<undo, saves, mine>>
  BY <1>2 DEF MineInv
<1> DEFINE Good(u) ==
        /\ MineIs(u, undo'[u], Len(undo'[u]), mine'[u])
        /\ \A i \in 1..Len(saves'[u]) : MineIs(u, undo'[u], saves'[u][i].mark, saves'[u][i].mine)
<1>3. ASSUME NEW u \in Txn, undo'[u] = undo[u], saves'[u] = saves[u], mine'[u] = mine[u]
      PROVE  Good(u)
  BY <1>1, <1>3
<1>4. ASSUME NEW t \in Txn, NEW r \in Row, Insert(t, r) \/ Update(t, r) \/ Delete(t, r)
      PROVE  \A u \in Txn : Good(u)
  <2>1. PICK op \in UndoOp :
          /\ undo' = [undo EXCEPT ![t] = Append(@, op)] /\ op.row = r
          /\ op.op = "Deleted" <=> Delete(t, r) /\ ~Insert(t, r) /\ ~Update(t, r)
    <3>1. CASE Insert(t, r)
      <4>1. [op |-> "Inserted", row |-> r, old |-> NoVersion] \in UndoOp
        BY DEF UndoOp
      <4> QED BY <3>1, <4>1 DEF Insert, PushUndo
    <3>2. CASE (Update(t, r) \/ Delete(t, r)) /\ ~Insert(t, r)
      <4>1. chain[r] \in Seq(Version) /\ chain[r] # <<>>
        BY <1>0, <3>2 DEF Update, Delete
      <4>2. chain[r][1] \in Version
        BY <4>1
      <4>3. /\ [op |-> "Updated", row |-> r, old |-> chain[r][1]] \in UndoOp
            /\ [op |-> "Deleted", row |-> r, old |-> chain[r][1]] \in UndoOp
        BY <4>2 DEF UndoOp
      <4>4. CASE Update(t, r)
        BY <4>3, <4>4 DEF Update, PushUndo
      <4>5. CASE ~Update(t, r)
        BY <3>2, <4>3, <4>5 DEF Delete, PushUndo
      <4> QED BY <4>4, <4>5
    <3> QED BY <1>4, <3>1, <3>2
  <2>2. PICK val : /\ mine' = [mine EXCEPT ![t] = [mine[t] EXCEPT ![r] = val]]
                   /\ val = IF op.op = "Deleted" THEN NoTuple ELSE <<t, Len(undo[t]) + 1>>
    <3>1. CASE op.op = "Deleted"
      BY <2>1, <3>1 DEF Delete
    <3>2. CASE op.op # "Deleted"
      BY <1>4, <2>1, <3>2 DEF Insert, Update, NewTuple
    <3> QED BY <3>1, <3>2
  <2>3. UNCHANGED saves
    BY <1>4 DEF Insert, Update, Delete
  <2>4. \A u \in Txn : u # t => Good(u)
    BY <1>0, <1>3, <2>1, <2>2, <2>3
  <2>5. undo'[t] = Append(undo[t], op) /\ mine'[t] = [mine[t] EXCEPT ![op.row] = val]
    BY <1>0, <2>1, <2>2
  <2>6. MineIs(t, undo'[t], Len(undo'[t]), mine'[t])
    <3>1. MineIs(t, Append(undo[t], op), Len(Append(undo[t], op)), [mine[t] EXCEPT ![op.row] = val])
      BY <1>1, <2>2, MineWrite
    <3> QED BY <2>5, <3>1
  <2>7. ASSUME NEW i \in 1..Len(saves[t])
        PROVE  MineIs(t, undo'[t], saves[t][i].mark, saves[t][i].mine)
    <3>1. saves[t][i].mark \in Nat /\ saves[t][i].mark <= Len(undo[t])
      BY <1>1
    <3>2. \A k \in 1..Len(undo[t]) : undo'[t][k] = undo[t][k]
      BY <1>1, <2>5
    <3>3. \A k \in 1..saves[t][i].mark : undo'[t][k] = undo[t][k]
      BY <1>1, <3>1, <3>2
    <3> QED BY <1>1, <3>1, <3>3, MinePrefix
  <2> QED BY <2>3, <2>4, <2>6, <2>7
<1>5. ASSUME NEW t \in Txn, NEW name \in SaveName, Savepoint(t, name)
      PROVE  \A u \in Txn : Good(u)
  <2>1. OtherSaves(t, name) \in Seq(SaveRec)
    BY OtherSavesType DEF TypeOK
  <2> DEFINE o == OtherSaves(t, name)
             rec == [name |-> name, mark |-> Len(undo[t]), mine |-> mine[t]]
  <2>2. /\ saves' = [saves EXCEPT ![t] = Append(o, rec)] /\ UNCHANGED <<undo, mine>>
    BY <1>5 DEF Savepoint, histVars
  <2>3. \A u \in Txn : u # t => Good(u)
    BY <1>0, <1>3, <2>2
  <2>4. rec.mark = Len(undo[t]) /\ rec.mine = mine[t] /\ rec \in SaveRec
    BY <1>1 DEF SaveRec, Snapshots
  <2>5. \A i \in 1..Len(o) : \E j \in 1..Len(saves[t]) : o[i] = saves[t][j]
    BY OtherSavesType DEF TypeOK
  <2> HIDE DEF o, rec
  <2>6. /\ saves'[t] = Append(o, rec) /\ Len(saves'[t]) = Len(o) + 1 /\ Len(o) \in Nat
        /\ saves'[t][Len(o) + 1] = rec /\ \A i \in 1..Len(o) : saves'[t][i] = o[i]
    BY <1>0, <2>1, <2>2, <2>4 DEF o
  <2>7. ASSUME NEW i \in 1..Len(saves'[t])
        PROVE  MineIs(t, undo'[t], saves'[t][i].mark, saves'[t][i].mine)
    <3>1. i \in 1..Len(o) \/ i = Len(o) + 1
      BY <2>6
    <3>2. CASE i = Len(o) + 1
      BY <1>1, <2>2, <2>4, <2>6, <3>2
    <3>3. CASE i \in 1..Len(o)
      BY <1>1, <2>2, <2>5, <2>6, <3>3
    <3> QED BY <3>1, <3>2, <3>3
  <2> QED BY <1>1, <2>2, <2>3, <2>7
<1>6. ASSUME NEW t \in Txn, NEW name \in SaveName, RollbackTo(t, name) \/ ReleaseSavepoint(t, name)
      PROVE  \A u \in Txn : Good(u)
  <2> DEFINE a == SaveAt(t, name)
             mark == saves[t][a].mark
  <2>1. a \in 1..Len(saves[t])
    BY <1>6, SaveAtType DEF RollbackTo, ReleaseSavepoint
  <2>2. mark \in Nat /\ mark <= Len(undo[t])
    BY <1>1, <2>1
  <2>3. \/ /\ saves' = [saves EXCEPT ![t] = SubSeq(@, 1, a)]
           /\ undo' = [undo EXCEPT ![t] = SubSeq(@, 1, mark)]
           /\ mine' = [mine EXCEPT ![t] = saves[t][a].mine]
        \/ saves' = [saves EXCEPT ![t] = SubSeq(@, 1, a - 1)] /\ UNCHANGED <<undo, mine>>
    BY <1>6 DEF RollbackTo, ReleaseSavepoint, histVars
  <2> HIDE DEF a, mark
  <2>4. \A u \in Txn : u # t => Good(u)
    BY <1>0, <1>3, <2>3
  <2>5. CASE saves' = [saves EXCEPT ![t] = SubSeq(@, 1, a - 1)] /\ UNCHANGED <<undo, mine>>
    <3>1. /\ saves'[t] = SubSeq(saves[t], 1, a - 1) /\ Len(saves'[t]) = a - 1
          /\ \A i \in 1..(a - 1) : saves'[t][i] = saves[t][i] /\ i \in 1..Len(saves[t])
      BY <1>0, <1>1, <2>1, <2>5
    <3>2. Good(t)
      BY <1>1, <2>5, <3>1
    <3> QED BY <2>4, <3>2
  <2>6. CASE /\ saves' = [saves EXCEPT ![t] = SubSeq(@, 1, a)]
             /\ undo' = [undo EXCEPT ![t] = SubSeq(@, 1, mark)]
             /\ mine' = [mine EXCEPT ![t] = saves[t][a].mine]
    <3>1. /\ saves'[t] = SubSeq(saves[t], 1, a) /\ Len(saves'[t]) = a
          /\ \A i \in 1..a : saves'[t][i] = saves[t][i] /\ i \in 1..Len(saves[t])
      BY <1>0, <1>1, <2>1, <2>6
    <3>2. /\ undo'[t] = SubSeq(undo[t], 1, mark) /\ Len(undo'[t]) = mark
          /\ \A k \in 1..mark : undo'[t][k] = undo[t][k]
      BY <1>0, <1>1, <2>2, <2>6
    <3>3. mine'[t] = saves[t][a].mine
      BY <1>0, <2>6
    <3>4. MineIs(t, undo'[t], Len(undo'[t]), mine'[t])
      <4>1. MineIs(t, undo[t], mark, saves[t][a].mine)
        BY <1>1, <2>1 DEF mark
      <4>2. MineIs(t, undo'[t], mark, saves[t][a].mine)
        BY <2>2, <3>2, <4>1, MinePrefix
      <4> QED BY <3>2, <3>3, <4>2
    <3>5. ASSUME NEW i \in 1..a PROVE MineIs(t, undo'[t], saves[t][i].mark, saves[t][i].mine)
      <4>1. i \in 1..Len(saves[t]) /\ saves[t][i].mark \in Nat /\ saves[t][i].mark <= mark
        BY <1>1, <2>1, <3>1 DEF mark
      <4>2. \A k \in 1..saves[t][i].mark : undo'[t][k] = undo[t][k]
        BY <2>2, <3>2, <4>1
      <4> QED BY <1>1, <4>1, <4>2, MinePrefix
    <3>6. Good(t)
      BY <3>1, <3>4, <3>5
    <3> QED BY <2>4, <3>6
  <2> QED BY <2>3, <2>5, <2>6
<1>7. ASSUME NEW t \in Txn, Forget(t)
      PROVE  \A u \in Txn : Good(u)
  <2>1. /\ undo' = [undo EXCEPT ![t] = <<>>] /\ saves' = [saves EXCEPT ![t] = <<>>]
        /\ mine' = [mine EXCEPT ![t] = [r \in Row |-> Untouched]]
    BY <1>7 DEF Forget
  <2>2. \A u \in Txn : u # t => Good(u)
    BY <1>0, <1>3, <2>1
  <2>3. undo'[t] = <<>> /\ saves'[t] = <<>> /\ mine'[t] = [r \in Row |-> Untouched]
    BY <1>0, <2>1
  <2>4. Good(t)
    BY <2>3 DEF MineIs
  <2> QED BY <2>2, <2>4
<1>8. ASSUME NEW t \in Txn, Session(t)
      PROVE  \A u \in Txn : Good(u)
  <2>1. CASE Rollback(t) \/ CommitAtOnce(t) \/ CommitConflict(t) \/ CommitAppendFails(t)
    BY <1>7, <2>1 DEF Rollback, CommitAtOnce, CommitConflict, CommitAppendFails, Taken, FinishCommit
  <2>2. CASE UNCHANGED <<undo, saves, mine>>
    BY <1>3, <2>2
  <2> QED BY <1>4, <1>5, <1>6, <1>8, <2>1, <2>2
         DEF Session, Begin, BeginStatement, BeginFreshReads, EndFreshReads, Scan, IndexScan,
             WriteRefused, LockRow, LockRowRefused, LockTable, CommitStage, stateVars, histVars
<1>9. ASSUME NEW t \in Txn, Engine(t)
      PROVE  \A u \in Txn : Good(u)
  <2>1. CASE CommitFinish(t)
    BY <1>7, <2>1 DEF CommitFinish, FinishCommit
  <2>2. CASE UndoStep(t) \/ AbortEnd(t)
    BY <1>3, <2>2 DEF UndoStep, AbortEnd, stateVars, histVars
  <2> QED BY <1>9, <2>1, <2>2 DEF Engine
<1>10. ASSUME NEW p \in Purger, PurgePass(p) \/ PurgeYield(p)
       PROVE  UNCHANGED <<undo, saves, mine>>
  BY <1>10 DEF PurgePass, PurgeStart, PurgeTable, PurgeRow, PurgeTableEnd, PurgeEnd,
               PurgeYield, stateVars, histVars
<1>11. CASE UNCHANGED vars
  BY <1>2, <1>11 DEF vars, stateVars, histVars
<1>12. CASE \E t \in Txn : Session(t) \/ Engine(t)
  <2>1. \A u \in Txn : Good(u)
    BY <1>8, <1>9, <1>12
  <2> QED BY <2>1 DEF MineInv
<1> QED BY <1>2, <1>10, <1>11, <1>12 DEF Next

-----------------------------------------------------------------------------
(* The committed state                                                     *)

\* Read through the transactions that have ended, the store is the committed
\* state (a view takes "ended" for "committed").
CommittedInv == \A r \in Row : Value(Txn \ active, chain[r], committed[r])

\* Transactions leave `active` committed or aborted to the end, and the
\* committed state changes with a commit only.
LEMMA LeaveStep ==
    ASSUME LifeInv, [Next]_vars
    PROVE  /\ \A t \in active : t \notin active' =>
                  AbortEnd(t) \/ (t \in live /\ undoing[t] = <<>> /\ FinishCommit(t))
           /\ active \subseteq active' => UNCHANGED committed
<1>1. CASE active \subseteq active' /\ UNCHANGED committed
  BY <1>1
<1>2. ASSUME NEW t \in Txn, t \in live, undoing[t] = <<>>, FinishCommit(t)
      PROVE  /\ \A u \in active : u \notin active' =>
                    AbortEnd(u) \/ (u \in live /\ undoing[u] = <<>> /\ FinishCommit(u))
             /\ ~(active \subseteq active')
  <2>1. t \in active /\ active' = active \ {t}
    BY <1>2 DEF FinishCommit, LifeInv
  <2> QED BY <1>2, <2>1
<1>3. ASSUME NEW t \in Txn, Session(t)
      PROVE  (t \in live /\ undoing[t] = <<>> /\ FinishCommit(t))
             \/ (active \subseteq active' /\ UNCHANGED committed)
  BY <1>3 DEF Session, Begin, BeginStatement, BeginFreshReads, EndFreshReads, Scan, IndexScan,
         Insert, Update, Delete, WriteRefused, LockRow, LockRowRefused, LockTable, Savepoint,
         RollbackTo, ReleaseSavepoint, Rollback, CommitStage, CommitAtOnce, CommitConflict,
         CommitAppendFails, Taken, Idle, txnVars, histVars
<1>4. ASSUME NEW t \in Txn, CommitFinish(t)
      PROVE  t \in live /\ undoing[t] = <<>> /\ FinishCommit(t)
  BY <1>4 DEF CommitFinish, LifeInv
<1>5. ASSUME NEW t \in Txn, UndoStep(t)
      PROVE  active \subseteq active' /\ UNCHANGED committed
  BY <1>5 DEF UndoStep, txnVars, histVars
<1>6. ASSUME NEW t \in Txn, AbortEnd(t)
      PROVE  /\ \A u \in active : u \notin active' => AbortEnd(u)
             /\ UNCHANGED committed
  <2>1. active' = active \ {t} /\ UNCHANGED committed
    BY <1>6 DEF AbortEnd
  <2> QED BY <1>6, <2>1
<1>7. ASSUME NEW p \in Purger, PurgePass(p) \/ PurgeYield(p)
      PROVE  active \subseteq active' /\ UNCHANGED committed
  BY <1>7 DEF PurgePass, PurgeStart, PurgeTable, PurgeRow, PurgeTableEnd, PurgeEnd,
              PurgeYield, txnVars, histVars
<1>8. CASE UNCHANGED vars
  BY <1>1, <1>8 DEF vars, txnVars, histVars
<1> QED BY <1>1, <1>2, <1>3, <1>4, <1>5, <1>6, <1>7, <1>8 DEF Next, Engine

\* A row that is not in t's log carries no stamp of t.
LEMMA UntouchedRow ==
    ASSUME NEW t, NEW L, NEW r, NEW c, Linked(t, L, r, c),
           \A k \in 1..Len(L) : L[k].row # r
    PROVE  \A i \in 1..Len(c) : c[i].xmin # t /\ c[i].xmax # t
  BY DEF Linked, LastOn

\* The value a commit gives to a row, read through the transactions S that
\* counted before, all the ended ones among them, and the committing one.
LEMMA CommitValue ==
    ASSUME NEW t \in Txn, t \in active, NEW S, S \subseteq Txn, Txn \ active \subseteq S, t \notin S,
           NEW L \in Seq(UndoOp), NEW m, MineIs(t, L, Len(L), m),
           NEW r \in Row, NEW c \in Seq(Version),
           Linked(t, L, r, c), TopStamp(t, L, r, c), Ordered(active, c),
           NEW old, Value(S, c, old)
    PROVE  Value(S \cup {t}, c, IF m[r] = Untouched THEN old ELSE m[r])
<1> DEFINE T == S \cup {t}
<1>0. NoTxn \notin T /\ t \in T /\ t \notin S /\ (\A x : x # t => (x \in S <=> x \in T))
      /\ Txn \ active \subseteq T
  BY DEF Txn, NoTxn
<1>1. CASE (\A k \in 1..Len(L) : L[k].row # r) /\ m[r] = Untouched
  <2>1. \A i \in 1..Len(c) : c[i].xmin # t /\ c[i].xmax # t
    BY <1>1, UntouchedRow
  <2> HIDE DEF T
  <2>2. Value(T, c, old)
    BY <1>0, <2>1, ValueSame
  <2> QED BY <1>1, <2>2 DEF T
<1>2. ASSUME NEW k \in 1..Len(L), L[k].row = r, \A j \in (k + 1)..Len(L) : L[j].row # r,
             m[r] = IF L[k].op = "Deleted" THEN NoTuple ELSE <<t, k>>
      PROVE  Value(T, c, IF m[r] = Untouched THEN old ELSE m[r])
  <2>1. LastOn(L, r, k)
    BY <1>2 DEF LastOn
  <2>2. m[r] # Untouched
    BY <1>2 DEF Untouched, NoTuple, Txn
  <2>3. /\ c # <<>> /\ Len(c) > 0 /\ 1 \in 1..Len(c)
        /\ IF L[k].op = "Deleted" THEN c[1].xmax = t ELSE c[1] = NewVersion(t, k)
    BY <2>1 DEF TopStamp
  <2> HIDE DEF T
  <2>4. CASE L[k].op = "Deleted"
    <3>1. c[1] \in Version /\ t # NoTxn
      BY <2>3 DEF Txn, NoTxn
    <3>2. c[1].xmin \in active => c[1].xmin = t
      BY <2>3, <2>4, <3>1 DEF Ordered
    <3>3. c[1].xmin \in T /\ c[1].xmax \in T
      BY <1>0, <2>3, <2>4, <3>1, <3>2 DEF Version
    <3>4. Value(T, c, NoTuple)
      BY <2>3, <3>3, TopValue
    <3> QED BY <1>2, <2>2, <2>4, <3>4
  <2>5. CASE L[k].op # "Deleted"
    <3>1. c[1].xmin = t /\ c[1].xmax = NoTxn /\ c[1].tuple = <<t, k>>
      BY <2>3, <2>5 DEF NewVersion
    <3>2. Value(T, c, <<t, k>>)
      BY <1>0, <2>3, <3>1, TopValue
    <3> QED BY <1>2, <2>2, <2>5, <3>2
  <2> QED BY <2>4, <2>5
<1> QED BY <1>1, <1>2 DEF MineIs

\* The undo of t's last operation reverts it on its row.
LEMMA PoppedReverts ==
    ASSUME VersionInv, NEW t \in Txn, Popped(t)
    PROVE  LET op == LastOp(t)
               r == op.row
           IN  /\ op \in UndoOp /\ r \in Row /\ (op.op # "Inserted" => op.old.xmax = NoTxn)
               /\ chain' = [chain EXCEPT ![r] = chain'[r]]
               /\ Reverted(t, op, Len(Log(t)), chain[r], chain'[r])
<1> DEFINE L == Log(t)
           op == L[Len(L)]
           r == op.row
<1>1. L \in Seq(UndoOp) /\ L # <<>>
      /\ \A k \in 1..Len(L) : L[k].op # "Inserted" => L[k].old.xmax = NoTxn
  BY LogType DEF VersionInv, Popped
<1>2. Len(L) \in 1..Len(L) /\ op \in UndoOp
  BY <1>1
<1>3. r \in Row
  BY <1>2 DEF UndoOp
<1>4. chain \in [Row -> Seq(Version)] /\ t \in active
  BY DEF VersionInv, BaseInv, LockInv, TypeOK, RowTypeOK, Popped
<1>5. chain' = [chain EXCEPT ![r] = Undone(op, chain[r])]
  BY DEF Popped, LastOp
<1>6. chain'[r] = Undone(op, chain[r]) /\ chain' = [chain EXCEPT ![r] = chain'[r]]
  BY <1>3, <1>4, <1>5
<1>7. TopStamp(t, L, r, chain[r]) /\ Linked(t, L, r, chain[r])
  BY <1>3, <1>4 DEF VersionInv, StoryInv
<1>8. Reverted(t, op, Len(L), chain[r], Undone(op, chain[r]))
  BY <1>1, <1>2, <1>3, <1>4, <1>7, UndoneReverts
<1> QED BY <1>1, <1>2, <1>3, <1>6, <1>8 DEF LastOp

\* Every step keeps the committed state what the ended transactions left.
LEMMA CommittedStep ==
    ASSUME VersionInv, MineInv, CommittedInv, [Next]_vars
    PROVE  CommittedInv'
<1> USE MvccAssumption
<1>0. /\ BaseInv /\ LockInv /\ TypeOK /\ TypeOK' /\ LifeInv /\ HorizonInv
      /\ chain \in [Row -> Seq(Version)] /\ chain' \in [Row -> Seq(Version)]
      /\ active \subseteq Txn /\ active \subseteq Nat /\ nextTxn \in Nat
  <2>1. BaseInv /\ LockInv /\ LifeInv /\ HorizonInv /\ TypeOK /\ SavesInv
    BY DEF VersionInv, BaseInv, LockInv
  <2>2. TypeOK'
    BY <2>1, TypeStep
  <2> QED BY <2>1, <2>2 DEF TypeOK, RowTypeOK, TxnTypeOK, Txn
<1>1. /\ \A u \in active, q \in Row : Linked(u, Log(u), q, chain[q])
      /\ \A u \in Txn, q \in Row : TopStamp(u, Log(u), q, chain[q])
      /\ \A q \in Row : Ordered(active, chain[q])
  BY DEF VersionInv, StoryInv
<1>2. \A q \in Row : Value(Txn \ active, chain[q], committed[q])
  BY DEF CommittedInv
<1>3. \A q \in Row : chain[q] \in Seq(Version) /\ chain'[q] \in Seq(Version)
  BY <1>0
<1>4. CASE UNCHANGED <<active, chain>>
  <2>1. UNCHANGED committed
    BY <1>0, <1>4, LeaveStep
  <2> QED BY <1>2, <1>4, <2>1 DEF CommittedInv
<1>5. ASSUME NEW t \in Txn, Opened(t)
      PROVE  CommittedInv'
  <2>1. t = nextTxn /\ active' = active \cup {t} /\ UNCHANGED chain
    BY <1>5 DEF Opened
  <2>2. UNCHANGED committed
    BY <1>0, <2>1, LeaveStep
  <2>3. ASSUME NEW q \in Row PROVE Value(Txn \ active', chain[q], committed[q])
    <3>1. \A i \in 1..Len(chain[q]) : chain[q][i].xmin < nextTxn /\ chain[q][i].xmax < nextTxn
      BY <1>0 DEF LockInv, StampsLocked, ChainLocked
    <3>2. \A i \in 1..Len(chain[q]) : chain[q][i].xmin # t /\ chain[q][i].xmax # t
      BY <1>0, <2>1, <3>1
    <3>3. \A i \in 1..Len(chain[q]) :
            /\ chain[q][i].xmin \in Txn \ active <=> chain[q][i].xmin \in Txn \ active'
            /\ chain[q][i].xmax \in Txn \ active <=> chain[q][i].xmax \in Txn \ active'
      BY <2>1, <3>2
    <3> QED BY <1>2, <1>3, <3>3, ValueSame
  <2> QED BY <2>1, <2>2, <2>3 DEF CommittedInv
<1>6. ASSUME NEW r \in Row, chain' = [chain EXCEPT ![r] = chain'[r]], UNCHANGED active,
             Value(Txn \ active, chain'[r], committed[r])
      PROVE  CommittedInv'
  <2>1. UNCHANGED committed
    BY <1>0, <1>6, LeaveStep
  <2>2. \A q \in Row : q # r => chain'[q] = chain[q]
    BY <1>0, <1>6
  <2>3. ASSUME NEW q \in Row PROVE Value(Txn \ active, chain'[q], committed[q])
    BY <1>2, <1>6, <2>2
  <2> QED BY <1>6, <2>1, <2>3 DEF CommittedInv
<1>7. ASSUME NEW t \in Txn, NEW r \in Row, NEW op \in UndoOp, Wrote(t, r, op)
      PROVE  CommittedInv'
  <2>1. /\ t \in active /\ chain' = [chain EXCEPT ![r] = chain'[r]] /\ UNCHANGED active
        /\ Pushed(t, Len(Log(t)) + 1, op, chain[r], chain'[r])
    BY <1>0, <1>7 DEF Wrote, LifeInv
  <2> DEFINE S == Txn \ active
  <2>2. S \subseteq Txn /\ t \notin S
    BY <2>1
  <2>3. Value(S, chain[r], committed[r])
    BY <1>2
  <2> HIDE DEF S
  <2>4. Value(S, chain'[r], committed[r])
    BY <1>3, <2>1, <2>2, <2>3, PushedValue
  <2> QED BY <1>6, <2>1, <2>4 DEF S
<1>8. ASSUME NEW t \in Txn, Popped(t)
      PROVE  CommittedInv'
  <2>1. PICK op, r : op = LastOp(t) /\ r = op.row
    OBVIOUS
  <2>2. /\ r \in Row /\ (op.op # "Inserted" => op.old.xmax = NoTxn)
        /\ chain' = [chain EXCEPT ![r] = chain'[r]]
        /\ Reverted(t, op, Len(Log(t)), chain[r], chain'[r])
    BY <1>8, <2>1, PoppedReverts
  <2>3. t \in active /\ UNCHANGED active
    BY <1>8 DEF Popped
  <2> DEFINE S == Txn \ active
  <2>4. S \subseteq Txn /\ t \notin S
    BY <2>3
  <2>5. Value(S, chain[r], committed[r])
    BY <1>2, <2>2
  <2> HIDE DEF S
  <2>6. Value(S, chain'[r], committed[r])
    BY <1>3, <2>2, <2>4, <2>5, RevertedValue
  <2> QED BY <1>6, <2>2, <2>3, <2>6 DEF S
<1>9. ASSUME NEW p \in Purger, NEW r \in Row, Purged(p, r)
      PROVE  CommittedInv'
  <2>1. /\ purge[p].on /\ chain[r] # <<>> /\ UNCHANGED active
        /\ chain' = [chain EXCEPT ![r] = PurgedChain(p, chain[r])]
    BY <1>9 DEF Purged
  <2>2. chain'[r] = PurgedChain(p, chain[r]) /\ chain' = [chain EXCEPT ![r] = chain'[r]]
    BY <1>0, <2>1
  <2> DEFINE S == Txn \ active
             c == chain[r]
  <2>3. c[1] \in Version /\ 1 \in 1..Len(c)
    BY <1>3, <2>1
  <2>4. c[1].xmin \in Txn /\ c[1].xmax \in Txn \cup {NoTxn} /\ Txn \subseteq Nat /\ NoTxn \notin Txn
    BY <2>3 DEF Version, Txn, NoTxn
  <2>5. \A x \in {c[1].xmin, c[1].xmax} : x # NoTxn /\ Settled(p, x) => x \in S
    <3>1. \A x \in Txn : Settled(p, x) => x \notin active
      BY <1>0, <2>1, <2>4, SettledHasEnded
    <3> QED BY <2>4, <3>1
  <2>6. c[1].xmax \in S => c[1].xmin \in S
    <3>1. c[1].xmin \in active /\ c[1].xmax # NoTxn => c[1].xmax = c[1].xmin
      BY <1>1, <2>3 DEF Ordered
    <3> QED BY <2>4, <3>1
  <2>7. S \subseteq Txn /\ Value(S, c, committed[r]) /\ c \in Seq(Version) /\ c # <<>>
    BY <1>2, <1>3, <2>1
  <2> HIDE DEF S, c
  <2>8. Value(S, PurgedChain(p, c), committed[r])
    BY <2>5, <2>6, <2>7, PurgedValue
  <2> QED BY <1>6, <2>1, <2>2, <2>8 DEF S, c
<1>10. ASSUME NEW t \in Txn, Left(t)
       PROVE  CommittedInv'
  <2>1. t \in active /\ active' = active \ {t} /\ UNCHANGED chain
    BY <1>10 DEF Left
  <2>2. AbortEnd(t) \/ (t \in live /\ undoing[t] = <<>> /\ FinishCommit(t))
    BY <1>0, <2>1, LeaveStep
  <2>3. Log(t) \in Seq(UndoOp)
    BY <1>0, LogType
  <2>4. CASE AbortEnd(t)
    <3>1. Log(t) = <<>> /\ UNCHANGED committed
      <4>1. undo[t] = <<>> /\ undoing[t] = <<>> /\ UNCHANGED committed
        BY <1>0, <2>4 DEF AbortEnd, LifeInv
      <4>2. <<>> \o <<>> = <<>>
        BY ConcatEmptySeq
      <4> QED BY <4>1, <4>2 DEF Log
    <3>2. ASSUME NEW q \in Row PROVE Value(Txn \ active', chain[q], committed[q])
      <4>1. \A i \in 1..Len(chain[q]) : chain[q][i].xmin # t /\ chain[q][i].xmax # t
        <5>1. \A k \in 1..Len(Log(t)) : Log(t)[k].row # q
          BY <3>1
        <5> QED BY <1>1, <2>1, <5>1, UntouchedRow
      <4>2. \A i \in 1..Len(chain[q]) :
              /\ chain[q][i].xmin \in Txn \ active <=> chain[q][i].xmin \in Txn \ active'
              /\ chain[q][i].xmax \in Txn \ active <=> chain[q][i].xmax \in Txn \ active'
        BY <2>1, <4>1
      <4> QED BY <1>2, <1>3, <4>2, ValueSame
    <3> QED BY <2>1, <3>1, <3>2 DEF CommittedInv
  <2>5. CASE t \in live /\ undoing[t] = <<>> /\ FinishCommit(t)
    <3>1. Log(t) = undo[t]
      <4>1. undo[t] \in Seq(UndoOp)
        BY <1>0 DEF TypeOK, LogTypeOK
      <4> QED BY <2>5, <4>1, ConcatEmptySeq DEF Log
    <3>2. MineIs(t, Log(t), Len(Log(t)), mine[t])
      BY <3>1 DEF MineInv
    <3>3. \A q \in Row : committed'[q] = IF mine[t][q] = Untouched THEN committed[q] ELSE mine[t][q]
      BY <2>5 DEF FinishCommit, WithWrites
    <3>4. ASSUME NEW q \in Row PROVE Value(Txn \ (active \ {t}), chain[q], committed'[q])
      <4>1. Linked(t, Log(t), q, chain[q]) /\ TopStamp(t, Log(t), q, chain[q])
            /\ Ordered(active, chain[q])
        BY <1>1, <2>1
      <4> DEFINE S == Txn \ active
      <4>2. /\ S \subseteq Txn /\ Txn \ active \subseteq S /\ t \notin S
            /\ Value(S, chain[q], committed[q]) /\ S \cup {t} = Txn \ (active \ {t})
        BY <1>2, <2>1
      <4> HIDE DEF S
      <4>3. Value(S \cup {t}, chain[q],
                  IF mine[t][q] = Untouched THEN committed[q] ELSE mine[t][q])
        BY <1>3, <2>1, <2>3, <3>2, <4>1, <4>2, CommitValue
      <4> QED BY <3>3, <4>2, <4>3
    <3> QED BY <2>1, <3>4 DEF CommittedInv
  <2> QED BY <2>2, <2>4, <2>5
<1>11. CASE Quiet
  BY <1>4, <1>11 DEF Quiet
<1> QED BY <1>0, <1>5, <1>7, <1>8, <1>9, <1>10, <1>11, StepKinds DEF StepKind

-----------------------------------------------------------------------------
(* Held views                                                              *)

\* The views a transaction holds, with what was committed when it took them:
\* the statement snapshot, and the one saved behind a fresh read.
Holds(t) == {<<pinned[t], snap[t]>>}
            \cup (IF fresh[t].depth > 0 THEN {<<fresh[t].saved, fresh[t].savedSnap>>} ELSE {})

\* A view that sees a row's deleter sees its creator; and when the view's own
\* transaction deleted the row, no version the view does not see hides an older.
RowSeen(t, v, c) ==
    c # <<>> => /\ c[1].xmax \in SeenBy(v) => c[1].xmin \in SeenBy(v)
                /\ c[1].xmax = t => Len(c) = 1 \/ Sees(v, c[1].xmin)

\* View v, held by t since s was committed: whoever was unfinished then, and is
\* not t, is invisible, and through v the store still reads s.
ViewOK(t, v, s) ==
    /\ v \in View /\ v.own = t /\ v.horizon <= nextTxn
    /\ \A u \in active \ {t} : u < v.horizon => u \in v.active
    /\ \A r \in Row : Value(SeenBy(v), chain[r], s[r]) /\ RowSeen(t, v, chain[r])
ViewsInv == \A t \in live : \A h \in Holds(t) : ViewOK(t, h[1], h[2])

\* A purge pass knows every view that was held when it started; a view taken
\* since sees everything the pass may take for settled.
PurgeViewsInv ==
    \A p \in Purger, t \in live : \A h \in Holds(t) : purge[p].on =>
        \/ h[1] \in purge[p].views
        \/ \A x \in Txn : x < purge[p].horizon /\ x \notin purge[p].active => x \in SeenBy(h[1])

\* A transaction that is not in the map reads fresh nowhere.
FreshInv == \A t \in Txn : t \notin live => fresh[t].depth = 0

\* A view is held on, or it is new, and then it is the current one.
LEMMA HoldStep ==
    ASSUME LockInv, FreshInv, [Next]_vars
    PROVE  /\ FreshInv'
           /\ \A t \in live' : \A h \in Holds(t)' :
                 \/ t \in live /\ h \in Holds(t)
                 \/ /\ h = <<FreshView(t, active', nextTxn'), committed>>
                    /\ UNCHANGED <<chain, committed, purge>>
<1> DEFINE Held(t, h) == t \in live /\ h \in Holds(t)
           New(t, h) == /\ h = <<FreshView(t, active', nextTxn'), committed>>
                        /\ UNCHANGED <<chain, committed, purge>>
           Good == /\ FreshInv'
                   /\ \A t \in live' : \A h \in Holds(t)' : Held(t, h) \/ New(t, h)
<1>0. /\ pinned \in [Txn -> AnyView] /\ snap \in [Txn -> Snapshots]
      /\ fresh \in [Txn -> FreshState] /\ live \subseteq Txn /\ nextTxn \in Nat
      /\ \A u \in live : u < nextTxn
      /\ \A u \in Txn : u \notin live => fresh[u].depth = 0
      /\ live' \subseteq Txn
  <2>1. TypeOK /\ SavesInv
    BY DEF LockInv
  <2>2. TypeOK'
    BY <2>1, TypeStep
  <2> QED BY <2>1, <2>2 DEF LockInv, IdsBelow, FreshInv, TypeOK, TxnTypeOK, ViewTypeOK, HistTypeOK
<1>1. ASSUME NEW t \in Txn, t \in live, pinned'[t] = pinned[t], snap'[t] = snap[t],
             fresh'[t] = fresh[t], NEW h \in Holds(t)'
      PROVE  Held(t, h)
  BY <1>1 DEF Holds
<1>2. CASE UNCHANGED <<live, pinned, snap, fresh>>
  BY <1>0, <1>1, <1>2 DEF FreshInv
<1>3. ASSUME NEW u \in Txn, NEW lvl \in Level, Begin(u, lvl)
      PROVE  Good
  <2>1. /\ live' = live \cup {u} /\ UNCHANGED <<fresh, chain, committed, purge>> /\ u = nextTxn
        /\ pinned' = [pinned EXCEPT ![u] = FreshView(u, active', nextTxn')]
        /\ snap' = [snap EXCEPT ![u] = committed]
    BY <1>3 DEF Begin, rowVars
  <2>2. FreshInv'
    BY <1>0, <2>1 DEF FreshInv
  <2>3. ASSUME NEW t \in live', NEW h \in Holds(t)'
        PROVE  Held(t, h) \/ New(t, h)
    <3>1. CASE t # u
      BY <1>0, <1>1, <2>1, <3>1
    <3>2. CASE t = u
      <4>1. fresh'[t].depth = 0
        <5>1. ~(u < nextTxn)
          BY <1>0, <2>1
        <5>2. t \notin live
          BY <1>0, <3>2, <5>1
        <5> QED BY <1>0, <2>1, <3>2, <5>2
      <4>2. h = <<pinned'[t], snap'[t]>>
        BY <4>1 DEF Holds
      <4> QED BY <1>0, <2>1, <3>2, <4>2
    <3> QED BY <3>1, <3>2
  <2> QED BY <2>2, <2>3
<1>4. ASSUME NEW u \in Txn, Forget(u)
      PROVE  Good
  <2>1. /\ live' = live \ {u} /\ fresh' = [fresh EXCEPT ![u] = NoFresh]
        /\ pinned' = [pinned EXCEPT ![u] = NoView]
        /\ snap' = [snap EXCEPT ![u] = [r \in Row |-> NoTuple]]
    BY <1>4 DEF Forget
  <2>2. NoFresh.depth = 0
    BY DEF NoFresh
  <2>3. FreshInv'
    BY <1>0, <2>1, <2>2 DEF FreshInv
  <2>4. ASSUME NEW t \in live', NEW h \in Holds(t)' PROVE Held(t, h)
    BY <1>0, <1>1, <2>1
  <2> QED BY <2>3, <2>4
<1>5. ASSUME NEW u \in Txn, BeginStatement(u) \/ BeginFreshReads(u) \/ EndFreshReads(u)
      PROVE  Good
  <2>1. /\ u \in live /\ UNCHANGED <<live, active, nextTxn, chain, committed, purge>>
        /\ pinned' = [pinned EXCEPT ![u] = pinned'[u]]
        /\ snap' = [snap EXCEPT ![u] = snap'[u]]
        /\ fresh' = [fresh EXCEPT ![u] = fresh'[u]]
    BY <1>0, <1>5 DEF BeginStatement, BeginFreshReads, EndFreshReads, Idle, txnVars, rowVars
  <2>2. FreshInv'
    BY <1>0, <2>1 DEF FreshInv
  <2>3. ASSUME NEW t \in live', NEW h \in Holds(t)', t # u PROVE Held(t, h)
    BY <1>0, <1>1, <2>1, <2>3
  <2>4. fresh[u] \in FreshState /\ fresh[u].depth \in Nat
    BY <1>0 DEF FreshState
  <2>5. ASSUME NEW h \in Holds(u)' PROVE Held(u, h) \/ New(u, h)
    <3>0. /\ h = <<pinned'[u], snap'[u]>>
             \/ (fresh'[u].depth > 0 /\ h = <<fresh'[u].saved, fresh'[u].savedSnap>>)
      BY <2>5 DEF Holds
    <3>1. CASE BeginStatement(u)
      <4>1. /\ pinned'[u] = FreshView(u, active', nextTxn') /\ snap'[u] = committed
            /\ fresh'[u] = fresh[u]
        BY <1>0, <3>1 DEF BeginStatement, txnVars
      <4> QED BY <2>1, <3>0, <4>1 DEF Holds
    <3>2. CASE BeginFreshReads(u)
      <4>1. /\ pinned'[u] = FreshView(u, active', nextTxn') /\ snap'[u] = committed
            /\ fresh'[u] = IF fresh[u].depth = 0
                           THEN [depth |-> 1, saved |-> pinned[u], savedSnap |-> snap[u]]
                           ELSE [fresh[u] EXCEPT !.depth = @ + 1]
        BY <1>0, <3>2 DEF BeginFreshReads, txnVars
      <4>2. CASE fresh[u].depth = 0
        BY <2>1, <3>0, <4>1, <4>2 DEF Holds
      <4>3. CASE fresh[u].depth # 0
        <5>1. fresh[u].depth > 0
          BY <2>4, <4>3
        <5>2. fresh'[u].saved = fresh[u].saved /\ fresh'[u].savedSnap = fresh[u].savedSnap
          BY <2>4, <4>1, <4>3 DEF FreshState
        <5> QED BY <2>1, <3>0, <4>1, <5>1, <5>2 DEF Holds
      <4> QED BY <4>2, <4>3
    <3>3. CASE EndFreshReads(u)
      <4>1. CASE fresh[u].depth = 1
        <5>1. /\ pinned'[u] = fresh[u].saved /\ snap'[u] = fresh[u].savedSnap
              /\ fresh'[u] = NoFresh
          BY <1>0, <3>3, <4>1 DEF EndFreshReads
        <5> QED BY <2>1, <3>0, <4>1, <5>1 DEF Holds, NoFresh
      <4>2. CASE fresh[u].depth # 1
        <5>1. /\ pinned'[u] = pinned[u] /\ snap'[u] = snap[u] /\ fresh[u].depth > 0
              /\ fresh'[u] = [fresh[u] EXCEPT !.depth = @ - 1]
          BY <1>0, <3>3, <4>2 DEF EndFreshReads
        <5>2. fresh'[u].saved = fresh[u].saved /\ fresh'[u].savedSnap = fresh[u].savedSnap
          BY <2>4, <5>1 DEF FreshState
        <5> QED BY <2>1, <3>0, <5>1, <5>2 DEF Holds
      <4> QED BY <4>1, <4>2
    <3> QED BY <1>5, <3>1, <3>2, <3>3
  <2> QED BY <2>2, <2>3, <2>5
<1>6. ASSUME NEW u \in Txn, Session(u)
      PROVE  Good
  <2>1. CASE Rollback(u) \/ CommitAtOnce(u) \/ CommitConflict(u) \/ CommitAppendFails(u)
    BY <1>4, <2>1 DEF Rollback, CommitAtOnce, CommitConflict, CommitAppendFails, Taken, FinishCommit
  <2> QED BY <1>2, <1>3, <1>5, <1>6, <2>1
         DEF Session, Scan, IndexScan, Insert, Update, Delete, WriteRefused, LockRow,
             LockRowRefused, LockTable, Savepoint, RollbackTo, ReleaseSavepoint, CommitStage,
             txnVars, stateVars, histVars
<1>7. ASSUME NEW u \in Txn, Engine(u)
      PROVE  Good
  <2>1. CASE CommitFinish(u)
    BY <1>4, <2>1 DEF CommitFinish, FinishCommit
  <2>2. CASE UndoStep(u) \/ AbortEnd(u)
    BY <1>2, <2>2 DEF UndoStep, AbortEnd, txnVars, stateVars, histVars
  <2> QED BY <1>7, <2>1, <2>2 DEF Engine
<1>8. ASSUME NEW p \in Purger, PurgePass(p) \/ PurgeYield(p)
      PROVE  Good
  BY <1>2, <1>8 DEF PurgePass, PurgeStart, PurgeTable, PurgeRow, PurgeTableEnd, PurgeEnd,
                    PurgeYield, txnVars, stateVars, histVars
<1>9. CASE UNCHANGED vars
  BY <1>2, <1>9 DEF vars, txnVars, stateVars, histVars
<1> QED BY <1>6, <1>7, <1>8, <1>9 DEF Next

\* A view just taken, of the unfinished transactions act and the next id: it
\* reads what is committed.
LEMMA NewViewReads ==
    ASSUME NEW act, act \subseteq Txn, NEW next \in 1..(MaxTxn + 1), NEW t \in Txn, t \in act,
           NEW c \in Seq(Version), NEW val, Value(Txn \ act, c, val), Ordered(act, c),
           \A i \in 1..Len(c) : c[i].xmin < next /\ c[i].xmax < next,
           NEW v, v = FreshView(t, act, next)
    PROVE  Value(SeenBy(v), c, val) /\ RowSeen(t, v, c)
<1>1. v.own = t /\ v.active = act \ {t} /\ v.horizon = next
  BY DEF FreshView
<1>2. SeenBy(v) = {x \in Txn : x < next /\ x \notin act}
  BY <1>1 DEF SeenBy
<1>3. \A i \in 1..Len(c) : c[i] \in Version
  OBVIOUS
<1>4. \A i \in 1..Len(c) : /\ c[i].xmin \in Txn \ act <=> c[i].xmin \in SeenBy(v)
                           /\ c[i].xmax \in Txn \ act <=> c[i].xmax \in SeenBy(v)
  BY <1>2, <1>3
<1>5. Value(SeenBy(v), c, val)
  <2> DEFINE S == Txn \ act
             T == SeenBy(v)
  <2>1. Value(S, c, val) /\ \A i \in 1..Len(c) : (c[i].xmin \in S <=> c[i].xmin \in T)
                                                 /\ (c[i].xmax \in S <=> c[i].xmax \in T)
    BY <1>4
  <2> HIDE DEF S, T
  <2> QED BY <2>1, ValueSame DEF T
<1>6. ASSUME c # <<>>
      PROVE  /\ c[1].xmax \in SeenBy(v) => c[1].xmin \in SeenBy(v)
             /\ c[1].xmax = t => Len(c) = 1 \/ Sees(v, c[1].xmin)
  <2>1. 1 \in 1..Len(c) /\ c[1] \in Version
    BY <1>3, <1>6
  <2>2. c[1].xmin \in Txn /\ c[1].xmin < next /\ NoTxn \notin Txn
    BY <2>1 DEF Version, Txn, NoTxn
  <2>3. c[1].xmin \in act /\ c[1].xmax \in Txn => c[1].xmax = c[1].xmin
    BY <2>1, <2>2 DEF Ordered
  <2>4. c[1].xmax \in SeenBy(v) => c[1].xmin \in SeenBy(v)
    BY <1>2, <2>2, <2>3
  <2>5. ASSUME c[1].xmax = t PROVE Sees(v, c[1].xmin)
    BY <1>1, <2>2, <2>3, <2>5 DEF Sees
  <2> QED BY <2>4, <2>5
<1> QED BY <1>5, <1>6 DEF RowSeen

\* Whatever a step does to a row, a held view reads from it what it read.
LEMMA HeldRow ==
    ASSUME VersionInv, ViewsInv, PurgeViewsInv, [Next]_vars,
           NEW t \in live, NEW h \in Holds(t), NEW r \in Row
    PROVE  Value(SeenBy(h[1]), chain'[r], h[2][r]) /\ RowSeen(t, h[1], chain'[r])
<1> DEFINE v == h[1]
           S == SeenBy(v)
           c == chain[r]
           d == chain'[r]
<1> USE MvccAssumption
<1>0. /\ BaseInv /\ LockInv /\ TypeOK /\ LifeInv /\ HorizonInv
      /\ chain \in [Row -> Seq(Version)] /\ chain' \in [Row -> Seq(Version)]
      /\ active \subseteq Txn /\ live \subseteq active /\ t \in Txn
  <2>1. BaseInv /\ LockInv /\ LifeInv /\ HorizonInv /\ TypeOK /\ SavesInv
    BY DEF VersionInv, BaseInv, LockInv
  <2>2. TypeOK'
    BY <2>1, TypeStep
  <2> QED BY <2>1, <2>2 DEF TypeOK, RowTypeOK, TxnTypeOK, LifeInv
<1>1. ViewOK(t, v, h[2])
  BY DEF ViewsInv
<1>2. /\ v.own = t /\ S \subseteq Txn /\ NoTxn \notin S /\ t # NoTxn /\ t \notin S
      /\ \A u \in active : u \notin S
  <2>1. /\ v.own = t /\ \A u \in active \ {t} : u < v.horizon => u \in v.active
    BY <1>1 DEF ViewOK
  <2> QED BY <1>0, <2>1 DEF SeenBy, Txn, NoTxn
<1>3. Value(S, c, h[2][r]) /\ RowSeen(t, v, c)
  BY <1>1 DEF ViewOK
<1>4. c \in Seq(Version) /\ d \in Seq(Version)
  BY <1>0
<1>5. CASE d = c
  BY <1>3, <1>5
<1>6. ASSUME NEW u \in Txn, NEW op \in UndoOp, Wrote(u, r, op)
      PROVE  Value(S, d, h[2][r]) /\ RowSeen(t, v, d)
  <2>1. /\ u \in live /\ u \in active /\ Pushed(u, Len(Log(u)) + 1, op, c, d)
        /\ op.op = "Deleted" => DeletesFresh(u, r)
    BY <1>0, <1>6 DEF Wrote
  <2> HIDE DEF S, c, d, v
  <2>2. Value(S, d, h[2][r])
    BY <1>2, <1>3, <1>4, <2>1, PushedValue
  <2>3. CASE op.op = "Deleted" /\ c # <<>> /\ WriteOver(u, c[1])
             /\ d = [c EXCEPT ![1] = [c[1] EXCEPT !.xmax = u]]
    <3>1. c[1] \in Version /\ 1 \in 1..Len(c)
      BY <1>4, <2>3
    <3> DEFINE w == [c[1] EXCEPT !.xmax = u]
    <3>2. w.xmax = u /\ w.xmin = c[1].xmin
      BY <3>1 DEF Version
    <3> HIDE DEF w
    <3>3. d[1] = w /\ Len(d) = Len(c)
      BY <1>4, <2>3, <3>1 DEF w
    <3>4. ASSUME u = t PROVE Len(d) = 1 \/ Sees(v, d[1].xmin)
      <4>1. CASE fresh[t].depth > 0
        BY <2>1, <2>3, <3>3, <3>4, <4>1 DEF DeletesFresh, c
      <4>2. CASE ~(fresh[t].depth > 0)
        <5>1. v = pinned[t]
          BY <4>2 DEF Holds, v
        <5> QED BY <2>3, <3>2, <3>3, <3>4, <5>1 DEF WriteOver
      <4> QED BY <4>1, <4>2
    <3>5. d[1].xmax \notin S /\ (d[1].xmax = t => u = t)
      BY <1>2, <2>1, <3>2, <3>3
    <3>6. RowSeen(t, v, d)
      BY <3>4, <3>5 DEF RowSeen, S
    <3> QED BY <2>2, <3>6
  <2>4. CASE d = <<NewVersion(u, Len(Log(u)) + 1)>> \/ d = <<NewVersion(u, Len(Log(u)) + 1)>> \o c
    <3> DEFINE w == NewVersion(u, Len(Log(u)) + 1)
    <3>1. w.xmax = NoTxn
      BY DEF NewVersion
    <3> HIDE DEF w
    <3>2. d[1] = w
      BY <1>4, <2>4 DEF w
    <3>3. RowSeen(t, v, d)
      BY <1>2, <3>1, <3>2 DEF RowSeen, S
    <3> QED BY <2>2, <3>3
  <2> QED BY <2>1, <2>3, <2>4 DEF Pushed
<1>7. ASSUME NEW u \in Txn, Popped(u), LastOp(u).row = r
      PROVE  Value(S, d, h[2][r]) /\ RowSeen(t, v, d)
  <2>1. PICK op : op = LastOp(u)
    OBVIOUS
  <2>2. /\ op.op # "Inserted" => op.old.xmax = NoTxn
        /\ Reverted(u, op, Len(Log(u)), c, d) /\ u \in active
    BY <1>7, <2>1, PoppedReverts DEF Popped
  <2> HIDE DEF S, c, d, v
  <2>3. Value(S, d, h[2][r])
    BY <1>2, <1>3, <1>4, <2>2, RevertedValue
  <2>4. d # <<>> => d[1].xmax = NoTxn
    BY <2>2 DEF Reverted
  <2>5. RowSeen(t, v, d)
    BY <1>2, <2>4 DEF RowSeen, S
  <2> QED BY <2>3, <2>5
<1>8. ASSUME NEW p \in Purger, Purged(p, r)
      PROVE  Value(S, d, h[2][r]) /\ RowSeen(t, v, d)
  <2>1. purge[p].on /\ c # <<>> /\ d = PurgedChain(p, c)
    BY <1>0, <1>8 DEF Purged
  <2>2. c[1] \in Version /\ 1 \in 1..Len(c)
    BY <1>4, <2>1
  <2>3. c[1].xmin \in Txn /\ c[1].xmax \in Txn \cup {NoTxn} /\ Txn \subseteq Nat /\ NoTxn \notin Txn
    BY <2>2 DEF Version, Txn, NoTxn
  <2>4. ASSUME NEW x \in Txn, Settled(p, x) PROVE x \in S
    <3>1. x \notin active
      BY <1>0, <2>1, <2>3, <2>4, SettledHasEnded
    <3>2. CASE v \in purge[p].views
      <4>1. Sees(v, x) /\ x # v.own
        BY <1>0, <1>2, <2>4, <3>1, <3>2 DEF Settled
      <4> QED BY <4>1 DEF Sees, SeenBy
    <3>3. CASE v \notin purge[p].views
      BY <2>1, <2>4, <3>3 DEF PurgeViewsInv, Settled
    <3> QED BY <3>2, <3>3
  <2>5. c[1].xmax \in S => c[1].xmin \in S
    BY <1>3, <2>1 DEF RowSeen
  <2> HIDE DEF S, c, d, v
  <2>6. Value(S, d, h[2][r])
    BY <1>2, <1>3, <1>4, <2>1, <2>3, <2>4, <2>5, PurgedValue
  <2>7. d = <<>> \/ d = c \/ (d = <<c[1]>>)
    BY <2>1 DEF PurgedChain
  <2>8. RowSeen(t, v, d)
    BY <1>3, <2>1, <2>7 DEF RowSeen
  <2> QED BY <2>6, <2>8
<1>9. StepKind
  BY <1>0, StepKinds
<1>10. ASSUME NEW q \in Row, q # r, chain' = [chain EXCEPT ![q] = chain'[q]]
       PROVE  d = c
  BY <1>0, <1>10
<1>11. CASE Quiet \/ \E u \in Txn : Opened(u) \/ Left(u)
  <2>1. d = c
    BY <1>11 DEF Quiet, Opened, Left
  <2> QED BY <1>5, <2>1
<1>12. ASSUME NEW u \in Txn, NEW q \in Row, NEW op \in UndoOp, Wrote(u, q, op)
       PROVE  Value(S, d, h[2][r]) /\ RowSeen(t, v, d)
  <2>1. CASE q # r
    BY <1>5, <1>10, <1>12, <2>1 DEF Wrote
  <2> QED BY <1>6, <1>12, <2>1
<1>13. ASSUME NEW u \in Txn, Popped(u)
       PROVE  Value(S, d, h[2][r]) /\ RowSeen(t, v, d)
  <2>1. /\ LastOp(u).row \in Row
        /\ chain' = [chain EXCEPT ![LastOp(u).row] = chain'[LastOp(u).row]]
    BY <1>13, PoppedReverts
  <2>2. CASE LastOp(u).row # r
    BY <1>5, <1>10, <2>1, <2>2
  <2> QED BY <1>7, <1>13, <2>2
<1>14. ASSUME NEW p \in Purger, NEW q \in Row, Purged(p, q)
       PROVE  Value(S, d, h[2][r]) /\ RowSeen(t, v, d)
  <2>1. CASE q # r
    <3>1. d = c
      BY <1>0, <1>14, <2>1 DEF Purged
    <3> QED BY <1>5, <3>1
  <2> QED BY <1>8, <1>14, <2>1
<1> QED BY <1>9, <1>11, <1>12, <1>13, <1>14 DEF StepKind

\* The inductive invariant behind SnapshotReads and FirstUpdaterWins.
SnapshotInv ==
    VersionInv /\ MineInv /\ FreshInv /\ CommittedInv /\ ViewsInv /\ PurgeViewsInv

\* Every step keeps what held views show.
LEMMA ViewsStep ==
    ASSUME SnapshotInv, [Next]_vars, VersionInv', CommittedInv'
    PROVE  ViewsInv'
<1> USE MvccAssumption
<1>0. /\ VersionInv /\ BaseInv /\ LockInv /\ TypeOK /\ LifeInv /\ TypeOK' /\ ViewsInv
      /\ PurgeViewsInv /\ FreshInv /\ LifeInv' /\ LockInv'
  <2>1. VersionInv /\ BaseInv /\ LockInv /\ TypeOK /\ LifeInv /\ ViewsInv /\ PurgeViewsInv /\ FreshInv
    BY DEF SnapshotInv, VersionInv, BaseInv, LockInv
  <2>2. BaseInv' /\ LockInv' /\ LifeInv' /\ TypeOK'
    BY DEF VersionInv, BaseInv, LockInv
  <2> QED BY <2>1, <2>2
<1>1. /\ nextTxn \in Nat /\ nextTxn' \in 1..(MaxTxn + 1) /\ nextTxn' \in Nat /\ nextTxn <= nextTxn'
      /\ \A x \in active' : x < nextTxn => x \in active
      /\ active \subseteq Nat /\ active' \subseteq Txn /\ active' \subseteq Nat
      /\ live' \subseteq active' /\ live \subseteq Txn
      /\ chain' \in [Row -> Seq(Version)]
  BY <1>0, IdStep DEF TypeOK, TxnTypeOK, RowTypeOK, LifeInv, Txn
<1> SUFFICES ASSUME NEW t \in live', NEW h \in Holds(t)'
             PROVE  ViewOK(t, h[1], h[2])'
  BY DEF ViewsInv
<1>2. t \in Txn /\ t \in active'
  BY <1>1
<1>3. CASE t \in live /\ h \in Holds(t)
  <2>1. ViewOK(t, h[1], h[2])
    BY <1>0, <1>3 DEF ViewsInv
  <2> DEFINE v == h[1]
  <2>2. /\ v \in View /\ v.own = t /\ v.horizon <= nextTxn
        /\ \A u \in active \ {t} : u < v.horizon => u \in v.active
    BY <2>1 DEF ViewOK
  <2>3. v.horizon \in Nat
    BY <2>2 DEF View
  <2>4. \A r \in Row : Value(SeenBy(v), chain'[r], h[2][r]) /\ RowSeen(t, v, chain'[r])
    BY <1>0, <1>3, HeldRow
  <2> HIDE DEF v
  <2>5. v.horizon <= nextTxn' /\ \A u \in active' \ {t} : u < v.horizon => u \in v.active
    BY <1>1, <2>2, <2>3
  <2> QED BY <2>2, <2>4, <2>5 DEF ViewOK, v
<1>4. CASE h = <<FreshView(t, active', nextTxn'), committed>> /\ UNCHANGED <<chain, committed>>
  <2> DEFINE v == FreshView(t, active', nextTxn')
  <2>1. v \in View /\ v.own = t /\ v.horizon = nextTxn' /\ v.active = active' \ {t}
    BY <1>1, <1>2 DEF FreshView, View
  <2>2. ASSUME NEW r \in Row
        PROVE  Value(SeenBy(v), chain'[r], committed'[r]) /\ RowSeen(t, v, chain'[r])
    <3>1. Value(Txn \ active', chain'[r], committed'[r])
      BY DEF CommittedInv
    <3>2. Ordered(active', chain'[r])
      BY DEF VersionInv, StoryInv
    <3>3. \A i \in 1..Len(chain'[r]) : chain'[r][i].xmin < nextTxn' /\ chain'[r][i].xmax < nextTxn'
      BY <1>0 DEF LockInv, StampsLocked, ChainLocked
    <3>4. chain'[r] \in Seq(Version)
      BY <1>1
    <3>5. PICK w : w = v
      OBVIOUS
    <3>6. Value(SeenBy(w), chain'[r], committed'[r]) /\ RowSeen(t, w, chain'[r])
      BY <1>1, <1>2, <3>1, <3>2, <3>3, <3>4, <3>5, NewViewReads
    <3> QED BY <3>5, <3>6
  <2>3. h[1] = v /\ h[2] = committed'
    BY <1>4
  <2>4. v.horizon <= nextTxn' /\ \A u \in active' \ {t} : u \in v.active
    BY <1>1, <2>1
  <2> HIDE DEF v
  <2> QED BY <2>1, <2>2, <2>3, <2>4 DEF ViewOK
<1> QED BY <1>0, <1>3, <1>4, HoldStep

\* Every step keeps what a purge pass may take for settled within what held
\* views see.
LEMMA PurgeViewsStep ==
    ASSUME SnapshotInv, [Next]_vars, VersionInv'
    PROVE  PurgeViewsInv'
<1> USE MvccAssumption
<1>0. /\ LockInv /\ TypeOK /\ HorizonInv' /\ FreshInv /\ PurgeViewsInv /\ TypeOK' /\ LifeInv'
      /\ purge' \in [Purger -> PurgeState] /\ purge \in [Purger -> PurgeState]
  BY DEF SnapshotInv, VersionInv, BaseInv, LockInv, TypeOK, PurgeTypeOK
<1>1. nextTxn' \in Nat /\ live' \subseteq active' /\ active' \subseteq Txn
  BY <1>0 DEF TypeOK, TxnTypeOK, LifeInv
<1> SUFFICES ASSUME NEW p \in Purger, NEW t \in live', NEW h \in Holds(t)', purge'[p].on
             PROVE  \/ h[1] \in purge'[p].views
                    \/ \A x \in Txn : x < purge'[p].horizon /\ x \notin purge'[p].active =>
                                          x \in SeenBy(h[1])
  BY DEF PurgeViewsInv
<1>2. CASE PurgeStart(p)
  <2>1. /\ purge'[p].views = {pinned[u] : u \in live}
                             \cup {fresh[u].saved : u \in {w \in live : fresh[w].depth > 0}}
        /\ UNCHANGED <<live, pinned, fresh, snap>>
    BY <1>0, <1>2 DEF PurgeStart, NoPurge, txnVars, stateVars, histVars
  <2>2. t \in live /\ (h[1] = pinned[t] \/ (fresh[t].depth > 0 /\ h[1] = fresh[t].saved))
    BY <2>1 DEF Holds
  <2> QED BY <2>1, <2>2
<1>3. CASE /\ purge[p].on /\ purge'[p].views = purge[p].views
           /\ purge'[p].active = purge[p].active /\ purge'[p].horizon = purge[p].horizon
  <2>1. CASE t \in live /\ h \in Holds(t)
    BY <1>0, <1>3, <2>1 DEF PurgeViewsInv
  <2>2. CASE h = <<FreshView(t, active', nextTxn'), committed>>
    <3> SUFFICES ASSUME NEW x \in Txn, x < purge'[p].horizon, x \notin purge'[p].active
                 PROVE  x \in SeenBy(h[1])
      OBVIOUS
    <3>1. /\ purge'[p].horizon <= nextTxn'
          /\ \A y \in active' : y < purge'[p].horizon => y \in purge'[p].active
      BY <1>0 DEF HorizonInv
    <3>2. x \notin active' /\ x # t
      BY <1>1, <3>1
    <3>3. purge'[p].horizon \in Nat /\ x \in Nat
      BY <1>0 DEF PurgeState, Txn
    <3>4. x < nextTxn'
      BY <1>1, <3>1, <3>3
    <3> QED BY <2>2, <3>2, <3>4 DEF SeenBy, FreshView
  <2> QED BY <1>0, <2>1, <2>2, HoldStep
<1> QED BY <1>0, <1>2, <1>3, PassStep

\* The snapshot invariant holds in every reachable state.
THEOREM ViewsTellTheStory == Spec => []SnapshotInv
<1>1. Init => MineInv /\ FreshInv /\ CommittedInv /\ ViewsInv /\ PurgeViewsInv
  <2> SUFFICES ASSUME Init PROVE MineInv /\ FreshInv /\ CommittedInv /\ ViewsInv /\ PurgeViewsInv
    OBVIOUS
  <2>1. MineInv
    BY DEF Init, MineInv, MineIs
  <2>2. FreshInv
    BY DEF Init, FreshInv, NoFresh
  <2>3. ViewsInv /\ PurgeViewsInv
    BY DEF Init, ViewsInv, PurgeViewsInv
  <2>4. CommittedInv
    <3> SUFFICES ASSUME NEW r \in Row PROVE Value(Txn \ active, chain[r], committed[r])
      BY DEF CommittedInv
    <3>1. active = {} /\ committed[r] = InitTuple(r)
      BY DEF Init
    <3>2. CASE r \notin InitRows
      BY <3>1, <3>2 DEF Init, InitTuple, Value
    <3>3. CASE r \in InitRows
      <4> DEFINE w == [xmin |-> Loader, xmax |-> NoTxn, tuple |-> InitTuple(r)]
      <4>1. w \in Version /\ w.xmin \in Txn /\ w.xmax \notin Txn /\ w.tuple = InitTuple(r)
        BY <3>3, MvccAssumption DEF Version, InitTuple, Loader, Txn, NoTxn, Tuple, Row
      <4>2. chain[r] = <<w>>
        BY <3>3 DEF Init
      <4> HIDE DEF w
      <4>3. chain[r] \in Seq(Version) /\ chain[r] # <<>> /\ chain[r][1] = w
        BY <4>1, <4>2
      <4>4. Value(Txn, chain[r], InitTuple(r))
        BY <4>1, <4>3, TopValue
      <4> QED BY <3>1, <4>4
    <3> QED BY <3>2, <3>3
  <2> QED BY <2>1, <2>2, <2>3, <2>4
<1>2. VersionInv /\ (MineInv /\ FreshInv /\ CommittedInv /\ ViewsInv /\ PurgeViewsInv)
      /\ VersionInv' /\ [Next]_vars
      => (MineInv /\ FreshInv /\ CommittedInv /\ ViewsInv /\ PurgeViewsInv)'
  <2> SUFFICES ASSUME SnapshotInv, VersionInv', [Next]_vars
               PROVE  (MineInv /\ FreshInv /\ CommittedInv /\ ViewsInv /\ PurgeViewsInv)'
    BY DEF SnapshotInv
  <2>1. TypeOK /\ SavesInv /\ LockInv /\ MineInv /\ CommittedInv /\ VersionInv /\ FreshInv
    BY DEF SnapshotInv, VersionInv, BaseInv, LockInv
  <2>2. MineInv' /\ FreshInv'
    BY <2>1, MineStep, HoldStep
  <2>3. CommittedInv'
    BY <2>1, CommittedStep
  <2> QED BY <2>2, <2>3, ViewsStep, PurgeViewsStep
<1> QED BY <1>1, <1>2, LogsTellTheStore, PTL DEF Spec, SnapshotInv

\* What t reads through a view it holds, between its calls: what was committed
\* when the view was taken, with its own writes over it.
LEMMA HeldViewReads ==
    ASSUME SnapshotInv, NEW t \in live, undoing[t] = <<>>, NEW h \in Holds(t), NEW r \in Row
    PROVE  VisibleTuple(h[1], chain[r]) = Expected(t, h[2])[r]
<1> DEFINE v == h[1]
           c == chain[r]
           L == undo[t]
<1> USE MvccAssumption
<1>0. /\ t \in Txn /\ t \in active /\ L \in Seq(UndoOp) /\ c \in Seq(Version)
  BY DEF SnapshotInv, VersionInv, BaseInv, LifeInv, LockInv, TypeOK, TxnTypeOK, LogTypeOK, RowTypeOK
<1>1. Log(t) = L
  BY <1>0, ConcatEmptySeq DEF Log
<1>2. TopStamp(t, L, r, c) /\ Linked(t, L, r, c) /\ MineIs(t, L, Len(L), mine[t])
  BY <1>0, <1>1 DEF SnapshotInv, VersionInv, StoryInv, MineInv
<1>3. v \in View /\ v.own = t /\ Value(SeenBy(v), c, h[2][r]) /\ RowSeen(t, v, c)
  BY DEF SnapshotInv, ViewsInv, ViewOK
<1>4. Expected(t, h[2])[r] = IF mine[t][r] = Untouched THEN h[2][r] ELSE mine[t][r]
  BY DEF Expected, WithWrites
<1> HIDE DEF v, c, L
<1>5. CASE (\A k \in 1..Len(L) : L[k].row # r) /\ mine[t][r] = Untouched
  <2>1. \A i \in 1..Len(c) : c[i].xmin # v.own /\ c[i].xmax # v.own
    BY <1>2, <1>3, <1>5, UntouchedRow
  <2>2. VisibleTuple(v, c) = h[2][r]
    BY <1>0, <1>3, <2>1, Unwritten
  <2> QED BY <1>4, <1>5, <2>2 DEF v, c
<1>6. ASSUME NEW k \in 1..Len(L), L[k].row = r, \A j \in (k + 1)..Len(L) : L[j].row # r,
             mine[t][r] = IF L[k].op = "Deleted" THEN NoTuple ELSE <<t, k>>
      PROVE  VisibleTuple(v, c) = Expected(t, h[2])[r]
  <2>1. LastOn(L, r, k)
    BY <1>6 DEF LastOn
  <2>2. mine[t][r] # Untouched
    BY <1>0, <1>6 DEF Untouched, NoTuple, Txn
  <2>3. /\ c # <<>> /\ 1 \in 1..Len(c)
        /\ IF L[k].op = "Deleted" THEN c[1].xmax = t ELSE c[1] = NewVersion(t, k)
    BY <1>0, <1>2, <2>1 DEF TopStamp
  <2>4. Sees(v, t) /\ t # NoTxn /\ \A j \in 1..(1 - 1) : FALSE
    BY <1>0, <1>3 DEF Sees, Txn, NoTxn
  <2>5. CASE L[k].op = "Deleted"
    <3>1. CASE Sees(v, c[1].xmin)
      <4>1. VisibleTuple(v, c) = NoTuple
        BY <1>0, <2>3, <2>4, <2>5, <3>1, FirstSeen
      <4> QED BY <1>4, <1>6, <2>2, <2>5, <4>1
    <3>2. CASE ~Sees(v, c[1].xmin)
      <4>1. Len(c) = 1
        BY <1>3, <2>3, <2>5, <3>2 DEF RowSeen
      <4>2. \A i \in 1..Len(c) : ~Sees(v, c[i].xmin)
        BY <3>2, <4>1
      <4>3. VisibleTuple(v, c) = NoTuple
        BY <1>0, <4>2, NoneSeen
      <4> QED BY <1>4, <1>6, <2>2, <2>5, <4>3
    <3> QED BY <3>1, <3>2
  <2>6. CASE L[k].op # "Deleted"
    <3>1. c[1].xmin = t /\ c[1].xmax = NoTxn /\ c[1].tuple = <<t, k>>
      BY <2>3, <2>6 DEF NewVersion
    <3>2. VisibleTuple(v, c) = <<t, k>>
      <4>1. Sees(v, c[1].xmin) /\ 1 \in 1..Len(c)
        BY <2>3, <2>4, <3>1
      <4>2. VisibleTuple(v, c) = IF c[1].xmax # NoTxn /\ Sees(v, c[1].xmax)
                                 THEN NoTuple ELSE c[1].tuple
        BY <1>0, <2>4, <4>1, FirstSeen
      <4> QED BY <3>1, <4>2
    <3> QED BY <1>4, <1>6, <2>2, <2>6, <3>2
  <2> QED BY <2>5, <2>6
<1> QED BY <1>2, <1>5, <1>6 DEF MineIs, v, c

\* Every statement of every transaction reads the state that was committed when
\* its snapshot was taken, plus the transaction's own writes, for any number of
\* transactions, rows, savepoints and purge passes.
THEOREM ReadsTheSnapshot == Spec => []SnapshotReads
<1>1. SnapshotInv => SnapshotReads
  <2> SUFFICES ASSUME SnapshotInv, NEW t \in live, undoing[t] = <<>>, NEW r \in Row
               PROVE  /\ VisibleTuple(pinned[t], chain[r]) = Expected(t, snap[t])[r]
                      /\ fresh[t].depth > 0 =>
                            VisibleTuple(fresh[t].saved, chain[r]) =
                                Expected(t, fresh[t].savedSnap)[r]
    BY DEF SnapshotReads
  <2>1. \A h \in Holds(t) : VisibleTuple(h[1], chain[r]) = Expected(t, h[2])[r]
    BY HeldViewReads
  <2>2. /\ <<pinned[t], snap[t]>> \in Holds(t)
        /\ fresh[t].depth > 0 => <<fresh[t].saved, fresh[t].savedSnap>> \in Holds(t)
    BY DEF Holds
  <2>3. ASSUME fresh[t].depth > 0
        PROVE  VisibleTuple(fresh[t].saved, chain[r]) = Expected(t, fresh[t].savedSnap)[r]
    <3>1. PICK h \in Holds(t) : h = <<fresh[t].saved, fresh[t].savedSnap>>
      BY <2>2, <2>3
    <3>2. h[1] = fresh[t].saved /\ h[2] = fresh[t].savedSnap
      BY <3>1
    <3> QED BY <2>1, <3>2
  <2>4. PICK h \in Holds(t) : h = <<pinned[t], snap[t]>>
    BY <2>2
  <2>5. h[1] = pinned[t] /\ h[2] = snap[t]
    BY <2>4
  <2> QED BY <2>1, <2>3, <2>5
<1> QED BY <1>1, ViewsTellTheStory, PTL

-----------------------------------------------------------------------------
(* First updater wins                                                      *)

\* What a log does not touch has no operation in it.
LEMMA UntouchedLog ==
    ASSUME NEW t \in Txn, NEW L, NEW n, NEW m, MineIs(t, L, n, m), NEW r \in Row, m[r] = Untouched
    PROVE  \A k \in 1..n : L[k].row # r
<1>1. NoTuple # Untouched /\ \A k : <<t, k>> # Untouched
  BY DEF NoTuple, Untouched, Txn
<1>2. \/ (\A k \in 1..n : L[k].row # r) /\ m[r] = Untouched
      \/ \E k \in 1..n :
            /\ L[k].row = r /\ \A j \in (k + 1)..n : L[j].row # r
            /\ m[r] = IF L[k].op = "Deleted" THEN NoTuple ELSE <<t, k>>
  BY DEF MineIs
<1> QED BY <1>1, <1>2

\* A row t may write, and has not written, has the value t's snapshot shows.
LEMMA AdmittedIsCurrent ==
    ASSUME SnapshotInv, NEW t \in live, undoing[t] = <<>>, NEW r \in Row,
           mine[t][r] = Untouched, chain[r] = <<>> \/ WriteOver(t, chain[r][1])
    PROVE  committed[r] = snap[t][r]
<1> DEFINE v == pinned[t]
           c == chain[r]
           L == undo[t]
<1> USE MvccAssumption
<1>0. /\ t \in Txn /\ t \in active /\ L \in Seq(UndoOp) /\ c \in Seq(Version)
  BY DEF SnapshotInv, VersionInv, BaseInv, LifeInv, LockInv, TypeOK, TxnTypeOK, LogTypeOK, RowTypeOK
<1>1. Log(t) = L
  BY <1>0, ConcatEmptySeq DEF Log
<1>2. Linked(t, L, r, c) /\ MineIs(t, L, Len(L), mine[t])
  BY <1>0, <1>1 DEF SnapshotInv, VersionInv, StoryInv, MineInv
<1>3. Value(Txn \ active, c, committed[r])
  BY DEF SnapshotInv, CommittedInv
<1>4. Value(SeenBy(v), c, snap[t][r]) /\ v.own = t
  <2>1. PICK h \in Holds(t) : h = <<pinned[t], snap[t]>>
    BY DEF Holds
  <2>2. h[1] = v /\ h[2] = snap[t]
    BY <2>1
  <2> QED BY <2>2 DEF SnapshotInv, ViewsInv, ViewOK
<1> HIDE DEF v, c, L
<1>5. \A k \in 1..Len(L) : L[k].row # r
  BY <1>0, <1>2, UntouchedLog
<1>6. CASE c = <<>>
  BY <1>3, <1>4, <1>6 DEF Value
<1>7. CASE c # <<>> /\ WriteOver(t, c[1])
  <2>1. 1 \in 1..Len(c) /\ c[1] \in Version
    BY <1>0, <1>7
  <2>2. c[1].xmin # t
    BY <1>2, <1>5, <2>1, UntouchedRow
  <2>3. c[1].xmax = NoTxn /\ c[1].xmin \notin active /\ Sees(v, c[1].xmin)
    BY <1>7, <2>2 DEF WriteOver, v
  <2>4. c[1].xmin \in Txn /\ NoTxn \notin Txn
    BY <2>1 DEF Version, Txn, NoTxn
  <2>5. c[1].xmin \in SeenBy(v) /\ c[1].xmax \notin SeenBy(v)
    BY <1>4, <2>2, <2>3, <2>4 DEF Sees, SeenBy
  <2>6. snap[t][r] = c[1].tuple
    BY <1>0, <1>4, <1>7, <2>5, TopValue, OneValue
  <2>7. committed[r] = c[1].tuple
    <3> DEFINE S == Txn \ active
    <3>1. c[1].xmin \in S /\ c[1].xmax \notin S /\ Value(S, c, committed[r])
      BY <1>3, <2>3, <2>4
    <3> HIDE DEF S
    <3> QED BY <1>0, <1>7, <3>1, TopValue, OneValue
  <2> QED BY <2>6, <2>7
<1> QED BY <1>6, <1>7 DEF c

\* A transaction that first writes a row writes over the value its statement
\* snapshot shows, never over one committed since.
THEOREM FirstUpdater == Spec => FirstUpdaterWins
<1>1. SnapshotInv /\ [Next]_vars =>
        [\A t \in live, r \in Row :
            (mine[t][r] = Untouched /\ mine'[t][r] # Untouched /\ t \in live') =>
                committed[r] = snap[t][r]]_vars
  <2> SUFFICES ASSUME SnapshotInv, [Next]_vars, NEW t \in live, NEW r \in Row,
                      mine[t][r] = Untouched, mine'[t][r] # Untouched, t \in live'
               PROVE  committed[r] = snap[t][r]
    OBVIOUS
  <2> USE MvccAssumption
  <2>0. /\ t \in Txn /\ mine \in [Txn -> Snapshots] /\ TypeOK /\ MintedInv /\ MineInv
        /\ SavesInv /\ Len(undo[t]) \in Nat
    BY DEF SnapshotInv, VersionInv, BaseInv, LifeInv, LockInv, TypeOK, TxnTypeOK, HistTypeOK
  <2>1. ASSUME NEW q \in Row, Insert(t, q) PROVE committed[r] = snap[t][r]
    <3>1. mine' = [mine EXCEPT ![t] = [mine[t] EXCEPT ![q] = NewTuple(t)]]
      BY <2>1 DEF Insert
    <3>2. q = r
      BY <2>0, <3>1 DEF Snapshots
    <3>3. undoing[t] = <<>> /\ chain[r] = <<>>
      BY <2>0, <2>1, <3>2 DEF Insert, CanWrite, Idle, MintedInv
    <3> QED BY <3>3, AdmittedIsCurrent
  <2>2. ASSUME NEW q \in Row, Update(t, q) \/ Delete(t, q) PROVE committed[r] = snap[t][r]
    <3>1. PICK val : mine' = [mine EXCEPT ![t] = [mine[t] EXCEPT ![q] = val]]
      BY <2>2 DEF Update, Delete
    <3>2. q = r
      BY <2>0, <3>1 DEF Snapshots
    <3>3. undoing[t] = <<>> /\ WriteOver(t, chain[r][1])
      BY <2>2, <3>2 DEF Update, Delete, CanWrite, Idle, Admitted, WriteOver
    <3> QED BY <3>3, AdmittedIsCurrent
  <2>3. ASSUME NEW name \in SaveName, RollbackTo(t, name) PROVE FALSE
    <3> DEFINE a == SaveAt(t, name)
               mark == saves[t][a].mark
               m == saves[t][a].mine
    <3>1. a \in 1..Len(saves[t])
      BY <2>0, <2>3, SaveAtType DEF RollbackTo
    <3>2. mine'[t] = m
      BY <2>0, <2>3 DEF RollbackTo
    <3>3. mark \in Nat /\ mark <= Len(undo[t])
      <4>1. mark \in Nat
        BY <2>0, <3>1, SaveRecType DEF TypeOK
      <4> QED BY <2>0, <3>1, <4>1 DEF SavesInv
    <3>4. MineIs(t, undo[t], mark, m) /\ MineIs(t, undo[t], Len(undo[t]), mine[t])
      BY <2>0, <3>1 DEF MineInv
    <3> HIDE DEF a, mark, m
    <3>5. \A k \in 1..Len(undo[t]) : undo[t][k].row # r
      BY <2>0, <3>4, UntouchedLog
    <3>6. \A k \in 1..mark : undo[t][k].row # r
      BY <2>0, <3>3, <3>5
    <3>7. m[r] = Untouched
      BY <3>4, <3>6 DEF MineIs
    <3> QED BY <3>2, <3>7
  <2>4. ASSUME NEW u \in Txn, u # t, mine' = [mine EXCEPT ![u] = mine'[u]] PROVE FALSE
    BY <2>0, <2>4
  <2>5. ASSUME UNCHANGED mine PROVE FALSE
    BY <2>5
  <2>6. ASSUME NEW u \in Txn, Forget(u) PROVE FALSE
    BY <2>0, <2>6 DEF Forget
  <2>7. ASSUME NEW u \in Txn, NEW q \in Row, Insert(u, q) \/ Update(u, q) \/ Delete(u, q), u # t
        PROVE FALSE
    BY <2>0, <2>7 DEF Insert, Update, Delete
  <2>8. ASSUME NEW u \in Txn, NEW name \in SaveName, RollbackTo(u, name), u # t
        PROVE FALSE
    BY <2>0, <2>8 DEF RollbackTo
  <2>9. ASSUME NEW u \in Txn, Session(u) PROVE committed[r] = snap[t][r]
    <3>1. CASE Rollback(u) \/ CommitAtOnce(u) \/ CommitConflict(u) \/ CommitAppendFails(u)
      BY <2>6, <3>1 DEF Rollback, CommitAtOnce, CommitConflict, CommitAppendFails, Taken,
                        FinishCommit
    <3> QED BY <2>1, <2>2, <2>3, <2>5, <2>7, <2>8, <2>9, <3>1
           DEF Session, Begin, BeginStatement, BeginFreshReads, EndFreshReads, Scan, IndexScan,
               WriteRefused, LockRow, LockRowRefused, LockTable, Savepoint, ReleaseSavepoint,
               CommitStage, histVars
  <2>10. ASSUME NEW u \in Txn, Engine(u) PROVE FALSE
    <3>1. CASE CommitFinish(u)
      BY <2>6, <3>1 DEF CommitFinish, FinishCommit
    <3> QED BY <2>5, <2>10, <3>1 DEF Engine, UndoStep, AbortEnd, histVars
  <2>11. ASSUME NEW p \in Purger, PurgePass(p) \/ PurgeYield(p) PROVE FALSE
    BY <2>5, <2>11 DEF PurgePass, PurgeStart, PurgeTable, PurgeRow, PurgeTableEnd, PurgeEnd,
                       PurgeYield, histVars
  <2>12. CASE UNCHANGED vars
    BY <2>5, <2>12 DEF vars, histVars
  <2> QED BY <2>9, <2>10, <2>11, <2>12 DEF Next
<1> QED BY <1>1, ViewsTellTheStory, PTL DEF Spec, FirstUpdaterWins

-----------------------------------------------------------------------------
(* Commits in staging order                                                *)

\* Read through the transactions that have ended or are staged, the store is
\* the state that commits in staging order produce.
SerialInv == \A r \in Row : Value(Txn \ (active \ staged), chain[r], serial[r])

\* The steps that change what has been staged, finished or aborted.
LEMMA PointStep ==
    ASSUME LifeInv, [Next]_vars, TypeOK
    PROVE  \/ /\ active \subseteq active' /\ UNCHANGED <<staged, serial, stagedVer, finishedVer>>
              /\ \A u \in staged : undo'[u] = undo[u]
           \/ \E t \in Txn : CommitStage(t) \/ AbortEnd(t) \/ CommitFinish(t) \/ CommitAtOnce(t)
<1>0. undo \in [Txn -> Seq(UndoOp)]
  BY DEF TypeOK, LogTypeOK
<1> DEFINE Rest == /\ active \subseteq active' /\ UNCHANGED <<staged, serial, stagedVer, finishedVer>>
                   /\ \A u \in staged : undo'[u] = undo[u]
<1>1. CASE active \subseteq active' /\ UNCHANGED <<staged, serial, stagedVer, finishedVer, undo>>
  BY <1>1
<1>2. ASSUME NEW t \in Txn, Idle(t), active' = active, UNCHANGED <<staged, serial, verVars>>,
             undo' = [undo EXCEPT ![t] = undo'[t]]
      PROVE  Rest
  <2>1. staged \subseteq Txn
    BY DEF TypeOK, TxnTypeOK
  <2>2. \A u \in staged : undo'[u] = undo[u]
    BY <1>0, <1>2, <2>1 DEF Idle
  <2> QED BY <1>2, <2>2 DEF verVars
<1>3. ASSUME NEW t \in Txn, Session(t), ~CommitStage(t), ~CommitAtOnce(t)
      PROVE  Rest
  <2>1. CASE \E r \in Row : Insert(t, r) \/ Update(t, r) \/ Delete(t, r)
    BY <1>0, <1>2, <2>1 DEF Insert, Update, Delete, CanWrite, PushUndo, txnVars
  <2>2. CASE \E name \in SaveName : RollbackTo(t, name)
    BY <1>0, <1>2, <2>2 DEF RollbackTo, txnVars
  <2>3. CASE Rollback(t) \/ CommitConflict(t) \/ CommitAppendFails(t)
    BY <1>0, <1>2, <2>3 DEF Rollback, CommitConflict, CommitAppendFails, Taken, Forget
  <2> QED BY <1>1, <1>3, <2>1, <2>2, <2>3
         DEF Session, Begin, BeginStatement, BeginFreshReads, EndFreshReads, Scan, IndexScan,
             WriteRefused, LockRow, LockRowRefused, LockTable, Savepoint, ReleaseSavepoint,
             txnVars, verVars, stateVars, histVars
<1>4. ASSUME NEW t \in Txn, UndoStep(t)
      PROVE  Rest
  BY <1>1, <1>4 DEF UndoStep, txnVars, verVars, histVars
<1>5. ASSUME NEW p \in Purger, PurgePass(p) \/ PurgeYield(p)
      PROVE  Rest
  BY <1>1, <1>5 DEF PurgePass, PurgeStart, PurgeTable, PurgeRow, PurgeTableEnd, PurgeEnd,
              PurgeYield, txnVars, verVars, stateVars, histVars
<1>6. CASE UNCHANGED vars
  BY <1>1, <1>6 DEF vars, txnVars, verVars, stateVars, histVars
<1> QED BY <1>3, <1>4, <1>5, <1>6 DEF Next, Engine

\* Every step keeps the serial state what ended and staged transactions left.
LEMMA SerialStep ==
    ASSUME VersionInv, MineInv, SerialInv, [Next]_vars
    PROVE  SerialInv'
<1> USE MvccAssumption
<1>0. /\ BaseInv /\ LockInv /\ TypeOK /\ TypeOK' /\ LifeInv /\ HorizonInv
      /\ chain \in [Row -> Seq(Version)] /\ chain' \in [Row -> Seq(Version)]
      /\ active \subseteq Txn /\ active \subseteq Nat /\ nextTxn \in Nat
      /\ staged \subseteq live /\ live \subseteq active
  <2>1. BaseInv /\ LockInv /\ LifeInv /\ HorizonInv /\ TypeOK /\ SavesInv
    BY DEF VersionInv, BaseInv, LockInv
  <2>2. TypeOK'
    BY <2>1, TypeStep
  <2>3. chain \in [Row -> Seq(Version)] /\ chain' \in [Row -> Seq(Version)]
    BY <2>1, <2>2 DEF TypeOK, RowTypeOK
  <2>4. active \subseteq Txn /\ nextTxn \in 1..(MaxTxn + 1)
    BY <2>1 DEF TypeOK, TxnTypeOK
  <2>5. Txn \subseteq Nat /\ 1..(MaxTxn + 1) \subseteq Nat
    BY DEF Txn
  <2> QED BY <2>1, <2>2, <2>3, <2>4, <2>5 DEF LifeInv
<1>1. /\ \A u \in active, q \in Row : Linked(u, Log(u), q, chain[q])
      /\ \A u \in Txn, q \in Row : TopStamp(u, Log(u), q, chain[q])
      /\ \A q \in Row : Ordered(active, chain[q])
  BY DEF VersionInv, StoryInv
<1> DEFINE S == Txn \ (active \ staged)
<1>2. \A q \in Row : Value(S, chain[q], serial[q])
  BY DEF SerialInv
<1>3. \A q \in Row : chain[q] \in Seq(Version) /\ chain'[q] \in Seq(Version)
  BY <1>0
<1>4. S \subseteq Txn /\ Txn \ active \subseteq S
  OBVIOUS
<1>5. ASSUME NEW t \in Txn, t \in active \ staged, undoing[t] = <<>>, UNCHANGED chain,
             serial' = WithWrites(serial, t), active' \ staged' = (active \ staged) \ {t}
      PROVE  SerialInv'
  <2>1. Log(t) = undo[t] /\ Log(t) \in Seq(UndoOp)
    <3>1. undo[t] \in Seq(UndoOp)
      BY <1>0 DEF TypeOK, LogTypeOK
    <3> QED BY <1>5, <3>1, ConcatEmptySeq DEF Log
  <2>2. MineIs(t, Log(t), Len(Log(t)), mine[t])
    BY <2>1 DEF MineInv
  <2>3. Txn \ (active' \ staged') = S \cup {t} /\ t \notin S
    BY <1>5
  <2>4. ASSUME NEW q \in Row PROVE Value(S \cup {t}, chain[q], serial'[q])
    <3>1. Linked(t, Log(t), q, chain[q]) /\ TopStamp(t, Log(t), q, chain[q])
          /\ Ordered(active, chain[q])
      BY <1>1, <1>5
    <3>2. serial'[q] = IF mine[t][q] = Untouched THEN serial[q] ELSE mine[t][q]
      BY <1>5 DEF WithWrites
    <3> HIDE DEF S
    <3>3. Value(S \cup {t}, chain[q], IF mine[t][q] = Untouched THEN serial[q] ELSE mine[t][q])
      BY <1>2, <1>3, <1>4, <1>5, <2>1, <2>2, <2>3, <3>1, CommitValue
    <3> QED BY <3>2, <3>3
  <2> QED BY <1>5, <2>3, <2>4 DEF SerialInv
<1>6. ASSUME NEW t \in Txn, CommitStage(t) \/ CommitAtOnce(t)
      PROVE  SerialInv'
  <2>1. t \in active \ staged /\ undoing[t] = <<>>
    BY <1>0, <1>6 DEF CommitStage, CommitAtOnce, Idle
  <2>2. UNCHANGED chain /\ serial' = WithWrites(serial, t)
    BY <1>6 DEF CommitStage, CommitAtOnce, FinishCommit, rowVars
  <2>3. active' \ staged' = (active \ staged) \ {t}
    <3>1. CASE CommitStage(t)
      BY <3>1 DEF CommitStage
    <3>2. CASE CommitAtOnce(t)
      BY <3>2 DEF CommitAtOnce, FinishCommit
    <3> QED BY <1>6, <3>1, <3>2
  <2> QED BY <1>5, <2>1, <2>2, <2>3
<1>7. ASSUME NEW t \in Txn, CommitFinish(t)
      PROVE  SerialInv'
  <2>1. active' = active \ {t} /\ staged' = staged \ {t} /\ t \in staged /\ UNCHANGED <<chain, serial>>
    BY <1>7 DEF CommitFinish, FinishCommit, rowVars
  <2>2. Txn \ (active' \ staged') = S
    BY <2>1
  <2> QED BY <1>2, <2>1, <2>2 DEF SerialInv
<1>8. ASSUME NEW x, \A q \in Row : \A i \in 1..Len(chain[q]) : chain[q][i].xmin # x /\ chain[q][i].xmax # x,
             \A y : y # x => (y \in S <=> y \in Txn \ (active' \ staged')),
             UNCHANGED <<chain, serial>>
      PROVE  SerialInv'
  <2> SUFFICES ASSUME NEW q \in Row PROVE Value(Txn \ (active' \ staged'), chain[q], serial[q])
    BY <1>8 DEF SerialInv
  <2> DEFINE T == Txn \ (active' \ staged')
  <2>1. \A i \in 1..Len(chain[q]) : (chain[q][i].xmin \in S <=> chain[q][i].xmin \in T)
                                    /\ (chain[q][i].xmax \in S <=> chain[q][i].xmax \in T)
    BY <1>8
  <2> HIDE DEF S, T
  <2>2. Value(T, chain[q], serial[q])
    BY <1>2, <1>3, <2>1, ValueSame
  <2> QED BY <2>2 DEF T
<1>9. ASSUME NEW t \in Txn, AbortEnd(t)
      PROVE  SerialInv'
  <2>1. /\ t \in active /\ t \notin live /\ undo[t] = <<>> /\ undoing[t] = <<>>
        /\ active' = active \ {t} /\ UNCHANGED <<staged, chain, serial>>
    BY <1>0, <1>9 DEF AbortEnd, LifeInv, rowVars
  <2>2. Log(t) = <<>>
    <3>1. <<>> \o <<>> = <<>>
      BY ConcatEmptySeq
    <3> QED BY <2>1, <3>1 DEF Log
  <2>3. \A q \in Row : \A i \in 1..Len(chain[q]) : chain[q][i].xmin # t /\ chain[q][i].xmax # t
    <3> TAKE q \in Row
    <3>1. \A k \in 1..Len(Log(t)) : Log(t)[k].row # q
      BY <2>2
    <3> QED BY <1>1, <2>1, <3>1, UntouchedRow
  <2> QED BY <1>8, <2>1, <2>3
<1>10. ASSUME active \subseteq active', UNCHANGED <<staged, serial>>
       PROVE  SerialInv'
  <2>1. ASSUME NEW r \in Row, chain' = [chain EXCEPT ![r] = chain'[r]], UNCHANGED active,
               Value(S, chain'[r], serial[r])
        PROVE  SerialInv'
    <3>1. \A q \in Row : q # r => chain'[q] = chain[q]
      BY <1>0, <2>1
    <3>2. \A q \in Row : Value(S, chain'[q], serial[q])
      BY <1>2, <2>1, <3>1
    <3>3. Txn \ (active' \ staged') = S
      BY <1>10, <2>1
    <3> HIDE DEF S
    <3> QED BY <1>10, <3>2, <3>3 DEF SerialInv
  <2>2. CASE Quiet
    BY <1>2, <1>10, <2>2 DEF Quiet, SerialInv
  <2>3. ASSUME NEW t \in Txn, Opened(t)
        PROVE  SerialInv'
    <3>1. t = nextTxn /\ active' = active \cup {t} /\ UNCHANGED chain
      BY <2>3 DEF Opened
    <3>2. \A q \in Row : \A i \in 1..Len(chain[q]) : chain[q][i].xmin < nextTxn /\ chain[q][i].xmax < nextTxn
      BY <1>0 DEF LockInv, StampsLocked, ChainLocked
    <3>3. \A q \in Row : \A i \in 1..Len(chain[q]) : chain[q][i].xmin # t /\ chain[q][i].xmax # t
      BY <1>0, <3>1, <3>2
    <3>4. \A y : y # t => (y \in S <=> y \in Txn \ (active' \ staged'))
      BY <1>10, <3>1
    <3> QED BY <1>8, <1>10, <3>1, <3>3, <3>4
  <2>4. ASSUME NEW t \in Txn, NEW r \in Row, NEW op \in UndoOp, Wrote(t, r, op)
        PROVE  SerialInv'
    <3>1. /\ t \in active \ staged /\ chain' = [chain EXCEPT ![r] = chain'[r]] /\ UNCHANGED active
          /\ Pushed(t, Len(Log(t)) + 1, op, chain[r], chain'[r])
      BY <1>0, <2>4 DEF Wrote
    <3>2. t \notin S
      BY <3>1
    <3> HIDE DEF S
    <3>3. Value(S, chain'[r], serial[r])
      BY <1>2, <1>3, <1>4, <3>1, <3>2, PushedValue
    <3> QED BY <2>1, <3>1, <3>3
  <2>5. ASSUME NEW t \in Txn, Popped(t)
        PROVE  SerialInv'
    <3>1. PICK op, r : op = LastOp(t) /\ r = op.row
      OBVIOUS
    <3>2. /\ r \in Row /\ (op.op # "Inserted" => op.old.xmax = NoTxn)
          /\ chain' = [chain EXCEPT ![r] = chain'[r]]
          /\ Reverted(t, op, Len(Log(t)), chain[r], chain'[r])
      BY <2>5, <3>1, PoppedReverts
    <3>3. t \in active \ staged /\ UNCHANGED active
      BY <2>5 DEF Popped
    <3>4. t \notin S
      BY <3>3
    <3> HIDE DEF S
    <3>5. Value(S, chain'[r], serial[r])
      BY <1>2, <1>3, <1>4, <3>2, <3>4, RevertedValue
    <3> QED BY <2>1, <3>2, <3>3, <3>5
  <2>6. ASSUME NEW p \in Purger, NEW r \in Row, Purged(p, r)
        PROVE  SerialInv'
    <3> DEFINE c == chain[r]
    <3>1. /\ purge[p].on /\ c # <<>> /\ UNCHANGED active
          /\ chain' = [chain EXCEPT ![r] = PurgedChain(p, c)]
      BY <2>6 DEF Purged
    <3>2. chain'[r] = PurgedChain(p, c) /\ chain' = [chain EXCEPT ![r] = chain'[r]]
      BY <1>0, <3>1
    <3>3. c[1] \in Version /\ 1 \in 1..Len(c)
      BY <1>3, <3>1
    <3>4. c[1].xmin \in Txn /\ c[1].xmax \in Txn \cup {NoTxn} /\ Txn \subseteq Nat /\ NoTxn \notin Txn
      BY <3>3 DEF Version, Txn, NoTxn
    <3>5. \A x \in {c[1].xmin, c[1].xmax} : x # NoTxn /\ Settled(p, x) => x \in S
      <4>1. \A x \in Txn : Settled(p, x) => x \notin active
        BY <1>0, <3>1, <3>4, SettledHasEnded
      <4> QED BY <3>4, <4>1
    <3>6. c[1].xmax \in S => c[1].xmin \in S
      <4>1. c[1].xmin \in active /\ c[1].xmax # NoTxn => c[1].xmax = c[1].xmin
        BY <1>1, <3>3 DEF Ordered
      <4> QED BY <3>4, <4>1
    <3> HIDE DEF S, c
    <3>7. Value(S, PurgedChain(p, c), serial[r])
      BY <1>2, <1>3, <1>4, <3>1, <3>5, <3>6, PurgedValue DEF c
    <3> QED BY <2>1, <3>1, <3>2, <3>7
  <2>7. ASSUME NEW t \in Txn, Left(t)
        PROVE  FALSE
    BY <1>10, <2>7 DEF Left
  <2> QED BY <1>0, <2>2, <2>3, <2>4, <2>5, <2>6, <2>7, StepKinds DEF StepKind
<1> QED BY <1>0, <1>6, <1>7, <1>9, <1>10, PointStep

-----------------------------------------------------------------------------
(* SERIALIZABLE transactions                                               *)

SerialTxns == {t \in live : level[t] = "Serializable"}

\* No SERIALIZABLE transaction reads fresh: none runs the DDL that does.
PlainReads == \A t \in SerialTxns : fresh[t].depth = 0

\* The staged transactions that wrote to the table.
StagedOn(tab) == {u \in staged : tab \in Touched(u)}

\* The two write versions of a table are as far apart as it has staged writers.
CountInv ==
    \A tab \in Table : stagedVer[tab] = finishedVer[tab] + Cardinality(StagedOn(tab))

\* While a table's staged version is what a SERIALIZABLE transaction began with,
\* the table is what it was then.
BeginInv ==
    \A t \in SerialTxns, tab \in Table :
        /\ beginVer[t][tab] <= finishedVer[tab]
        /\ stagedVer[tab] = beginVer[t][tab] =>
              \A r \in RowsOf(tab) : serial[r] = snap[t][r]

\* A SERIALIZABLE transaction wrote only over versions its snapshot sees.
OldSeenInv ==
    \A t \in SerialTxns : \A k \in 1..Len(undo[t]) :
        undo[t][k].op # "Inserted" => Sees(pinned[t], undo[t][k].old.xmin)

\* What a step does to the log of t: nothing, a tail cut off, or a write that
\* admission let through.
LogMoves(t) ==
    \/ undo'[t] = undo[t]
    \/ \E n \in 0..Len(undo[t]) : undo'[t] = SubSeq(undo[t], 1, n)
    \/ \E op \in UndoOp : /\ undo'[t] = Append(undo[t], op)
                          /\ op.op # "Inserted" => Sees(pinned[t], op.old.xmin)

\* A SERIALIZABLE transaction keeps the view it began with.
LEMMA SerialTxnStep ==
    ASSUME LockInv, PlainReads, PlainReads', [Next]_vars, NEW t \in SerialTxns'
    PROVE  \/ Begin(t, "Serializable")
           \/ /\ t \in SerialTxns /\ beginVer'[t] = beginVer[t] /\ snap'[t] = snap[t]
              /\ pinned'[t] = pinned[t] /\ LogMoves(t)
<1> USE MvccAssumption
<1>0. /\ TypeOK /\ SavesInv /\ level \in [Txn -> Level \cup {"none"}] /\ beginVer \in [Txn -> [Table -> Nat]]
      /\ snap \in [Txn -> Snapshots] /\ pinned \in [Txn -> AnyView] /\ fresh \in [Txn -> FreshState]
      /\ undo \in [Txn -> Seq(UndoOp)] /\ saves \in [Txn -> Seq(SaveRec)]
      /\ live \subseteq Txn /\ chain \in [Row -> Seq(Version)]
  BY DEF LockInv, TypeOK, TxnTypeOK, ViewTypeOK, LogTypeOK, HistTypeOK, RowTypeOK
<1>00. t \in live' /\ level'[t] = "Serializable" /\ fresh'[t].depth = 0
  BY DEF SerialTxns, PlainReads
<1> DEFINE Kept1 == /\ t \in SerialTxns /\ beginVer'[t] = beginVer[t] /\ snap'[t] = snap[t]
                    /\ pinned'[t] = pinned[t] /\ LogMoves(t)
<1>1. ASSUME t \in live, level'[t] = level[t], beginVer'[t] = beginVer[t], snap'[t] = snap[t],
             pinned'[t] = pinned[t], LogMoves(t)
      PROVE  Kept1
  BY <1>00, <1>1 DEF SerialTxns
<1>2. ASSUME UNCHANGED <<live, level, beginVer, snap, pinned, undo>>
      PROVE  Kept1
  BY <1>00, <1>1, <1>2 DEF LogMoves
<1>3. ASSUME NEW u \in Txn, u # t, live' \subseteq live \cup {u},
             level' = [level EXCEPT ![u] = level'[u]], beginVer' = [beginVer EXCEPT ![u] = beginVer'[u]],
             snap' = [snap EXCEPT ![u] = snap'[u]], pinned' = [pinned EXCEPT ![u] = pinned'[u]],
             undo' = [undo EXCEPT ![u] = undo'[u]]
      PROVE  Kept1
  <2>1. t \in live /\ t \in Txn
    BY <1>0, <1>00, <1>3
  <2>2. /\ level'[t] = level[t] /\ beginVer'[t] = beginVer[t] /\ snap'[t] = snap[t]
        /\ pinned'[t] = pinned[t] /\ undo'[t] = undo[t]
    BY <1>0, <1>3, <2>1
  <2> QED BY <1>1, <2>1, <2>2 DEF LogMoves
<1>4. ASSUME NEW u \in Txn, Session(u)
      PROVE  Begin(t, "Serializable") \/ Kept1
  <2>1. ASSUME NEW lvl \in Level, Begin(u, lvl)
        PROVE  Begin(t, "Serializable") \/ Kept1
    <3>1. CASE u = t
      <4>1. level'[t] = lvl
        BY <1>0, <2>1, <3>1 DEF Begin
      <4> QED BY <1>00, <2>1, <3>1, <4>1
    <3>2. CASE u # t
      BY <1>0, <1>3, <2>1, <3>2 DEF Begin
    <3> QED BY <3>1, <3>2
  <2>2. ASSUME BeginStatement(u)
        PROVE  Kept1
    <3>1. u # t
      BY <1>00, <2>2 DEF BeginStatement
    <3> QED BY <1>0, <1>3, <2>2, <3>1 DEF BeginStatement, txnVars
  <2>3. ASSUME BeginFreshReads(u)
        PROVE  Kept1
    <3>1. fresh'[u].depth > 0
      <4>1. fresh[u].depth \in Nat /\ fresh[u] \in FreshState
        BY <1>0 DEF FreshState
      <4>2. fresh'[u] = IF fresh[u].depth = 0
                        THEN [depth |-> 1, saved |-> pinned[u], savedSnap |-> snap[u]]
                        ELSE [fresh[u] EXCEPT !.depth = @ + 1]
        BY <1>0, <2>3 DEF BeginFreshReads
      <4> QED BY <4>1, <4>2 DEF FreshState
    <3>2. u # t
      BY <1>00, <3>1
    <3> QED BY <1>0, <1>3, <2>3, <3>2 DEF BeginFreshReads, txnVars
  <2>4. ASSUME EndFreshReads(u)
        PROVE  Kept1
    <3>1. u # t
      <4>1. u = t => t \in SerialTxns
        BY <1>00, <2>4 DEF EndFreshReads, SerialTxns, txnVars
      <4> QED BY <2>4, <4>1 DEF EndFreshReads, PlainReads
    <3>2. /\ snap' = [snap EXCEPT ![u] = snap'[u]] /\ pinned' = [pinned EXCEPT ![u] = pinned'[u]]
      BY <1>0, <2>4 DEF EndFreshReads
    <3> QED BY <1>0, <1>3, <2>4, <3>1, <3>2 DEF EndFreshReads, txnVars
  <2>5. ASSUME NEW r \in Row, Insert(u, r) \/ Update(u, r) \/ Delete(u, r)
        PROVE  Kept1
    <3>1. PICK op \in UndoOp : /\ undo' = [undo EXCEPT ![u] = Append(@, op)]
                               /\ op.op # "Inserted" => Sees(pinned[u], op.old.xmin)
      <4>1. CASE Insert(u, r)
        <5>1. [op |-> "Inserted", row |-> r, old |-> NoVersion] \in UndoOp
          BY DEF UndoOp
        <5> QED BY <4>1, <5>1 DEF Insert, PushUndo
      <4>2. ASSUME NEW o \in {"Updated", "Deleted"}, PushUndo(u, o, r, chain[r][1]),
                   chain[r] # <<>>, Admitted(u, chain[r][1])
            PROVE  \E op \in UndoOp : /\ undo' = [undo EXCEPT ![u] = Append(@, op)]
                                      /\ op.op # "Inserted" => Sees(pinned[u], op.old.xmin)
        <5>1. chain[r][1] \in Version
          BY <1>0, <4>2
        <5>2. [op |-> o, row |-> r, old |-> chain[r][1]] \in UndoOp
          BY <5>1 DEF UndoOp
        <5>3. [op |-> o, row |-> r, old |-> chain[r][1]].old.xmin = chain[r][1].xmin
          OBVIOUS
        <5> QED BY <4>2, <5>2, <5>3 DEF PushUndo, Admitted
      <4>3. CASE Update(u, r)
        BY <4>2, <4>3 DEF Update
      <4>4. CASE Delete(u, r)
        BY <4>2, <4>4 DEF Delete
      <4> QED BY <2>5, <4>1, <4>3, <4>4
    <3>2. UNCHANGED <<live, level, beginVer, snap, pinned>>
      BY <2>5 DEF Insert, Update, Delete, txnVars
    <3>3. CASE u = t
      <4>1. undo'[t] = Append(undo[t], op)
        BY <1>0, <3>1, <3>3
      <4>2. LogMoves(t)
        BY <3>1, <3>3, <4>1 DEF LogMoves
      <4> QED BY <1>00, <1>1, <3>2, <4>2
    <3>4. CASE u # t
      BY <1>0, <1>3, <3>1, <3>2, <3>4
    <3> QED BY <3>3, <3>4
  <2>6. ASSUME NEW name \in SaveName, RollbackTo(u, name)
        PROVE  Kept1
    <3>1. UNCHANGED <<live, level, beginVer, snap, pinned>>
      BY <2>6 DEF RollbackTo, txnVars
    <3>2. PICK n \in 0..Len(undo[u]) : undo' = [undo EXCEPT ![u] = SubSeq(@, 1, n)]
      <4> DEFINE i == SaveAt(u, name)
                 n == saves[u][i].mark
      <4>1. i \in 1..Len(saves[u])
        BY <2>6, SaveAtType DEF RollbackTo
      <4>2. undo' = [undo EXCEPT ![u] = SubSeq(@, 1, n)]
        BY <2>6 DEF RollbackTo
      <4> HIDE DEF i
      <4>3. saves[u] \in Seq(SaveRec) /\ undo[u] \in Seq(UndoOp)
        BY <1>0
      <4>4. saves[u][i] \in SaveRec
        BY <4>1, <4>3
      <4>5. n \in Nat /\ n <= Len(undo[u]) /\ Len(undo[u]) \in Nat
        BY <1>0, <4>1, <4>3, <4>4 DEF SavesInv, SaveRec
      <4> HIDE DEF n
      <4>6. n \in 0..Len(undo[u])
        BY <4>5
      <4> QED BY <4>2, <4>6
    <3>3. CASE u = t
      <4>1. undo'[t] = SubSeq(undo[t], 1, n)
        BY <1>0, <3>2, <3>3
      <4>2. LogMoves(t)
        BY <3>2, <3>3, <4>1 DEF LogMoves
      <4> QED BY <1>00, <1>1, <3>1, <4>2
    <3>4. CASE u # t
      BY <1>0, <1>3, <3>1, <3>2, <3>4
    <3> QED BY <3>3, <3>4
  <2>7. ASSUME Forget(u)
        PROVE  Kept1
    <3>1. u # t
      BY <1>00, <2>7 DEF Forget
    <3> QED BY <1>0, <1>3, <2>7, <3>1 DEF Forget
  <2> QED BY <1>2, <1>4, <2>1, <2>2, <2>3, <2>4, <2>5, <2>6, <2>7
         DEF Session, Scan, IndexScan, WriteRefused, LockRow, LockRowRefused, LockTable, Savepoint,
             ReleaseSavepoint, Rollback, CommitStage, CommitAtOnce, CommitConflict,
             CommitAppendFails, Taken, FinishCommit, txnVars, stateVars, histVars
<1>5. ASSUME NEW u \in Txn, Engine(u)
      PROVE  Kept1
  <2>1. CASE CommitFinish(u)
    <3>1. Forget(u)
      BY <2>1 DEF CommitFinish, FinishCommit
    <3>2. u # t
      BY <1>00, <3>1 DEF Forget
    <3> QED BY <1>0, <1>3, <3>1, <3>2 DEF Forget
  <2> QED BY <1>2, <1>5, <2>1 DEF Engine, UndoStep, AbortEnd, txnVars, stateVars, histVars
<1>6. ASSUME NEW p \in Purger, PurgePass(p) \/ PurgeYield(p)
      PROVE  Kept1
  BY <1>2, <1>6 DEF PurgePass, PurgeStart, PurgeTable, PurgeRow, PurgeTableEnd, PurgeEnd,
              PurgeYield, txnVars, stateVars, histVars
<1>7. CASE UNCHANGED vars
  BY <1>2, <1>7 DEF vars, txnVars, stateVars, histVars
<1> QED BY <1>4, <1>5, <1>6, <1>7 DEF Next

\* A transaction outside the log's tables wrote none of their rows.
LEMMA UntouchedTable ==
    ASSUME TypeOK, MineInv, NEW u \in Txn, NEW tab, tab \notin Touched(u), NEW r \in RowsOf(tab)
    PROVE  (\A k \in 1..Len(undo[u]) : undo[u][k].row # r) /\ mine[u][r] = Untouched
<1>1. r \in Row /\ TableOf[r] = tab
  BY DEF RowsOf
<1>2. \A k \in 1..Len(undo[u]) : undo[u][k].row # r
  BY <1>1 DEF Touched
<1>3. MineIs(u, undo[u], Len(undo[u]), mine[u])
  BY DEF MineInv
<1>4. mine[u][r] = Untouched
  BY <1>1, <1>2, <1>3 DEF MineIs
<1> QED BY <1>2, <1>4

\* Transactions are finitely many, and so are the staged writers of a table.
LEMMA StagedFinite ==
    ASSUME TypeOK, NEW tab
    PROVE  /\ IsFiniteSet(StagedOn(tab)) /\ Cardinality(StagedOn(tab)) \in Nat
           /\ \A t \in StagedOn(tab) : Cardinality(StagedOn(tab) \ {t}) = Cardinality(StagedOn(tab)) - 1
           /\ \A t : t \notin StagedOn(tab) => Cardinality(StagedOn(tab) \cup {t}) = Cardinality(StagedOn(tab)) + 1
           /\ Cardinality(StagedOn(tab)) = 0 => StagedOn(tab) = {}
<1>1. IsFiniteSet(Txn)
  BY MvccAssumption, FS_Interval DEF Txn
<1>2. StagedOn(tab) \subseteq Txn
  BY DEF StagedOn, TypeOK, TxnTypeOK
<1>3. IsFiniteSet(StagedOn(tab))
  BY <1>1, <1>2, FS_Subset
<1>4. Cardinality(StagedOn(tab)) \in Nat
  BY <1>3, FS_CardinalityType
<1>5. \A t \in StagedOn(tab) : Cardinality(StagedOn(tab) \ {t}) = Cardinality(StagedOn(tab)) - 1
  BY <1>3, FS_RemoveElement
<1>6. \A t : t \notin StagedOn(tab) => Cardinality(StagedOn(tab) \cup {t}) = Cardinality(StagedOn(tab)) + 1
  BY <1>3, FS_AddElement
<1>7. Cardinality(StagedOn(tab)) = 0 => StagedOn(tab) = {}
  BY <1>3, FS_EmptySet
<1> QED BY <1>3, <1>4, <1>5, <1>6, <1>7

\* Write versions never fall, and a table whose staged version a step leaves
\* alone keeps its serial state.
LEMMA VersionsStep ==
    ASSUME LifeInv, TypeOK, MineInv, [Next]_vars, NEW tab \in Table
    PROVE  /\ finishedVer[tab] <= finishedVer'[tab] /\ stagedVer[tab] <= stagedVer'[tab]
           /\ stagedVer'[tab] = stagedVer[tab] => \A r \in RowsOf(tab) : serial'[r] = serial[r]
<1>0. stagedVer \in [Table -> Nat] /\ finishedVer \in [Table -> Nat] /\ serial \in [Row -> Tuple]
  BY DEF TypeOK, TxnTypeOK, HistTypeOK, Snapshots
<1>1. CASE UNCHANGED <<stagedVer, finishedVer, serial>>
  BY <1>0, <1>1
<1>2. ASSUME NEW t \in Txn, CommitStage(t) \/ CommitAtOnce(t)
      PROVE  /\ finishedVer[tab] <= finishedVer'[tab] /\ stagedVer[tab] <= stagedVer'[tab]
             /\ stagedVer'[tab] = stagedVer[tab] => \A r \in RowsOf(tab) : serial'[r] = serial[r]
  <2>1. /\ stagedVer' = Bumped(stagedVer, t) /\ finishedVer' \in {finishedVer, Bumped(finishedVer, t)}
        /\ serial' = WithWrites(serial, t)
    BY <1>2 DEF CommitStage, CommitAtOnce
  <2>2. /\ stagedVer'[tab] = IF tab \in Touched(t) THEN stagedVer[tab] + 1 ELSE stagedVer[tab]
        /\ finishedVer'[tab] \in {finishedVer[tab], finishedVer[tab] + 1}
    BY <2>1 DEF Bumped
  <2>3. stagedVer[tab] \in Nat /\ finishedVer[tab] \in Nat
    BY <1>0
  <2>4. ASSUME stagedVer'[tab] = stagedVer[tab], NEW r \in RowsOf(tab) PROVE serial'[r] = serial[r]
    <3>1. tab \notin Touched(t) /\ r \in Row
      BY <2>2, <2>3, <2>4 DEF RowsOf
    <3>2. mine[t][r] = Untouched
      BY <3>1, UntouchedTable
    <3> QED BY <2>1, <3>1, <3>2 DEF WithWrites
  <2> QED BY <2>2, <2>3, <2>4
<1>3. ASSUME NEW t \in Txn, CommitFinish(t)
      PROVE  /\ finishedVer[tab] <= finishedVer'[tab] /\ UNCHANGED <<stagedVer, serial>>
  BY <1>0, <1>3 DEF CommitFinish, Bumped
<1>4. ASSUME NEW t \in Txn, AbortEnd(t)
      PROVE  UNCHANGED <<stagedVer, finishedVer, serial>>
  BY <1>4 DEF AbortEnd, verVars
<1> QED BY <1>0, <1>1, <1>2, <1>3, <1>4, PointStep

\* Every step keeps the distance of a table's write versions.
LEMMA CountStep ==
    ASSUME LifeInv, TypeOK, CountInv, [Next]_vars
    PROVE  CountInv'
<1>0. /\ stagedVer \in [Table -> Nat] /\ finishedVer \in [Table -> Nat]
      /\ undo \in [Txn -> Seq(UndoOp)] /\ staged \subseteq Txn
  BY DEF TypeOK, TxnTypeOK, LogTypeOK
<1> SUFFICES ASSUME NEW tab \in Table
             PROVE  stagedVer'[tab] = finishedVer'[tab] + Cardinality(StagedOn(tab)')
  BY DEF CountInv
<1>1. /\ stagedVer[tab] = finishedVer[tab] + Cardinality(StagedOn(tab))
      /\ stagedVer[tab] \in Nat /\ finishedVer[tab] \in Nat
  BY <1>0 DEF CountInv
<1>2. ASSUME UNCHANGED <<stagedVer, finishedVer, staged>>, \A u \in staged : undo'[u] = undo[u]
      PROVE  stagedVer'[tab] = finishedVer'[tab] + Cardinality(StagedOn(tab)')
  <2>1. \A u \in staged : Touched(u)' = Touched(u)
    BY <1>2 DEF Touched
  <2>2. StagedOn(tab)' = StagedOn(tab)
    BY <1>2, <2>1 DEF StagedOn
  <2> QED BY <1>1, <1>2, <2>2
<1>3. ASSUME NEW t \in Txn, CommitStage(t)
      PROVE  stagedVer'[tab] = finishedVer'[tab] + Cardinality(StagedOn(tab)')
  <2>1. /\ staged' = staged \cup {t} /\ t \notin staged /\ UNCHANGED <<undo, finishedVer>>
        /\ stagedVer' = Bumped(stagedVer, t)
    BY <1>3 DEF CommitStage, Idle, stateVars
  <2>2. \A u : Touched(u)' = Touched(u)
    BY <2>1 DEF Touched
  <2>3. t \notin StagedOn(tab)
    BY <2>1 DEF StagedOn
  <2>4. StagedOn(tab)' = IF tab \in Touched(t) THEN StagedOn(tab) \cup {t} ELSE StagedOn(tab)
    BY <2>1, <2>2 DEF StagedOn
  <2>5. stagedVer'[tab] = IF tab \in Touched(t) THEN stagedVer[tab] + 1 ELSE stagedVer[tab]
    BY <2>1 DEF Bumped
  <2> QED BY <1>1, <2>1, <2>3, <2>4, <2>5, StagedFinite
<1>4. ASSUME NEW t \in Txn, CommitFinish(t)
      PROVE  stagedVer'[tab] = finishedVer'[tab] + Cardinality(StagedOn(tab)')
  <2>1. /\ staged' = staged \ {t} /\ t \in staged /\ UNCHANGED stagedVer
        /\ finishedVer' = Bumped(finishedVer, t) /\ undo' = [undo EXCEPT ![t] = <<>>]
    BY <1>4 DEF CommitFinish, FinishCommit, Forget
  <2>2. \A u \in staged' : Touched(u)' = Touched(u)
    BY <1>0, <2>1 DEF Touched
  <2>3. t \in StagedOn(tab) <=> tab \in Touched(t)
    BY <2>1 DEF StagedOn
  <2>4. StagedOn(tab)' = StagedOn(tab) \ {t}
    BY <2>1, <2>2 DEF StagedOn
  <2>5. StagedOn(tab)' = IF tab \in Touched(t) THEN StagedOn(tab) \ {t} ELSE StagedOn(tab)
    BY <2>3, <2>4
  <2>6. finishedVer'[tab] = IF tab \in Touched(t) THEN finishedVer[tab] + 1 ELSE finishedVer[tab]
    BY <2>1 DEF Bumped
  <2> QED BY <1>1, <2>1, <2>3, <2>5, <2>6, StagedFinite
<1>5. ASSUME NEW t \in Txn, CommitAtOnce(t)
      PROVE  stagedVer'[tab] = finishedVer'[tab] + Cardinality(StagedOn(tab)')
  <2>1. /\ UNCHANGED staged /\ t \notin staged /\ undo' = [undo EXCEPT ![t] = <<>>]
        /\ finishedVer' = Bumped(finishedVer, t) /\ stagedVer' = Bumped(stagedVer, t)
    BY <1>5 DEF CommitAtOnce, Idle, FinishCommit, Forget
  <2>2. \A u \in staged : Touched(u)' = Touched(u)
    BY <1>0, <2>1 DEF Touched
  <2>3. StagedOn(tab)' = StagedOn(tab)
    BY <2>1, <2>2 DEF StagedOn
  <2>4. /\ stagedVer'[tab] = IF tab \in Touched(t) THEN stagedVer[tab] + 1 ELSE stagedVer[tab]
        /\ finishedVer'[tab] = IF tab \in Touched(t) THEN finishedVer[tab] + 1 ELSE finishedVer[tab]
    BY <2>1 DEF Bumped
  <2> QED BY <1>1, <2>3, <2>4, StagedFinite
<1>6. ASSUME NEW t \in Txn, AbortEnd(t)
      PROVE  stagedVer'[tab] = finishedVer'[tab] + Cardinality(StagedOn(tab)')
  BY <1>2, <1>6 DEF AbortEnd, verVars, stateVars
<1> QED BY <1>2, <1>3, <1>4, <1>5, <1>6, PointStep

\* A table without staged writers is in the state commits produced so far.
LEMMA NothingStaged ==
    ASSUME VersionInv, MineInv, CommittedInv, SerialInv, NEW tab \in Table, StagedOn(tab) = {},
           NEW r \in RowsOf(tab)
    PROVE  serial[r] = committed[r]
<1> DEFINE S == Txn \ (active \ staged)
           T == Txn \ active
<1>0. /\ TypeOK /\ LifeInv /\ r \in Row /\ chain[r] \in Seq(Version) /\ staged \subseteq live /\ live \subseteq active
      /\ staged \subseteq Txn /\ undo \in [Txn -> Seq(UndoOp)]
  BY DEF VersionInv, BaseInv, LifeInv, LockInv, TypeOK, TxnTypeOK, RowTypeOK, LogTypeOK, RowsOf
<1>1. \A u \in staged : \A i \in 1..Len(chain[r]) : chain[r][i].xmin # u /\ chain[r][i].xmax # u
  <2> TAKE u \in staged
  <2>1. u \in Txn /\ u \in active /\ undoing[u] = <<>> /\ undo[u] \in Seq(UndoOp)
    BY <1>0 DEF LifeInv
  <2>2. Log(u) = undo[u]
    BY <2>1, ConcatEmptySeq DEF Log
  <2>3. tab \notin Touched(u)
    BY DEF StagedOn
  <2>4. \A k \in 1..Len(undo[u]) : undo[u][k].row # r
    BY <1>0, <2>1, <2>3, UntouchedTable
  <2>5. Linked(u, undo[u], r, chain[r])
    BY <1>0, <2>1, <2>2 DEF VersionInv, StoryInv
  <2> QED BY <2>4, <2>5, UntouchedRow
<1>2. \A i \in 1..Len(chain[r]) : (chain[r][i].xmin \in S <=> chain[r][i].xmin \in T)
                                  /\ (chain[r][i].xmax \in S <=> chain[r][i].xmax \in T)
  BY <1>0, <1>1
<1>3. Value(S, chain[r], serial[r]) /\ Value(T, chain[r], committed[r])
  BY <1>0 DEF SerialInv, CommittedInv
<1> HIDE DEF S, T
<1>4. Value(T, chain[r], serial[r])
  BY <1>0, <1>2, <1>3, ValueSame
<1> QED BY <1>0, <1>3, <1>4, OneValue

\* Every step keeps what the write versions tell a SERIALIZABLE transaction.
LEMMA BeginStep ==
    ASSUME VersionInv, MineInv, CommittedInv, SerialInv, CountInv, BeginInv, PlainReads, PlainReads',
           [Next]_vars
    PROVE  BeginInv'
<1>0. /\ LockInv /\ TypeOK /\ TypeOK' /\ LifeInv /\ beginVer \in [Txn -> [Table -> Nat]]
      /\ stagedVer \in [Table -> Nat] /\ finishedVer \in [Table -> Nat]
      /\ stagedVer' \in [Table -> Nat] /\ finishedVer' \in [Table -> Nat]
  <2>1. LockInv /\ TypeOK /\ SavesInv /\ LifeInv
    BY DEF VersionInv, BaseInv, LockInv
  <2>2. TypeOK'
    BY <2>1, TypeStep
  <2> QED BY <2>1, <2>2 DEF TypeOK, TxnTypeOK
<1> SUFFICES ASSUME NEW t \in SerialTxns', NEW tab \in Table
             PROVE  /\ beginVer'[t][tab] <= finishedVer'[tab]
                    /\ stagedVer'[tab] = beginVer'[t][tab] =>
                          \A r \in RowsOf(tab) : serial'[r] = snap'[t][r]
  BY DEF BeginInv, RowsOf
<1>1. CASE Begin(t, "Serializable")
  <2>1. t \in Txn
    BY <1>0 DEF SerialTxns, TypeOK, TxnTypeOK
  <2>2. beginVer'[t] = finishedVer /\ snap'[t] = committed /\ UNCHANGED <<finishedVer, stagedVer, serial>>
    <3>1. snap \in [Txn -> Snapshots]
      BY <1>0 DEF TypeOK, HistTypeOK
    <3> QED BY <1>0, <1>1, <2>1, <3>1 DEF Begin, verVars
  <2>3. finishedVer[tab] \in Nat /\ stagedVer[tab] \in Nat
    BY <1>0
  <2>4. ASSUME stagedVer[tab] = finishedVer[tab], NEW r \in RowsOf(tab) PROVE serial[r] = committed[r]
    <3>1. stagedVer[tab] = finishedVer[tab] + Cardinality(StagedOn(tab))
      BY DEF CountInv
    <3>2. Cardinality(StagedOn(tab)) \in Nat
      BY <1>0, StagedFinite
    <3>4. Cardinality(StagedOn(tab)) = 0
      BY <2>3, <2>4, <3>1, <3>2
    <3>3. StagedOn(tab) = {}
      BY <1>0, <3>4, StagedFinite
    <3> QED BY <3>3, NothingStaged
  <2> QED BY <2>2, <2>3, <2>4
<1>2. CASE t \in SerialTxns /\ beginVer'[t] = beginVer[t] /\ snap'[t] = snap[t]
  <2>1. t \in Txn
    BY <1>0, <1>2 DEF SerialTxns, TypeOK, TxnTypeOK
  <2>2. /\ beginVer[t][tab] <= finishedVer[tab]
        /\ stagedVer[tab] = beginVer[t][tab] => \A r \in RowsOf(tab) : serial[r] = snap[t][r]
    BY <1>2 DEF BeginInv
  <2>3. /\ finishedVer[tab] <= finishedVer'[tab] /\ stagedVer[tab] <= stagedVer'[tab]
        /\ stagedVer'[tab] = stagedVer[tab] => \A r \in RowsOf(tab) : serial'[r] = serial[r]
    BY <1>0, VersionsStep
  <2>4. finishedVer[tab] <= stagedVer[tab]
    <3>1. stagedVer[tab] = finishedVer[tab] + Cardinality(StagedOn(tab))
      BY DEF CountInv
    <3>2. Cardinality(StagedOn(tab)) \in Nat /\ finishedVer[tab] \in Nat
      BY <1>0, StagedFinite
    <3> QED BY <3>1, <3>2
  <2>5. /\ beginVer[t][tab] \in Nat /\ finishedVer[tab] \in Nat /\ stagedVer[tab] \in Nat
        /\ finishedVer'[tab] \in Nat /\ stagedVer'[tab] \in Nat
    BY <1>0, <2>1
  <2>6. beginVer'[t][tab] <= finishedVer'[tab]
    BY <1>2, <2>2, <2>3, <2>5
  <2>7. stagedVer'[tab] = beginVer[t][tab] => stagedVer'[tab] = stagedVer[tab]
    BY <2>2, <2>3, <2>4, <2>5
  <2> QED BY <1>2, <2>2, <2>3, <2>6, <2>7
<1> QED BY <1>0, <1>1, <1>2, SerialTxnStep

\* Every step keeps what SERIALIZABLE transactions wrote over.
LEMMA OldSeenStep ==
    ASSUME LockInv, LifeInv, OldSeenInv, PlainReads, PlainReads', [Next]_vars
    PROVE  OldSeenInv'
<1>0. /\ TypeOK /\ undo \in [Txn -> Seq(UndoOp)] /\ live \subseteq Txn /\ active \subseteq Txn
      /\ \A u \in active \cup live : u < nextTxn
      /\ nextTxn \in Nat
  BY DEF LockInv, TypeOK, LogTypeOK, TxnTypeOK, IdsBelow
<1> SUFFICES ASSUME NEW t \in SerialTxns', NEW k \in 1..Len(undo'[t]), undo'[t][k].op # "Inserted"
             PROVE  Sees(pinned'[t], undo'[t][k].old.xmin)
  BY DEF OldSeenInv, Sees
<1>1. CASE Begin(t, "Serializable")
  <2>1. t = nextTxn /\ nextTxn <= MaxTxn /\ UNCHANGED undo
    BY <1>1 DEF Begin
  <2>2. t \in Txn /\ t \notin live
    BY <1>0, <2>1, MvccAssumption DEF LockInv, TypeOK, TxnTypeOK, Txn
  <2>3. undo'[t] = <<>>
    BY <2>1, <2>2 DEF LifeInv
  <2> QED BY <2>3
<1>2. CASE t \in SerialTxns /\ pinned'[t] = pinned[t] /\ LogMoves(t)
  <2>0. t \in Txn /\ undo[t] \in Seq(UndoOp) /\ Len(undo[t]) \in Nat
    BY <1>0, <1>2 DEF SerialTxns
  <2>1. \A j \in 1..Len(undo[t]) : undo[t][j].op # "Inserted" => Sees(pinned[t], undo[t][j].old.xmin)
    BY <1>2 DEF OldSeenInv
  <2>2. CASE k \in 1..Len(undo[t]) /\ undo'[t][k] = undo[t][k]
    BY <1>2, <2>1, <2>2
  <2>3. CASE undo'[t] = undo[t]
    BY <2>2, <2>3
  <2>4. ASSUME NEW n \in 0..Len(undo[t]), undo'[t] = SubSeq(undo[t], 1, n)
        PROVE  Sees(pinned'[t], undo'[t][k].old.xmin)
    <3>1. k \in 1..Len(undo[t]) /\ undo'[t][k] = undo[t][k]
      BY <2>0, <2>4, SubSeqProperties
    <3> QED BY <2>2, <3>1
  <2>5. ASSUME NEW op \in UndoOp, undo'[t] = Append(undo[t], op),
               op.op # "Inserted" => Sees(pinned[t], op.old.xmin)
        PROVE  Sees(pinned'[t], undo'[t][k].old.xmin)
    <3>1. (k \in 1..Len(undo[t]) /\ undo'[t][k] = undo[t][k]) \/ undo'[t][k] = op
      BY <2>0, <2>5, PushFacts
    <3> QED BY <1>2, <2>2, <2>5, <3>1
  <2> QED BY <1>2, <2>3, <2>4, <2>5 DEF LogMoves
<1> QED BY <1>1, <1>2, SerialTxnStep

\* A row that the commit check of a SERIALIZABLE transaction lets pass reads the
\* same through what has ended or is staged as through the snapshot.
LEMMA UnconflictedRow ==
    ASSUME SnapshotInv, SerialInv, OldSeenInv, PlainReads, NEW t \in SerialTxns, Idle(t),
           NEW r \in Row, ~RowConflict(t, r)
    PROVE  serial[r] = snap[t][r]
<1> DEFINE v == pinned[t]
           c == chain[r]
           L == undo[t]
           S == Txn \ (active \ staged)
           T == SeenBy(v)
<1>0. /\ t \in live /\ t \in Txn /\ t \in active /\ t \notin staged /\ undoing[t] = <<>>
      /\ L \in Seq(UndoOp) /\ c \in Seq(Version) /\ Len(c) \in Nat
  <2>1. TypeOK /\ LifeInv
    BY DEF SnapshotInv, VersionInv, BaseInv, LockInv
  <2> QED BY <2>1 DEF LifeInv, TypeOK, TxnTypeOK, LogTypeOK, RowTypeOK, SerialTxns, Idle
<1>1. Log(t) = L
  BY <1>0, ConcatEmptySeq DEF Log
<1>2. Linked(t, L, r, c) /\ Ordered(active, c)
  BY <1>0, <1>1 DEF SnapshotInv, VersionInv, StoryInv
<1>3. \A k \in 1..Len(L) : L[k].op # "Inserted" => Sees(v, L[k].old.xmin)
  BY DEF OldSeenInv
<1>4. Value(S, c, serial[r])
  BY DEF SerialInv
<1>5. /\ Value(T, c, snap[t][r]) /\ v.own = t
      /\ \A u \in active \ {t} : u < v.horizon => u \in v.active
  <2>1. PICK h \in Holds(t) : h = <<pinned[t], snap[t]>>
    BY DEF Holds
  <2>2. h[1] = v /\ h[2] = snap[t]
    BY <2>1
  <2>3. ViewOK(t, h[1], h[2])
    BY <1>0 DEF SnapshotInv, ViewsInv
  <2> QED BY <2>2, <2>3 DEF ViewOK
<1>6. Snapshot(t) = v
  BY DEF Snapshot, PlainReads
<1>7. T \cap active = {} /\ T \subseteq S /\ t \notin T /\ t \notin S
  BY <1>0, <1>5 DEF SeenBy
<1>8. \A x \in Txn : Sees(v, x) <=> (x = t \/ x \in T)
  BY <1>5 DEF Sees, SeenBy
<1>9. \A i \in 1..Len(c) : c[i].xmin \in Txn /\ c[i].xmax \in Txn \cup {NoTxn}
  <2>1. \A i \in 1..Len(c) : c[i] \in Version
    BY <1>0
  <2> HIDE DEF c
  <2> QED BY <2>1 DEF Version
<1>10. NoTxn \notin S /\ NoTxn \notin T
  BY DEF SeenBy, Txn, NoTxn
\* What the walk found: down to the first version the view sees, no stamp of a
\* transaction that has ended or is staged is one the view does not see.
<1>11. ASSUME NEW i \in 1..Len(c), \A j \in 1..(i - 1) : ~Sees(v, c[j].xmin)
       PROVE  (c[i].xmin \in S => c[i].xmin \in T) /\ (c[i].xmax \in S => c[i].xmax \in T)
  <2>1. ~Conflicting(t, c[i].xmin) /\ (c[i].xmax # NoTxn => ~Conflicting(t, c[i].xmax))
    BY <1>6, <1>11 DEF RowConflict
  <2>2. \A x \in Txn : ~Conflicting(t, x) /\ x \in S => x \in T
    BY <1>6, <1>7, <1>8 DEF Conflicting
  <2> HIDE DEF S, T, c
  <2> QED BY <1>9, <1>10, <2>1, <2>2
<1>12. S \cap active \subseteq staged /\ \A x \in Txn : x \notin S => x \in active
  OBVIOUS
<1> HIDE DEF v, c, L, S, T
<1>13. CASE (\A i \in 1..Len(c) : c[i].xmin \notin S) /\ serial[r] = NoTuple
  <2>1. \A i \in 1..Len(c) : c[i].xmin \notin T
    BY <1>7, <1>13
  <2>2. Value(T, c, serial[r])
    BY <1>13, <2>1 DEF Value
  <2> QED BY <1>0, <1>5, <2>2, OneValue
<1>14. ASSUME NEW i \in 1..Len(c), Decides(S, c, i),
              serial[r] = IF c[i].xmax \in S THEN NoTuple ELSE c[i].tuple
       PROVE  serial[r] = snap[t][r]
  <2>1. c[i].xmin \in S /\ \A j \in 1..(i - 1) : c[j].xmin \notin S /\ c[j].xmin \notin T
    BY <1>7, <1>14 DEF Decides
  <2>2. ASSUME c[i].xmin \in T, c[i].xmax \in S <=> c[i].xmax \in T
        PROVE  serial[r] = snap[t][r]
    <3>1. Decides(T, c, i)
      BY <2>1, <2>2 DEF Decides
    <3>2. Value(T, c, serial[r])
      BY <1>14, <2>2, <3>1 DEF Value
    <3> QED BY <1>0, <1>5, <3>2, OneValue
  <2>3. CASE \A j \in 1..(i - 1) : ~Sees(v, c[j].xmin)
    BY <1>7, <1>11, <2>1, <2>2, <2>3
  <2>4. CASE \E j \in 1..(i - 1) : Sees(v, c[j].xmin)
    <3>1. PICK j \in 1..(i - 1) : Sees(v, c[j].xmin)
      BY <2>4
    <3>2. i - 1 \in 1..Len(c) /\ j \in 1..Len(c) /\ i \in 2..Len(c) /\ j \in 1..(i - 1)
          /\ i - 1 \in 1..(i - 1) /\ (i - 1) + 1 = i
      BY <1>0, <3>1
    <3>3. c[j].xmin = t
      BY <1>8, <1>9, <2>1, <3>1, <3>2
    <3>4. c[i - 1].xmin \in active
      BY <1>9, <1>12, <2>1, <3>2
    <3>5. c[i - 1].xmin = t
      BY <1>2, <3>2, <3>3, <3>4 DEF Ordered
    <3>6. PICK k \in 1..Len(L) : L[k].op = "Updated" /\ c[i] = L[k].old
      <4> DEFINE m == c[i - 1].tuple[2]
                 n == i - 1
      <4>1. /\ m \in 1..Len(L)
            /\ \/ L[m].op = "Inserted" /\ n = Len(c)
               \/ L[m].op = "Updated" /\ n < Len(c) /\ c[n + 1] = L[m].old
        BY <1>2, <3>2, <3>5 DEF Linked
      <4>2. n # Len(c) /\ n + 1 = i
        BY <1>0, <3>2
      <4> HIDE DEF m, n
      <4> QED BY <4>1, <4>2
    <3>7. Sees(v, c[i].xmin)
      BY <1>3, <3>6
    <3>8. c[i].xmin \in T
      BY <1>7, <1>8, <1>9, <2>1, <3>7
    <3>9. c[i].xmax = NoTxn
      BY <1>2, <3>2 DEF Ordered
    <3> QED BY <1>10, <2>2, <3>8, <3>9
  <2> QED BY <2>3, <2>4
<1> QED BY <1>4, <1>13, <1>14 DEF Value

\* The invariant behind SerializableRowReads.
SerializableInv == SnapshotInv /\ SerialInv /\ CountInv /\ BeginInv /\ OldSeenInv

\* A SERIALIZABLE transaction passes its commit point only through the check.
LEMMA CommitChecked ==
    ASSUME SerializableInv, [Next]_vars, PlainReads, NEW t \in SerialTxns, Committing(t)
    PROVE  Idle(t) /\ ~SerializableReadConflict(t)
<1>0. TypeOK /\ LifeInv
  BY DEF SerializableInv, SnapshotInv, VersionInv, BaseInv, LockInv
<1>1. t \in live /\ t \in active
  BY <1>0 DEF SerialTxns, LifeInv
<1>2. ~(active \subseteq active' /\ UNCHANGED staged)
  BY <1>1 DEF Committing
<1>3. PICK u \in Txn : CommitStage(u) \/ AbortEnd(u) \/ CommitFinish(u) \/ CommitAtOnce(u)
  BY <1>0, <1>2, PointStep
<1>4. CASE CommitStage(u)
  <2>1. u = t
    BY <1>1, <1>4 DEF CommitStage, Committing
  <2> QED BY <1>4, <2>1 DEF CommitStage
<1>5. CASE CommitAtOnce(u)
  <2>1. u = t
    BY <1>1, <1>5 DEF CommitAtOnce, FinishCommit, Committing
  <2> QED BY <1>5, <2>1 DEF CommitAtOnce
<1>6. CASE CommitFinish(u)
  BY <1>1, <1>6 DEF CommitFinish, FinishCommit, Committing
<1>7. CASE AbortEnd(u)
  BY <1>1, <1>7 DEF AbortEnd, Committing
<1> QED BY <1>3, <1>4, <1>5, <1>6, <1>7

\* Serializability of row reads: in every behaviour in which no SERIALIZABLE
\* transaction runs DDL that reads fresh, every row that such a transaction read
\* has, when it commits, the value its snapshot showed in the state all earlier
\* commits produce in staging order.
THEOREM RowReadsSerialize == Spec /\ []PlainReads => SerializableRowReads
<1>1. Init => SerialInv /\ CountInv /\ BeginInv /\ OldSeenInv
  <2> SUFFICES ASSUME Init PROVE SerialInv /\ CountInv /\ BeginInv /\ OldSeenInv
    OBVIOUS
  <2>1. BeginInv /\ OldSeenInv
    BY DEF Init, BeginInv, OldSeenInv, SerialTxns
  <2>2. CountInv
    <3>1. \A tab \in Table : StagedOn(tab) = {}
      BY DEF Init, StagedOn
    <3>2. Cardinality({}) = 0
      BY FS_EmptySet
    <3>3. \A tab \in Table : stagedVer[tab] = 0 /\ finishedVer[tab] = 0
      BY DEF Init
    <3>4. ASSUME NEW tab \in Table
          PROVE  stagedVer[tab] = finishedVer[tab] + Cardinality(StagedOn(tab))
      <4>1. stagedVer[tab] = 0 /\ finishedVer[tab] = 0 /\ Cardinality(StagedOn(tab)) = 0
        BY <3>1, <3>2, <3>3
      <4> QED BY <4>1
    <3> QED BY <3>4 DEF CountInv
  <2>3. SerialInv
    <3> SUFFICES ASSUME NEW r \in Row PROVE Value(Txn \ (active \ staged), chain[r], serial[r])
      BY DEF SerialInv
    <3>1. /\ Txn \ (active \ staged) = Txn /\ serial[r] = InitTuple(r)
          /\ chain[r] = IF r \in InitRows THEN <<[xmin |-> Loader, xmax |-> NoTxn, tuple |-> InitTuple(r)]>>
                                          ELSE <<>>
      BY DEF Init
    <3>2. CASE r \notin InitRows
      BY <3>1, <3>2 DEF Value, InitTuple
    <3>3. CASE r \in InitRows
      <4>1. /\ Len(chain[r]) = 1 /\ chain[r][1].xmin = Loader /\ chain[r][1].xmax = NoTxn
            /\ chain[r][1].tuple = InitTuple(r)
        BY <3>1, <3>3
      <4>2. Loader \in Txn /\ NoTxn \notin Txn
        BY MvccAssumption DEF Loader, Txn, NoTxn
      <4>3. Decides(Txn, chain[r], 1)
        BY <4>1, <4>2 DEF Decides
      <4>4. chain[r][1].xmax \notin Txn /\ 1 \in 1..Len(chain[r])
        BY <4>1, <4>2
      <4>5. Value(Txn, chain[r], serial[r])
        BY <3>1, <4>1, <4>3, <4>4 DEF Value
      <4> QED BY <3>1, <4>5
    <3> QED BY <3>2, <3>3
  <2> QED BY <2>1, <2>2, <2>3
<1>2. /\ SnapshotInv /\ SerialInv /\ CountInv /\ BeginInv /\ OldSeenInv
      /\ PlainReads /\ PlainReads' /\ [Next]_vars
      => SerialInv' /\ CountInv' /\ BeginInv' /\ OldSeenInv'
  <2> SUFFICES ASSUME SnapshotInv, SerialInv, CountInv, BeginInv, OldSeenInv,
                      PlainReads, PlainReads', [Next]_vars
               PROVE  SerialInv' /\ CountInv' /\ BeginInv' /\ OldSeenInv'
    OBVIOUS
  <2>1. VersionInv /\ MineInv /\ CommittedInv /\ LockInv /\ LifeInv /\ TypeOK
    BY DEF SnapshotInv, VersionInv, BaseInv, LockInv
  <2>2. SerialInv'
    BY <2>1, SerialStep
  <2>3. CountInv'
    BY <2>1, CountStep
  <2>4. BeginInv'
    BY <2>1, BeginStep
  <2>5. OldSeenInv'
    BY <2>1, OldSeenStep
  <2> QED BY <2>2, <2>3, <2>4, <2>5
<1>3. SnapshotInv /\ SerialInv /\ CountInv /\ BeginInv /\ OldSeenInv /\ PlainReads /\ [Next]_vars =>
        [\A t \in live : (Committing(t) /\ level[t] = "Serializable") =>
            \A r \in reads[t] : serial[r] = SnapshotOf(t)[r]]_vars
  <2> SUFFICES ASSUME SnapshotInv, SerialInv, CountInv, BeginInv, OldSeenInv, PlainReads, [Next]_vars,
                      NEW t \in live, Committing(t), level[t] = "Serializable", NEW r \in reads[t]
               PROVE  serial[r] = SnapshotOf(t)[r]
    OBVIOUS
  <2>1. t \in SerialTxns /\ t \in Txn /\ r \in Row
    BY DEF SerialTxns, SnapshotInv, VersionInv, BaseInv, LockInv, TypeOK, TxnTypeOK
  <2>2. SnapshotOf(t) = snap[t]
    BY <2>1 DEF SnapshotOf, PlainReads
  <2>3. Idle(t) /\ ~SerializableReadConflict(t)
    BY <2>1, CommitChecked DEF SerializableInv
  <2>4. ~WriteMoved(t, TableOf[r]) \/ ~RowConflict(t, r)
    BY <2>3 DEF SerializableReadConflict
  <2>5. CASE ~WriteMoved(t, TableOf[r])
    <3>1. TableOf[r] \in Table /\ r \in RowsOf(TableOf[r])
      BY <2>1, MvccAssumption DEF RowsOf
    <3> QED BY <2>1, <2>2, <2>5, <3>1 DEF BeginInv, WriteMoved
  <2>6. CASE ~RowConflict(t, r)
    BY <2>1, <2>2, <2>3, <2>6, UnconflictedRow
  <2> QED BY <2>4, <2>5, <2>6
<1> QED BY <1>1, <1>2, <1>3, ViewsTellTheStory, PTL DEF Spec, SerializableRowReads

\* Where begin_fresh_reads never runs, nobody reads fresh.
NoFreshReads == MaxFresh = 0 => \A t \in Txn : fresh[t].depth = 0

\* Only begin_fresh_reads and end_fresh_reads touch the nesting of a transaction
\* that stays.
LEMMA FreshDepthStep ==
    ASSUME TypeOK, NoFreshReads, [Next]_vars
    PROVE  NoFreshReads'
<1> SUFFICES ASSUME MaxFresh = 0, NEW t \in Txn PROVE fresh'[t].depth = 0
  BY DEF NoFreshReads
<1>0. fresh \in [Txn -> FreshState] /\ \A u \in Txn : fresh[u].depth = 0
  BY DEF NoFreshReads, TypeOK, ViewTypeOK
<1>1. CASE UNCHANGED fresh
  BY <1>0, <1>1
<1>2. ASSUME NEW u \in Txn, Forget(u)
      PROVE  fresh'[t].depth = 0
  <2>1. fresh'[t] \in {fresh[t], NoFresh}
    BY <1>0, <1>2 DEF Forget
  <2> QED BY <1>0, <2>1 DEF NoFresh
<1>3. ASSUME NEW u \in Txn, BeginFreshReads(u) \/ EndFreshReads(u)
      PROVE  FALSE
  BY <1>0, <1>3 DEF BeginFreshReads, EndFreshReads
<1>4. ASSUME NEW u \in Txn, Session(u)
      PROVE  fresh'[t].depth = 0
  BY <1>1, <1>2, <1>3, <1>4
         DEF Session, Begin, BeginStatement, Scan, IndexScan, Insert, Update, Delete, WriteRefused,
             LockRow, LockRowRefused, LockTable, Savepoint, RollbackTo, ReleaseSavepoint, Rollback,
             CommitStage, CommitAtOnce, CommitConflict, CommitAppendFails, Taken, FinishCommit,
             stateVars
<1>5. ASSUME NEW u \in Txn, Engine(u)
      PROVE  fresh'[t].depth = 0
  BY <1>1, <1>2, <1>5 DEF Engine, UndoStep, AbortEnd, CommitFinish, FinishCommit, stateVars
<1>6. ASSUME NEW p \in Purger, PurgePass(p) \/ PurgeYield(p)
      PROVE  UNCHANGED fresh
  BY <1>6 DEF PurgePass, PurgeStart, PurgeTable, PurgeRow, PurgeTableEnd, PurgeEnd,
              PurgeYield, stateVars
<1>7. CASE UNCHANGED vars
  BY <1>1, <1>7 DEF vars, stateVars
<1> QED BY <1>1, <1>4, <1>5, <1>6, <1>7 DEF Next

\* In particular, where nobody runs such DDL, all row reads of SERIALIZABLE
\* transactions serialize.
COROLLARY RowReadsSerializeWithoutDdl ==
    ASSUME MaxFresh = 0
    PROVE  Spec => SerializableRowReads
<1>1. Init => NoFreshReads
  BY DEF Init, NoFreshReads, NoFresh
<1>2. TypeOK /\ NoFreshReads /\ [Next]_vars => NoFreshReads'
  BY FreshDepthStep
<1>3. TypeOK /\ NoFreshReads => PlainReads
  BY DEF NoFreshReads, PlainReads, SerialTxns, TypeOK, TxnTypeOK
<1> QED BY <1>1, <1>2, <1>3, TypeCorrect, RowReadsSerialize, PTL DEF Spec
=============================================================================
