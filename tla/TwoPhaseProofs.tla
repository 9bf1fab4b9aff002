---------------------------- MODULE TwoPhaseProofs ----------------------------
(***************************************************************************)
(* Two-phase commit keeps its promises for any number of transactions,     *)
(* rows, names, checkpoints and crashes: proofs about module TwoPhase.      *)
(*                                                                         *)
(* The invariant speaks of one sequence, the disk: what open would read.    *)
(* Its first half holds of every cut of it, so of what a crash leaves; its  *)
(* second half says what the running engine owes to it.  Both are given up  *)
(* once a restart has read the frame of an append that failed (misread).    *)
(* A second invariant, at the end, says what the disk shows of every row.    *)
(***************************************************************************)
EXTENDS TwoPhase, FiniteSetTheorems, WellFoundedInduction, TLAPS

-----------------------------------------------------------------------------
(* Types                                                                   *)

Valued == Txn \cup {NoValue}
Records ==
    [kind : {"op"}, txn : Txn, row : Row, val : Valued] \cup [kind : {"begin"}, txn : Txn]
    \cup [kind : {"prepare"}, txn : Txn, gid : Gid, locks : SUBSET Row]
    \cup [kind : {"commit", "abort"}, txn : Txn]
    \cup [kind : {"image"}, txn : Txn, rows : [Row -> Valued]]
Frames == [lsn : 1..MaxLsn, rec : Records]

Statuses == {"none", "running", "refused", "prepared", "committing", "aborting", "committed",
             "aborted"}

LogType ==
    /\ nextLsn \in 1..(MaxLsn + 1) /\ durable \in 0..(nextLsn - 1) /\ covered \in 0..(nextLsn - 1)
    /\ log \in Seq(Frames) /\ image \in Seq(Records) /\ ckpt \in BOOLEAN
WaitType ==
    preparing \in [Txn -> 0..(nextLsn - 1)] /\ finishing \in [Txn -> 0..(nextLsn - 1)]
TxnType ==
    /\ nextTxn \in 1..(MaxTxn + 1)
    /\ status \in [Txn -> Statuses]
    /\ sets \in [Txn -> Nets]
    /\ lock \in [Row -> Txn \cup {Nobody}] /\ gids \in [Gid -> Txn \cup {Nobody}]
    /\ gate \in Txn \cup {Nobody}
    /\ rows \in [Row -> Valued]
HistType ==
    /\ base \in [Row -> Valued]
    /\ promised \in [Txn -> {"open", "prepared", "committed", "aborted"}]
    /\ folded \subseteq Txn
    /\ mode \in {"up", "down", "refused"} /\ stray \in BOOLEAN /\ misread \in BOOLEAN
TypeInv == LogType /\ WaitType /\ TxnType /\ HistType

-----------------------------------------------------------------------------
(* What clients were told, and the transaction table                       *)

Ended(t) == status[t] \in {"committed", "aborted"}

\* In every mode.
PromiseOf(t) ==
    /\ t >= nextTxn <=> status[t] = "none"
    /\ t \in folded => Ended(t)
    /\ promised[t] = "committed" => status[t] = "committed"
    /\ promised[t] = "aborted" => status[t] = "aborted"
    /\ promised[t] = "prepared" => status[t] \notin {"none", "running", "refused"}
PromiseInv == \A t \in Txn : PromiseOf(t)

\* Of a running engine.
MemoryOf(t) ==
    /\ status[t] = "prepared" <=> \E g \in Gid : gids[g] = t
    /\ \A g, h \in Gid : gids[g] = t /\ gids[h] = t => g = h
    /\ \A r \in DOMAIN sets[t] : lock[r] = t
    /\ preparing[t] # 0 =>
          status[t] \notin {"none", "running", "refused"} /\ promised[t] # "prepared"
    /\ status[t] = "refused" => stray
MemoryInv ==
    /\ \A t \in Txn : MemoryOf(t)
    /\ ckpt => Running = {} /\ covered = nextLsn - 1

\* The positions of the log climb, as long as none is used twice.
Climbs ==
    /\ \A i, j \in 1..Len(log) : i < j => log[i].lsn < log[j].lsn
    /\ \A i \in 1..Len(log) : log[i].lsn < nextLsn

-----------------------------------------------------------------------------
(* The disk                                                                *)

Disk == DiskWith(log)

\* The records that count: a checkpoint about to truncate leaves the image alone.
Kept == IF ckpt THEN image ELSE Disk

Is(rec, t, k) == rec.txn = t /\ rec.kind = k
IsEnd(rec) == rec.kind \in {"commit", "abort"}
Has(d, t, k) == \E p \in 1..Len(d) : Is(d[p], t, k)

Once(d) == \A p, q \in 1..Len(d) :
    d[p].kind = "prepare" /\ d[q].kind = "prepare" /\ d[p].txn = d[q].txn => p = q
OneWay(d) == \A p, q \in 1..Len(d) :
    ~(d[p].kind = "commit" /\ d[q].kind = "abort" /\ d[p].txn = d[q].txn)

\* A prepared transaction has the lock of every row it ever wrote.
Locked(d) == \A p, q \in 1..Len(d) :
    d[p].kind = "op" /\ d[q].kind = "prepare" /\ d[p].txn = d[q].txn => d[p].row \in d[q].locks

\* A name or a lock goes to another transaction only once its holder has ended.
Handed(d) == \A p, q \in 1..Len(d) :
    /\ p < q /\ d[p].kind = "prepare" /\ d[q].kind = "prepare"
    /\ d[p].gid = d[q].gid \/ d[p].locks \cap d[q].locks # {}
    => \E e \in 1..q : IsEnd(d[e]) /\ d[e].txn = d[p].txn

\* Nothing is left of what the image folded in but the image itself.
Folds(d) == \A p \in 1..Len(d) :
    d[p].txn < nextTxn /\ (d[p].txn \in folded <=> d[p].kind = "image")

\* Of every cut of the disk.
Cuts(d) == Once(d) /\ OneWay(d) /\ Locked(d) /\ Handed(d)
CutInv(d) == Cuts(d) /\ Folds(d)

-----------------------------------------------------------------------------
(* What a running engine owes to the disk                                  *)

Lsn(d, p) == log[Len(log) - Len(d) + p].lsn

\* A record of kind k of t is there whatever is cut, or is the one at position n.
Safe(d, p) == p <= Len(image) \/ Lsn(d, p) <= durable
Marked(d, t, k, n) ==
    \E p \in 1..Len(d) : Is(d[p], t, k) /\ (Safe(d, p) \/ Lsn(d, p) = n)

KindOk(rec) == LET s == status[rec.txn] IN
    /\ rec.kind = "op" /\ s = "running" => lock[rec.row] = rec.txn
    /\ rec.kind = "prepare" => s # "running"
    /\ rec.kind = "commit" => s \in {"committing", "committed"}
    /\ rec.kind = "abort" => s \in {"aborting", "aborted"}
    /\ rec.kind = "prepare" /\ s = "prepared" =>
          gids[rec.gid] = rec.txn /\ \A r \in rec.locks : lock[r] = rec.txn
Kinds(d) == \A p \in 1..Len(d) : KindOk(d[p])

OwedOf(d, t) ==
    /\ status[t] = "prepared" \/ preparing[t] # 0 \/ promised[t] = "prepared" =>
          Marked(d, t, "prepare", preparing[t])
    /\ status[t] = "committing" => Marked(d, t, "commit", finishing[t])
    /\ status[t] = "aborting" => Marked(d, t, "abort", finishing[t])
    /\ status[t] = "committed" => Marked(d, t, "commit", 0)
    /\ status[t] = "aborted" /\ Has(d, t, "prepare") => Marked(d, t, "abort", 0)
Owed(d) == \A t \in Txn \ folded : OwedOf(d, t)

\* And of one that is down: its table is what the disk says.
DownInv(d) == \A t \in Txn \ folded :
    /\ t < nextTxn => status[t] \in {"prepared", "committed", "aborted"}
    /\ status[t] = "prepared" <=>
          Has(d, t, "prepare") /\ ~Has(d, t, "commit") /\ ~Has(d, t, "abort")
    /\ status[t] = "committed" <=> Has(d, t, "commit")
    /\ promised[t] = "prepared" => Has(d, t, "prepare")

DiskInv(d) ==
    /\ CutInv(d)
    /\ mode = "up" => Kinds(d) /\ Owed(d)
    /\ mode = "down" => DownInv(d)

\* Until a restart has read the frame of an append that failed.
Honest ==
    /\ PromiseInv
    /\ mode \in {"up", "down"} /\ (mode = "down" => ~stray /\ ~ckpt)
    /\ mode = "up" => MemoryInv
    /\ ~stray => Climbs
    /\ ~stray \/ ckpt => \A d \in {Kept} : DiskInv(d)

TwoPhaseInv == TypeInv /\ (~misread => Honest)

-----------------------------------------------------------------------------
(* Bounded sets of naturals                                                *)

LEMMA HasLeast ==
    ASSUME NEW S \in SUBSET Nat, S # {}
    PROVE  \E x \in S : \A y \in S : x <= y
<1>1. \E x \in S : \A y \in S : ~(<<y, x>> \in OpToRel(<, Nat))
  <2> HIDE DEF OpToRel
  <2> QED BY NatLessThanWellFounded, WFMin, Zenon
<1>2. PICK x \in S : \A y \in S : ~(<<y, x>> \in OpToRel(<, Nat))
  BY <1>1
<1>3. \A y \in S : x <= y
  <2> SUFFICES ASSUME NEW y \in S, ~(x <= y) PROVE FALSE
    OBVIOUS
  <2>1. x \in Nat /\ y \in Nat /\ y < x
    OBVIOUS
  <2>2. <<y, x>> \in OpToRel(<, Nat)
    BY <2>1 DEF OpToRel
  <2> QED BY <2>2, <1>2
<1> QED BY <1>3

LEMMA HasGreatest ==
    ASSUME NEW n \in Nat, NEW S \in SUBSET (0..n), S # {}
    PROVE  \E x \in S : \A y \in S : y <= x
<1> DEFINE Bounds == {b \in Nat : \A y \in S : y <= b}
<1>1. n \in Bounds
  OBVIOUS
<1>2. PICK b \in Bounds : \A c \in Bounds : b <= c
  <2> HIDE DEF Bounds
  <2>1. Bounds \in SUBSET Nat
    BY DEF Bounds
  <2> QED BY <1>1, <2>1, HasLeast
<1>3. b \in S
  <2> SUFFICES ASSUME b \notin S PROVE FALSE
    OBVIOUS
  <2>1. \A y \in S : y \in Nat /\ y <= b /\ y # b
    OBVIOUS
  <2>2. b # 0
    <3>1. PICK y \in S : TRUE
      OBVIOUS
    <3> QED BY <2>1, <3>1
  <2>3. b - 1 \in Bounds
    BY <2>1, <2>2
  <2> QED BY <2>3, <1>2
<1> QED BY <1>3

LEMMA HighestIs ==
    ASSUME NEW n \in Nat, NEW S \in SUBSET (0..n), S # {}
    PROVE  Highest(S) \in S /\ \A y \in S : y <= Highest(S)
BY HasGreatest DEF Highest

-----------------------------------------------------------------------------
(* The log behind the image                                                *)

\* A log whose positions climb is read from the first one past the image on.
LEMMA ClimbingIs ==
    ASSUME NEW frames \in Seq(Frames), NEW c \in Nat,
           \A i, j \in 1..Len(frames) : i < j => frames[i].lsn < frames[j].lsn
    PROVE  \E n \in 0..Len(frames) :
              /\ \A i \in 1..Len(frames) : frames[i].lsn > c <=> i > n
              /\ Climbing(frames, c) = [i \in 1..(Len(frames) - n) |-> frames[n + i].rec]
<1>a. PICK L \in Nat : L = Len(frames)
  OBVIOUS
<1> DEFINE Old == {0} \cup {i \in 1..L : ~(frames[i].lsn > c)}
<1>0. L \in Nat /\ \A i \in 1..L : frames[i].lsn \in Nat
  <2>1. \A i \in 1..L : frames[i] \in Frames
    BY <1>a
  <2>2. \A f \in Frames : f.lsn \in Nat
    BY TwoPhaseAssumption DEF Frames
  <2> QED BY <2>1, <2>2
<1>1. PICK n \in Old : \A m \in Old : m <= n
  <2>1. Old \in SUBSET (0..L) /\ Old # {}
    BY <1>0
  <2> QED BY <1>0, <2>1, HasGreatest
<1>2. n \in 0..L /\ \A i \in 1..L : frames[i].lsn > c <=> i > n
  <2>1. n \in 0..L
    BY <1>0, <1>1
  <2>2. ASSUME NEW i \in 1..L, i <= n PROVE ~(frames[i].lsn > c)
    <3>1. n \in 1..L /\ ~(frames[n].lsn > c)
      BY <1>1, <2>1, <2>2
    <3>2. i = n \/ frames[i].lsn < frames[n].lsn
      BY <1>a, <2>1, <2>2, <3>1
    <3>3. frames[i].lsn \in Nat /\ frames[n].lsn \in Nat
      BY <1>0, <3>1
    <3> QED BY <3>1, <3>2, <3>3
  <2>3. ASSUME NEW i \in 1..L, i > n PROVE frames[i].lsn > c
    BY <1>0, <1>1, <2>1, <2>3
  <2>4. \A i \in 1..L : i <= n \/ i > n
    BY <1>0, <2>1
  <2>5. \A i \in 1..L : i > n => ~(i <= n)
    BY <1>0, <2>1
  <2> QED BY <2>1, <2>2, <2>3, <2>4, <2>5
<1> DEFINE at == {i \in 1..L : /\ frames[i].lsn > c
                               /\ \A j \in 1..(i - 1) : frames[j].lsn < frames[i].lsn}
<1>3. at = (n + 1)..L
  <2>1. \A i \in 1..L : \A j \in 1..(i - 1) : j \in 1..L /\ j < i
    BY <1>0
  <2>2. at = {i \in 1..L : i > n}
    BY <1>a, <1>2, <2>1
  <2> QED BY <1>0, <1>2, <2>2
<1>4. Cardinality(at) = L - n
  <2>1. n \in Int /\ L \in Int /\ n + 1 \in Int
    BY <1>0, <1>2
  <2>2. Cardinality((n + 1)..L) = IF n + 1 > L THEN 0 ELSE L - (n + 1) + 1
    BY <2>1, FS_Interval
  <2> HIDE DEF at
  <2> QED BY <1>0, <1>2, <1>3, <2>2
<1>5. ASSUME NEW i \in 1..(L - n) PROVE Nth(at, i) = n + i
  <2>1. ASSUME NEW j \in at PROVE Cardinality({k \in at : k <= j}) = j - n
    <3> HIDE DEF at
    <3>1. j \in Int /\ n + 1 \in Int /\ j > n /\ j <= L
      BY <1>0, <1>2, <1>3
    <3>2. {k \in at : k <= j} = (n + 1)..j
      BY <1>0, <1>2, <1>3, <3>1
    <3>3. Cardinality((n + 1)..j) = IF n + 1 > j THEN 0 ELSE j - (n + 1) + 1
      BY <3>1, FS_Interval
    <3>4. n \in Int /\ ~(n + 1 > j) /\ j - (n + 1) + 1 = j - n
      BY <1>0, <1>2, <3>1
    <3> QED BY <3>2, <3>3, <3>4
  <2>2. n + i \in at /\ (n + i) - n = i
    <3> HIDE DEF at
    <3>1. n \in Nat /\ L \in Nat /\ i \in 1..(L - n)
      BY <1>0, <1>2
    <3>2. n + i \in (n + 1)..L /\ (n + i) - n = i
      BY <3>1
    <3> QED BY <1>3, <3>2
  <2>3. Cardinality({k \in at : k <= n + i}) = i
    <3> HIDE DEF at
    <3>1. PICK m : m = n + i
      OBVIOUS
    <3>2. Cardinality({k \in at : k <= m}) = m - n
      BY <2>1, <2>2, <3>1
    <3> QED BY <2>2, <3>1, <3>2
  <2>4. \A j \in at : Cardinality({k \in at : k <= j}) = i => j = n + i
    <3> SUFFICES ASSUME NEW j \in at, Cardinality({k \in at : k <= j}) = i PROVE j = n + i
      OBVIOUS
    <3>1. j - n = i
      BY <2>1
    <3>2. j \in Int
      BY <1>0, <1>3, <1>2
    <3> QED BY <1>0, <1>2, <3>1, <3>2
  <2> HIDE DEF at
  <2> QED BY <2>2, <2>3, <2>4 DEF Nth
<1>6. Climbing(frames, c) = [i \in 1..Cardinality(at) |-> frames[Nth(at, i)].rec]
  BY <1>a DEF Climbing
<1>7. Climbing(frames, c) = [i \in 1..(L - n) |-> frames[n + i].rec]
  <2> HIDE DEF at
  <2> QED BY <1>4, <1>5, <1>6
<1> QED BY <1>a, <1>2, <1>7

-----------------------------------------------------------------------------
(* Sequences one after the other                                           *)

Before(p, q) == p[1] < q[1] \/ (p[1] = q[1] /\ p[2] < q[2])

\* Place n of Concat(parts) is place b[n] of part a[n], every place of every part
\* is taken, and they are taken in order.
LEMMA ConcatIs ==
    ASSUME NEW S, NEW parts \in Seq(Seq(S))
    PROVE  \E w :
              /\ Concat(parts) \in Seq(S)
              /\ \A n \in 1..Len(Concat(parts)) :
                    /\ w[n][1] \in 1..Len(parts) /\ w[n][2] \in 1..Len(parts[w[n][1]])
                    /\ Concat(parts)[n] = parts[w[n][1]][w[n][2]]
              /\ \A i \in 1..Len(parts) : \A k \in 1..Len(parts[i]) :
                    \E n \in 1..Len(Concat(parts)) : w[n] = <<i, k>>
              /\ \A m, n \in 1..Len(Concat(parts)) : m < n => Before(w[m], w[n])
<1>1. PICK L \in Nat : L = Len(parts)
  OBVIOUS
<1>2. \A i \in 1..L : parts[i] \in Seq(S) /\ Len(parts[i]) \in Nat
  BY <1>1
<1> DEFINE Part(i) == {<<i, k>> : k \in 1..Len(parts[i])}
           at == UNION {Part(i) : i \in 1..L}
           UpTo(p) == {q \in at : q[1] < p[1] \/ (q[1] = p[1] /\ q[2] <= p[2])}
<1>3. \A p : p \in at <=> \E i \in 1..L : \E k \in 1..Len(parts[i]) : p = <<i, k>>
  OBVIOUS
<1>4. IsFiniteSet(at)
  <2>1. ASSUME NEW i \in 1..L PROVE IsFiniteSet(Part(i))
    <3>1. IsFiniteSet(1..Len(parts[i]))
      BY <1>2, FS_Interval
    <3>2. [k \in 1..Len(parts[i]) |-> <<i, k>>] \in Surjection(1..Len(parts[i]), Part(i))
      BY DEF Surjection
    <3> HIDE DEF Part
    <3> QED BY <3>1, <3>2, FS_Surjection
  <2>2. IsFiniteSet({Part(i) : i \in 1..L})
    <3>1. IsFiniteSet(1..L)
      BY FS_Interval
    <3>2. [i \in 1..L |-> Part(i)] \in Surjection(1..L, {Part(i) : i \in 1..L})
      <4> HIDE DEF Part
      <4> QED BY DEF Surjection
    <3> HIDE DEF Part
    <3> QED BY <3>1, <3>2, FS_Surjection
  <2> HIDE DEF Part
  <2>3. \A T \in {Part(i) : i \in 1..L} : IsFiniteSet(T)
    BY <2>1
  <2> QED BY <2>2, <2>3, FS_UNION
<1>5. \A p \in at : /\ p[1] \in 1..L /\ p[2] \in 1..Len(parts[p[1]])
                    /\ p[1] \in Nat /\ p[2] \in Nat /\ p = <<p[1], p[2]>>
  BY <1>2, <1>3
<1>6. PICK C \in Nat : C = Cardinality(at)
  BY <1>4, FS_CardinalityType
<1>7. \A p \in at : p \in UpTo(p) /\ UpTo(p) \in SUBSET at
  BY <1>5
<1>8. \A p, q \in at : Before(p, q) => UpTo(p) \subseteq UpTo(q) /\ q \notin UpTo(p)
  <2> SUFFICES ASSUME NEW p \in at, NEW q \in at, Before(p, q)
               PROVE  UpTo(p) \subseteq UpTo(q) /\ q \notin UpTo(p)
    OBVIOUS
  <2> HIDE DEF at
  <2>1. q \notin UpTo(p)
    BY <1>5 DEF Before
  <2>2. ASSUME NEW x \in UpTo(p) PROVE x \in UpTo(q)
    <3>1. x \in at /\ (x[1] < p[1] \/ (x[1] = p[1] /\ x[2] <= p[2]))
      BY <2>2
    <3>2. /\ x[1] \in Nat /\ x[2] \in Nat /\ p[1] \in Nat /\ p[2] \in Nat
          /\ q[1] \in Nat /\ q[2] \in Nat
      BY <1>5, <3>1
    <3>3. x[1] < q[1] \/ (x[1] = q[1] /\ x[2] <= q[2])
      BY <3>1, <3>2 DEF Before
    <3> QED BY <3>1, <3>3
  <2> QED BY <2>1, <2>2
<1>9. \A p, q \in at : p = q \/ Before(p, q) \/ Before(q, p)
  <2> SUFFICES ASSUME NEW p \in at, NEW q \in at PROVE p = q \/ Before(p, q) \/ Before(q, p)
    OBVIOUS
  <2>1. /\ p[1] \in Nat /\ p[2] \in Nat /\ q[1] \in Nat /\ q[2] \in Nat
        /\ p = <<p[1], p[2]>> /\ q = <<q[1], q[2]>>
    BY <1>5
  <2>2. CASE p[1] = q[1] /\ p[2] = q[2]
    BY <2>1, <2>2
  <2>3. CASE ~(p[1] = q[1] /\ p[2] = q[2])
    BY <2>1, <2>3 DEF Before
  <2> QED BY <2>2, <2>3
<1> DEFINE rank == [p \in at |-> Cardinality(UpTo(p))]
<1>10. \A p \in at : rank[p] \in 1..C
  <2> SUFFICES ASSUME NEW p \in at PROVE rank[p] \in 1..C
    OBVIOUS
  <2>1. PICK U : U = UpTo(p) /\ U \in SUBSET at /\ U # {}
    BY <1>7
  <2>2. IsFiniteSet(U) /\ Cardinality(U) <= C
    BY <1>4, <1>6, <2>1, FS_Subset
  <2>3. Cardinality(U) \in Nat /\ Cardinality(U) # 0
    BY <2>1, <2>2, FS_CardinalityType, FS_EmptySet
  <2>4. rank[p] = Cardinality(U)
    BY <2>1
  <2> QED BY <2>2, <2>3, <2>4
<1>11. \A p, q \in at : Before(p, q) => rank[p] < rank[q]
  <2> SUFFICES ASSUME NEW p \in at, NEW q \in at, Before(p, q) PROVE rank[p] < rank[q]
    OBVIOUS
  <2>1. PICK U, V : U = UpTo(p) /\ V = UpTo(q) /\ U \in SUBSET at /\ V \in SUBSET at
                    /\ U \subseteq V /\ q \in V /\ q \notin U
    <3> HIDE DEF UpTo
    <3> QED BY <1>7, <1>8
  <2>2. IsFiniteSet(U) /\ IsFiniteSet(V)
    BY <1>4, <2>1, FS_Subset
  <2>3. Cardinality(U) <= Cardinality(V) /\ (Cardinality(V) = Cardinality(U) => V = U)
    BY <2>1, <2>2, FS_Subset
  <2>4. Cardinality(U) \in Nat /\ Cardinality(V) \in Nat
    BY <2>2, FS_CardinalityType
  <2>5. rank[p] = Cardinality(U) /\ rank[q] = Cardinality(V)
    BY <2>1
  <2>6. U # V
    BY <2>1
  <2>7. PICK u \in Nat, v \in Nat : u = Cardinality(U) /\ v = Cardinality(V)
    BY <2>4
  <2>8. u <= v /\ u # v
    BY <2>3, <2>6, <2>7
  <2>9. u < v
    BY <2>8
  <2> HIDE DEF rank
  <2> QED BY <2>5, <2>7, <2>9
<1>12. rank \in [at -> 1..C]
  <2>1. rank = [p \in at |-> rank[p]]
    OBVIOUS
  <2> HIDE DEF rank, at
  <2> QED BY <1>10, <2>1
<1>13. \A p, q \in at : rank[p] = rank[q] => p = q
  <2> HIDE DEF rank, at
  <2> QED BY <1>9, <1>10, <1>11
<1>14. \A n \in 1..C : \E p \in at : rank[p] = n
  <2>1. IsFiniteSet(1..C) /\ Cardinality(1..C) = C
    BY FS_Interval
  <2>2. rank \in Injection(at, 1..C)
    <3> HIDE DEF rank, at
    <3> QED BY <1>12, <1>13 DEF Injection, IsInjective
  <2>3. rank \in Surjection(at, 1..C)
    <3> HIDE DEF rank, at
    <3> QED BY <1>6, <2>1, <2>2, FS_Injection
  <2> HIDE DEF rank, at
  <2> QED BY <2>3 DEF Surjection
<1> DEFINE w == [n \in 1..C |-> CHOOSE p \in at : Cardinality(UpTo(p)) = n]
<1>15. \A n \in 1..C : w[n] \in at /\ rank[w[n]] = n
  <2>1. \A p \in at : rank[p] = Cardinality(UpTo(p))
    OBVIOUS
  <2> SUFFICES ASSUME NEW n \in 1..C PROVE w[n] \in at /\ rank[w[n]] = n
    OBVIOUS
  <2>2. \E p \in at : Cardinality(UpTo(p)) = n
    <3> HIDE DEF rank, at, UpTo
    <3> QED BY <1>14, <2>1
  <2>3. w[n] \in at /\ Cardinality(UpTo(w[n])) = n
    <3> HIDE DEF at, UpTo
    <3> QED BY <2>2
  <2> HIDE DEF rank, at, UpTo, w
  <2> QED BY <2>1, <2>3
<1>16. Concat(parts) = [n \in 1..C |-> parts[w[n][1]][w[n][2]]]
  <2>1. Concat(parts) = [n \in 1..Cardinality(at) |->
                            parts[(CHOOSE p \in at : Cardinality(UpTo(p)) = n)[1]]
                                 [(CHOOSE p \in at : Cardinality(UpTo(p)) = n)[2]]]
    BY <1>1 DEF Concat
  <2> HIDE DEF at, UpTo
  <2> QED BY <1>6, <2>1
<1>17. \A n \in 1..C : /\ w[n][1] \in 1..L /\ w[n][2] \in 1..Len(parts[w[n][1]])
                       /\ parts[w[n][1]][w[n][2]] \in S
  <2> HIDE DEF at, w, rank
  <2>1. \A n \in 1..C : w[n][1] \in 1..L /\ w[n][2] \in 1..Len(parts[w[n][1]])
    BY <1>5, <1>15
  <2>2. \A i \in 1..L : \A k \in 1..Len(parts[i]) : parts[i][k] \in S
    BY <1>2
  <2> QED BY <2>1, <2>2
<1> HIDE DEF w
<1>18. Concat(parts) \in Seq(S) /\ Len(Concat(parts)) = C
  BY <1>16, <1>17
<1>19. \A i \in 1..L : \A k \in 1..Len(parts[i]) : \E n \in 1..C : w[n] = <<i, k>>
  <2> SUFFICES ASSUME NEW i \in 1..L, NEW k \in 1..Len(parts[i])
               PROVE  \E n \in 1..C : w[n] = <<i, k>>
    OBVIOUS
  <2>1. <<i, k>> \in at
    BY <1>3
  <2> HIDE DEF at, rank
  <2> QED BY <1>10, <1>13, <1>15, <2>1
<1>20. \A m, n \in 1..C : m < n => Before(w[m], w[n])
  <2> HIDE DEF at, rank
  <2> QED BY <1>9, <1>11, <1>15
<1> QED BY <1>1, <1>16, <1>17, <1>18, <1>19, <1>20

-----------------------------------------------------------------------------
(* The records of a prepare                                                *)

\* Its begin, one record for each row of its net effect, its prepare.
IsProgram(rs, t, g, ls, s) ==
    /\ rs \in Seq(Records) /\ Len(rs) >= 2
    /\ rs[1] = PrepareBegin(t) /\ rs[Len(rs)] = Prepare(t, g, ls)
    /\ \A i \in 2..(Len(rs) - 1) : \E r \in DOMAIN s : rs[i] = Op(t, r, s[r])
    /\ \A r \in DOMAIN s : \E i \in 2..(Len(rs) - 1) : rs[i] = Op(t, r, s[r])

LEMMA Listed ==
    ASSUME NEW S, IsFiniteSet(S)
    PROVE  /\ SetToSeq(S) \in Seq(S)
           /\ \A x \in S : \E i \in 1..Len(SetToSeq(S)) : SetToSeq(S)[i] = x
<1>1. Cardinality(S) \in Nat /\ Bijection(1..Cardinality(S), S) # {}
  BY FS_CardinalityType DEF ExistsBijection
<1>2. PICK n \in Nat : n = Cardinality(S)
  BY <1>1
<1>3. \E f \in [1..n -> S] : IsInjective(f)
  BY <1>1, <1>2 DEF Bijection, Injection
<1>4. PICK f : f = SetToSeq(S) /\ f \in [1..n -> S] /\ IsInjective(f)
  BY <1>2, <1>3 DEF SetToSeq
<1>5. f \in Injection(1..n, S)
  BY <1>4 DEF Injection
<1>6. Cardinality(1..n) = n
  BY FS_Interval
<1>7. f \in Surjection(1..n, S)
  BY <1>2, <1>5, <1>6, FS_Injection
<1>8. f \in Seq(S) /\ Len(f) = n
  BY <1>4
<1>9. \A x \in S : \E i \in 1..n : f[i] = x
  BY <1>7 DEF Surjection
<1> QED BY <1>4, <1>8, <1>9

LEMMA RecordsAre ==
    ASSUME NEW t \in Txn
    PROVE  /\ PrepareBegin(t) \in Records /\ PrepareBegin(t).txn = t
           /\ PrepareBegin(t).kind = "begin"
           /\ CommitTxn(t) \in Records /\ CommitTxn(t).txn = t /\ CommitTxn(t).kind = "commit"
           /\ AbortTxn(t) \in Records /\ AbortTxn(t).txn = t /\ AbortTxn(t).kind = "abort"
           /\ \A g \in Gid, ls \in SUBSET Row :
                 /\ Prepare(t, g, ls) \in Records /\ Prepare(t, g, ls).txn = t
                 /\ Prepare(t, g, ls).kind = "prepare"
                 /\ Prepare(t, g, ls).gid = g /\ Prepare(t, g, ls).locks = ls
           /\ \A r \in Row, v \in Valued :
                 /\ Op(t, r, v) \in Records /\ Op(t, r, v).txn = t /\ Op(t, r, v).kind = "op"
                 /\ Op(t, r, v).row = r /\ Op(t, r, v).val = v
           /\ \A rs \in [Row -> Valued] :
                 /\ Image(t, rs) \in Records /\ Image(t, rs).txn = t
                 /\ Image(t, rs).kind = "image" /\ Image(t, rs).rows = rs
BY DEF PrepareBegin, CommitTxn, AbortTxn, Prepare, Op, Image, Records

LEMMA NetsAre ==
    ASSUME NEW s \in Nets
    PROVE  /\ DOMAIN s \subseteq Row /\ IsFiniteSet(DOMAIN s)
           /\ \A r \in DOMAIN s : s[r] \in Valued
<1>1. PICK D \in SUBSET Row : s \in [D -> Txn \cup {NoValue}]
  BY DEF Nets
<1>2. IsFiniteSet(D)
  BY TwoPhaseAssumption, FS_Subset
<1> QED BY <1>1, <1>2 DEF Valued

LEMMA ProgramIs ==
    ASSUME NEW t \in Txn, NEW g \in Gid, NEW ls \in SUBSET Row, NEW s \in Nets
    PROVE  IsProgram(PrepareRecords(t, g, ls, s), t, g, ls, s)
<1>1. PICK names : /\ names = SetToSeq(DOMAIN s) /\ names \in Seq(DOMAIN s)
                  /\ \A x \in DOMAIN s : \E i \in 1..Len(names) : names[i] = x
  BY NetsAre, Listed
<1>2. PICK n \in Nat : n = Len(names) /\ \A i \in 1..n : names[i] \in DOMAIN s
  BY <1>1
<1>3. PICK ops : ops = [i \in 1..n |-> Op(t, names[i], s[names[i]])]
  OBVIOUS
<1>4. \A i \in 1..n : ops[i] \in Records /\ ops[i] = Op(t, names[i], s[names[i]])
  <2>1. \A r \in DOMAIN s : Op(t, r, s[r]) \in Records
    BY NetsAre, RecordsAre
  <2> QED BY <1>2, <1>3, <2>1
<1>5. ops \in Seq(Records) /\ Len(ops) = n
  BY <1>3, <1>4
<1>6. PICK b \in Records, p \in Records : b = PrepareBegin(t) /\ p = Prepare(t, g, ls)
  BY RecordsAre
<1>7. PICK rs : rs = (<<b>> \o ops) \o <<p>>
  OBVIOUS
<1>8. /\ rs \in Seq(Records) /\ Len(rs) = n + 2
      /\ rs[1] = b /\ rs[n + 2] = p /\ \A i \in 1..n : rs[i + 1] = ops[i]
  BY <1>5, <1>6, <1>7
<1>9. PrepareRecords(t, g, ls, s) = rs
  BY <1>1, <1>2, <1>3, <1>6, <1>7 DEF PrepareRecords
<1>10. \A i \in 2..(n + 1) : \E r \in DOMAIN s : rs[i] = Op(t, r, s[r])
  <2> SUFFICES ASSUME NEW i \in 2..(n + 1) PROVE \E r \in DOMAIN s : rs[i] = Op(t, r, s[r])
    OBVIOUS
  <2>1. i - 1 \in 1..n /\ (i - 1) + 1 = i
    OBVIOUS
  <2> QED BY <1>2, <1>4, <1>8, <2>1
<1>11. \A r \in DOMAIN s : \E i \in 2..(n + 1) : rs[i] = Op(t, r, s[r])
  <2> SUFFICES ASSUME NEW r \in DOMAIN s PROVE \E i \in 2..(n + 1) : rs[i] = Op(t, r, s[r])
    OBVIOUS
  <2>1. PICK i \in 1..n : names[i] = r
    BY <1>1, <1>2
  <2>2. i + 1 \in 2..(n + 1)
    OBVIOUS
  <2> QED BY <1>4, <1>8, <2>1, <2>2
<1>12. (n + 2) - 1 = n + 1 /\ n + 2 >= 2
  OBVIOUS
<1> QED BY <1>6, <1>8, <1>9, <1>10, <1>11, <1>12 DEF IsProgram

-----------------------------------------------------------------------------
(* Type correctness                                                        *)

LEMMA FramedIs ==
    ASSUME LogType, NEW recs \in Seq(Records), nextLsn + Len(recs) - 1 <= MaxLsn
    PROVE  /\ Framed(recs) \in Seq(Frames) /\ Len(Framed(recs)) = Len(recs)
           /\ \A i \in 1..Len(recs) : /\ Framed(recs)[i].lsn = nextLsn + i - 1
                                      /\ Framed(recs)[i].rec = recs[i]
<1>1. PICK n \in Nat : n = Len(recs) /\ \A i \in 1..n : recs[i] \in Records
  OBVIOUS
<1>2. PICK a : a = nextLsn /\ a \in 1..(MaxLsn + 1) /\ a + n - 1 <= MaxLsn
  BY <1>1 DEF LogType
<1>3. \A i \in 1..n : a + i - 1 \in 1..MaxLsn
  BY <1>2, TwoPhaseAssumption
<1>4. Framed(recs) = [i \in 1..n |-> [lsn |-> a + i - 1, rec |-> recs[i]]]
  BY <1>1, <1>2 DEF Framed
<1>5. \A i \in 1..n : [lsn |-> a + i - 1, rec |-> recs[i]] \in Frames
  BY <1>1, <1>3 DEF Frames
<1> QED BY <1>1, <1>2, <1>4, <1>5

LEMMA LoggedType ==
    ASSUME LogType, WaitType, NEW recs \in Seq(Records), Len(recs) >= 1, Logged(recs)
    PROVE  /\ LogType' /\ nextLsn' = nextLsn + Len(recs)
           /\ preparing \in [Txn -> 0..(nextLsn' - 1)] /\ finishing \in [Txn -> 0..(nextLsn' - 1)]
           /\ nextLsn \in 0..(nextLsn' - 1) /\ DurableAt(recs) \in 0..(nextLsn' - 1)
<1>1. PICK n \in Nat : n = Len(recs) /\ n >= 1
  OBVIOUS
<1>2. PICK a \in Nat : a = nextLsn /\ a \in 1..(MaxLsn + 1) /\ a + n - 1 <= MaxLsn /\ nextLsn' = a + n
  BY <1>1, TwoPhaseAssumption DEF LogType, Logged
<1>3. log' \in Seq(Frames)
  <2>1. PICK fs \in Seq(Frames) : fs = Framed(recs)
    BY FramedIs DEF Logged
  <2>2. log' = log \o fs /\ log \in Seq(Frames)
    BY <2>1 DEF Logged, LogType
  <2> QED BY <2>1, <2>2
<1>4. durable \in 0..(a - 1) /\ covered \in 0..(a - 1) /\ UNCHANGED <<durable, image, covered, ckpt>>
  BY <1>2 DEF LogType, Logged
<1>5. a + n \in 1..(MaxLsn + 1) /\ \A x \in 0..(a - 1) : x \in 0..(a + n - 1)
  BY <1>1, <1>2, TwoPhaseAssumption
<1>6. LogType'
  BY <1>2, <1>3, <1>4, <1>5 DEF LogType
<1>7. DurableAt(recs) = a + n - 1 /\ a + n - 1 \in 0..(a + n - 1) /\ a \in 0..(a + n - 1)
  BY <1>1, <1>2 DEF DurableAt
<1>8. preparing \in [Txn -> 0..(a + n - 1)] /\ finishing \in [Txn -> 0..(a + n - 1)]
  BY <1>2, <1>5 DEF WaitType
<1> QED BY <1>1, <1>2, <1>6, <1>7, <1>8

LEMMA LoggedInPartType ==
    ASSUME LogType, WaitType, NEW recs \in Seq(Records), Len(recs) >= 1, LoggedInPart(recs)
    PROVE  /\ LogType' /\ stray' = TRUE /\ misread' = misread
           /\ preparing \in [Txn -> 0..(nextLsn' - 1)] /\ finishing \in [Txn -> 0..(nextLsn' - 1)]
<1>1. PICK n \in Nat : n = Len(recs) /\ n >= 1
  OBVIOUS
<1>2. PICK a \in Nat : a = nextLsn /\ a \in 1..(MaxLsn + 1) /\ a + n - 1 <= MaxLsn
                       /\ nextLsn' = a + n - 1
  BY <1>1, TwoPhaseAssumption DEF LogType, LoggedInPart
<1>3. log' \in Seq(Frames)
  <2>1. PICK fs \in Seq(Frames) : fs = Framed(recs)
    BY FramedIs DEF LoggedInPart
  <2>2. log' = log \o fs /\ log \in Seq(Frames)
    BY <2>1 DEF LoggedInPart, LogType
  <2> QED BY <2>1, <2>2
<1>4. durable \in 0..(a - 1) /\ covered \in 0..(a - 1) /\ UNCHANGED <<durable, image, covered, ckpt>>
  BY <1>2 DEF LogType, LoggedInPart
<1>5. a + n - 1 \in 1..(MaxLsn + 1) /\ \A x \in 0..(a - 1) : x \in 0..(a + n - 1 - 1)
  BY <1>1, <1>2, TwoPhaseAssumption
<1>6. LogType'
  BY <1>2, <1>3, <1>4, <1>5 DEF LogType
<1>7. preparing \in [Txn -> 0..(a + n - 1 - 1)] /\ finishing \in [Txn -> 0..(a + n - 1 - 1)]
  BY <1>2, <1>5 DEF WaitType
<1> QED BY <1>2, <1>6, <1>7 DEF LoggedInPart

LEMMA OneRecord ==
    ASSUME NEW rec \in Records
    PROVE  <<rec>> \in Seq(Records) /\ Len(<<rec>>) = 1 /\ <<rec>>[1] = rec
OBVIOUS

LEMMA HeldType ==
    ASSUME TxnType, NEW t
    PROVE  Unlocked(t) \in [Row -> Txn \cup {Nobody}] /\ Holds(t) \in SUBSET Row
BY DEF TxnType, Unlocked, Holds

LEMMA UndoneType ==
    ASSUME TxnType, HistType, NEW t \in Txn, Undone(t), UNCHANGED <<nextTxn, gids, rows, base, folded, mode, stray, misread>>,
           gate' \in Txn \cup {Nobody}
    PROVE  TxnType' /\ HistType'
<1>1. <<>> \in Nets
  <2>1. <<>> \in [{} -> Txn \cup {NoValue}]
    OBVIOUS
  <2> QED BY <2>1 DEF Nets
<1>2. Unlocked(t) \in [Row -> Txn \cup {Nobody}]
  BY HeldType
<1>3. TxnType'
  <2>1. status' \in [Txn -> Statuses]
    BY DEF Undone, TxnType, Statuses
  <2>2. sets' \in [Txn -> Nets]
    BY <1>1 DEF Undone, TxnType
  <2>3. lock' \in [Row -> Txn \cup {Nobody}]
    BY <1>2 DEF Undone
  <2> QED BY <2>1, <2>2, <2>3 DEF TxnType
<1>4. HistType'
  BY DEF Undone, HistType
<1> QED BY <1>3, <1>4

LEMMA LoggedOneType ==
    ASSUME LogType, WaitType, NEW rec \in Records, Logged(<<rec>>)
    PROVE  /\ LogType' /\ nextLsn' = nextLsn + 1
           /\ preparing \in [Txn -> 0..(nextLsn' - 1)] /\ finishing \in [Txn -> 0..(nextLsn' - 1)]
           /\ nextLsn \in 0..(nextLsn' - 1)
<1>1. PICK recs \in Seq(Records) : recs = <<rec>> /\ Len(recs) = 1 /\ Len(recs) >= 1
  BY OneRecord
<1>2. Logged(recs)
  BY <1>1
<1> QED BY <1>1, <1>2, LoggedType

LEMMA LoggedOneInPartType ==
    ASSUME LogType, WaitType, NEW rec \in Records, LoggedInPart(<<rec>>)
    PROVE  /\ LogType' /\ stray' = TRUE /\ misread' = misread
           /\ preparing \in [Txn -> 0..(nextLsn' - 1)] /\ finishing \in [Txn -> 0..(nextLsn' - 1)]
<1>1. PICK recs \in Seq(Records) : recs = <<rec>> /\ Len(recs) = 1 /\ Len(recs) >= 1
  BY OneRecord
<1>2. LoggedInPart(recs)
  BY <1>1
<1> QED BY <1>1, <1>2, LoggedInPartType

LEMMA NthIs ==
    ASSUME NEW n \in Nat, NEW at \in SUBSET (1..n)
    PROVE  /\ Cardinality(at) \in Nat
           /\ \A i \in 1..Cardinality(at) : Nth(at, i) \in at
<1>1. IsFiniteSet(at)
  <2>1. IsFiniteSet(1..n)
    BY FS_Interval
  <2> QED BY <2>1, FS_Subset
<1>2. PICK C \in Nat : C = Cardinality(at)
  BY <1>1, FS_CardinalityType
<1> DEFINE UpTo(j) == {k \in at : k <= j}
           rank == [j \in at |-> Cardinality(UpTo(j))]
<1>3. \A j \in at : j \in Nat /\ j \in UpTo(j) /\ UpTo(j) \in SUBSET at
  OBVIOUS
<1>4. \A j \in at : rank[j] \in 1..C
  <2> SUFFICES ASSUME NEW j \in at PROVE rank[j] \in 1..C
    OBVIOUS
  <2>1. PICK U : U = UpTo(j) /\ U \in SUBSET at /\ U # {}
    BY <1>3
  <2>2. IsFiniteSet(U) /\ Cardinality(U) <= C
    BY <1>1, <1>2, <2>1, FS_Subset
  <2>3. Cardinality(U) \in Nat /\ Cardinality(U) # 0
    BY <2>1, <2>2, FS_CardinalityType, FS_EmptySet
  <2>4. rank[j] = Cardinality(U)
    BY <2>1
  <2> QED BY <2>2, <2>3, <2>4
<1>5. \A i, j \in at : i < j => rank[i] # rank[j]
  <2> SUFFICES ASSUME NEW i \in at, NEW j \in at, i < j PROVE rank[i] # rank[j]
    OBVIOUS
  <2>1. PICK U, V : U = UpTo(i) /\ V = UpTo(j) /\ U \in SUBSET V /\ V \in SUBSET at /\ U # V
    <3>0. i \in Nat /\ j \in Nat /\ \A k \in at : k \in Nat
      BY <1>3
    <3>1. UpTo(i) \subseteq UpTo(j) /\ j \in UpTo(j) /\ j \notin UpTo(i) /\ UpTo(j) \subseteq at
      <4>1. \A k \in Nat : k <= i => k <= j
        BY <3>0
      <4>2. j <= j /\ ~(j <= i)
        BY <3>0
      <4> QED BY <3>0, <4>1, <4>2
    <3> HIDE DEF UpTo
    <3> QED BY <3>1
  <2>2. IsFiniteSet(V)
    BY <1>1, <2>1, FS_Subset
  <2>3. Cardinality(V) = Cardinality(U) => V = U
    BY <2>1, <2>2, FS_Subset
  <2>4. rank[i] = Cardinality(U) /\ rank[j] = Cardinality(V)
    BY <2>1
  <2> QED BY <2>1, <2>3, <2>4
<1>6. rank \in Injection(at, 1..C)
  <2>1. rank = [j \in at |-> rank[j]]
    OBVIOUS
  <2> HIDE DEF rank
  <2>2. \A i, j \in at : rank[i] = rank[j] => i = j
    BY <1>3, <1>5
  <2> QED BY <1>4, <2>1, <2>2 DEF Injection, IsInjective
<1>7. rank \in Surjection(at, 1..C)
  <2>1. IsFiniteSet(1..C) /\ Cardinality(1..C) = C
    BY FS_Interval
  <2> HIDE DEF rank
  <2> QED BY <1>2, <1>6, <2>1, FS_Injection
<1>8. ASSUME NEW i \in 1..C PROVE Nth(at, i) \in at
  <2>1. PICK j \in at : rank[j] = i
    <3> HIDE DEF rank
    <3> QED BY <1>7 DEF Surjection
  <2>2. Cardinality({k \in at : k <= j}) = i
    BY <2>1
  <2> QED BY <2>2 DEF Nth
<1> QED BY <1>2, <1>8

LEMMA DiskType ==
    ASSUME LogType, NEW frames \in Seq(Frames)
    PROVE  DiskWith(frames) \in Seq(Records)
<1>1. PICK L \in Nat : L = Len(frames) /\ \A i \in 1..L : frames[i] \in Frames
  OBVIOUS
<1>2. \A f \in Frames : f.rec \in Records
  BY DEF Frames
<1>3. PICK at : /\ at \in SUBSET (1..L)
                /\ Climbing(frames, covered) = [i \in 1..Cardinality(at) |-> frames[Nth(at, i)].rec]
  <2> DEFINE at == {i \in 1..L : /\ frames[i].lsn > covered
                                 /\ \A j \in 1..(i - 1) : frames[j].lsn < frames[i].lsn}
  <2>1. at \in SUBSET (1..L)
    OBVIOUS
  <2>2. Climbing(frames, covered) = [i \in 1..Cardinality(at) |-> frames[Nth(at, i)].rec]
    BY <1>1 DEF Climbing
  <2> HIDE DEF at
  <2> QED BY <2>1, <2>2
<1>4. Cardinality(at) \in Nat /\ \A i \in 1..Cardinality(at) : frames[Nth(at, i)].rec \in Records
  BY <1>1, <1>2, <1>3, NthIs
<1>5. Climbing(frames, covered) \in Seq(Records)
  BY <1>3, <1>4
<1> QED BY <1>5 DEF DiskWith, LogType

-----------------------------------------------------------------------------
(* What replay finds                                                       *)

\* The transactions waiting on a disk.
LEMMA ReplayedAre ==
    ASSUME NEW d \in Seq(Records)
    PROVE  /\ DOMAIN Replay(d, Empty).prepared =
                {t \in Txn : Has(d, t, "prepare") /\ ~Has(d, t, "abort")
                             /\ ~Has(d, t, "commit") /\ ~Has(d, t, "image")}
           /\ \A t \in DOMAIN Replay(d, Empty).prepared :
                Replay(d, Empty).prepared[t] = Waiter(d, t)
           /\ \A t \in Txn : t \in Committed(d) <=>
                (Has(d, t, "commit") \/ Has(d, t, "image")) /\ ~Has(d, t, "abort")
<1>1. PICK L \in Nat : L = Len(d) /\ \A p \in 1..L : d[p] \in Records
  OBVIOUS
<1>2. \A rec \in Records : rec.txn \in Txn
  BY DEF Records
<1>3. ASSUME NEW K PROVE \A t : t \in Named(d, K) <=> \E p \in 1..L : d[p].kind \in K /\ d[p].txn = t
  BY <1>1 DEF Named
<1>4. \A t : t \in Named(d, {"prepare"}) <=> Has(d, t, "prepare")
  BY <1>1, <1>3 DEF Has, Is
<1>5. \A t : t \in Aborted(d) <=> Has(d, t, "abort")
  BY <1>1, <1>3 DEF Has, Is, Aborted
<1>6. \A t : t \in Named(d, {"commit", "image"}) <=> Has(d, t, "commit") \/ Has(d, t, "image")
  BY <1>1, <1>3 DEF Has, Is
<1>7. \A t : t \in Committed(d) <=> (Has(d, t, "commit") \/ Has(d, t, "image")) /\ ~Has(d, t, "abort")
  BY <1>5, <1>6 DEF Committed
<1>8. \A t : Has(d, t, "prepare") => t \in Txn
  BY <1>1, <1>2 DEF Has, Is
<1>9. PICK W : W = Named(d, {"prepare"}) \ (Committed(d) \cup Aborted(d))
  OBVIOUS
<1>10. W = {t \in Txn : Has(d, t, "prepare") /\ ~Has(d, t, "abort")
                        /\ ~Has(d, t, "commit") /\ ~Has(d, t, "image")}
  BY <1>4, <1>5, <1>7, <1>8, <1>9
<1>11. Empty.prepared = <<>> /\ DOMAIN Empty.prepared = {}
  BY DEF Empty
<1>12. Replay(d, Empty).prepared = [t \in W |-> Waiter(d, t)]
  <2>1. DOMAIN Empty.prepared \ Named(d, {"commit", "abort"}) = {}
    BY <1>11
  <2>2. Named(d, {"prepare"}) \ (DOMAIN Empty.prepared \cup Committed(d) \cup Aborted(d)) = W
    BY <1>9, <1>11
  <2> QED BY <2>1, <2>2 DEF Replay
<1> QED BY <1>7, <1>10, <1>12

LEMMA WaiterIs ==
    ASSUME NEW d \in Seq(Records), NEW t \in Txn, Has(d, t, "prepare")
    PROVE  /\ \E p \in 1..Len(d) : /\ Is(d[p], t, "prepare")
                                   /\ Waiter(d, t).gid = d[p].gid
                                   /\ Waiter(d, t).locks = d[p].locks
                                   /\ Waiter(d, t).seq = p
           /\ Waiter(d, t).sets \in Nets
           /\ \A r \in DOMAIN Waiter(d, t).sets :
                 \E p \in 1..Len(d) : Is(d[p], t, "op") /\ d[p].row = r
<1>1. PICK L \in Nat : L = Len(d) /\ \A p \in 1..L : d[p] \in Records
  OBVIOUS
<1>2. PICK p \in 1..L : /\ p = CHOOSE i \in 1..L : d[i].kind = "prepare" /\ d[i].txn = t
                        /\ d[p].kind = "prepare" /\ d[p].txn = t
  BY <1>1 DEF Has, Is
<1>3. PICK prog : prog = [i \in 1..L |->
                             IF d[i].kind = "op" /\ d[i].txn = t /\ InProgram(d, i)
                             THEN With(<<>>, d[i].row, d[i].val) ELSE <<>>]
  OBVIOUS
<1>4. PICK written : written = UNION {DOMAIN prog[i] : i \in 1..L}
  OBVIOUS
<1>5. Waiter(d, t) = [gid |-> d[p].gid, locks |-> d[p].locks, seq |-> p,
                      sets |-> [r \in written |-> LastSet(prog, r, NoValue)]]
  BY <1>1, <1>2, <1>3, <1>4 DEF Waiter
<1>6. \A i \in 1..L : \A r \in DOMAIN prog[i] :
         /\ d[i].kind = "op" /\ d[i].txn = t /\ d[i].row = r
         /\ prog[i][r] = d[i].val
  <2> SUFFICES ASSUME NEW i \in 1..L, NEW r \in DOMAIN prog[i]
               PROVE  d[i].kind = "op" /\ d[i].txn = t /\ d[i].row = r /\ prog[i][r] = d[i].val
    OBVIOUS
  <2>1. CASE ~(d[i].kind = "op" /\ d[i].txn = t /\ InProgram(d, i))
    <3>1. prog[i] = <<>>
      BY <1>3, <2>1
    <3> QED BY <3>1
  <2>2. CASE d[i].kind = "op" /\ d[i].txn = t /\ InProgram(d, i)
    <3>1. prog[i] = With(<<>>, d[i].row, d[i].val)
      BY <1>3, <2>2
    <3>2. With(<<>>, d[i].row, d[i].val) = [y \in {d[i].row} |-> d[i].val]
      BY DEF With
    <3> QED BY <2>2, <3>1, <3>2
  <2> QED BY <2>1, <2>2
<1>7. \A i \in 1..L : d[i].kind = "op" => d[i].row \in Row /\ d[i].val \in Valued
  <2>1. \A rec \in Records : rec.kind = "op" => rec.row \in Row /\ rec.val \in Valued
    BY DEF Records
  <2> QED BY <1>1, <2>1
<1>8. \A r \in written : \E i \in 1..L : r \in DOMAIN prog[i]
  BY <1>4
<1>9. ASSUME NEW r \in written PROVE r \in Row /\ LastSet(prog, r, NoValue) \in Valued
  <2>1. PICK at : at = {i \in 1..Len(prog) : r \in DOMAIN prog[i]}
    OBVIOUS
  <2>2. Len(prog) = L
    BY <1>3
  <2>3. at \in SUBSET (0..L) /\ at # {} /\ at \in SUBSET (1..L)
    BY <1>8, <1>9, <2>1, <2>2
  <2>4. PICK m : m = (CHOOSE i \in at : \A j \in at : j <= i) /\ m \in at
    BY <2>3, HasGreatest
  <2>5. LastSet(prog, r, NoValue) = prog[m][r]
    BY <2>1, <2>3, <2>4 DEF LastSet
  <2>6. m \in 1..L /\ r \in DOMAIN prog[m]
    BY <2>1, <2>3, <2>4
  <2> QED BY <1>6, <1>7, <2>5, <2>6
<1>10. PICK s : s = [r \in written |-> LastSet(prog, r, NoValue)] /\ Waiter(d, t).sets = s
  BY <1>5
<1>11. s \in Nets
  <2>1. written \in SUBSET Row /\ s \in [written -> Txn \cup {NoValue}]
    BY <1>9, <1>10 DEF Valued
  <2> QED BY <2>1 DEF Nets
<1>12. \A r \in DOMAIN s : \E i \in 1..L : Is(d[i], t, "op") /\ d[i].row = r
  BY <1>6, <1>8, <1>10 DEF Is
<1>13. Waiter(d, t).gid = d[p].gid /\ Waiter(d, t).locks = d[p].locks /\ Waiter(d, t).seq = p
  BY <1>5
<1>14. Is(d[p], t, "prepare")
  BY <1>2 DEF Is
<1> QED BY <1>1, <1>10, <1>11, <1>12, <1>13, <1>14

LEMMA ReplayedRows ==
    ASSUME NEW d \in Seq(Records)
    PROVE  Replay(d, Empty).rows \in [Row -> Valued]
<1>1. PICK L \in Nat : L = Len(d) /\ \A p \in 1..L : d[p] \in Records
  OBVIOUS
<1>2. PICK es : es = [i \in 1..L |-> Effect(d, <<>>, i)]
  OBVIOUS
<1>3. Replay(d, Empty).rows = [r \in Row |-> LastSet(es, r, NoValue)]
  <2>1. Empty.prepared = <<>> /\ Empty.rows = [r \in Row |-> NoValue]
    BY DEF Empty
  <2>2. Replay(d, Empty).rows = [r \in Row |-> LastSet([i \in 1..Len(d) |-> Effect(d, Empty.prepared, i)], r, Empty.rows[r])]
    BY DEF Replay
  <2> QED BY <1>1, <1>2, <2>1, <2>2
<1>4. ASSUME NEW i \in 1..L, NEW r \in DOMAIN es[i], r \in Row PROVE es[i][r] \in Valued
  <2>1. es[i] = Effect(d, <<>>, i) /\ d[i] \in Records
    BY <1>1, <1>2
  <2>2. DOMAIN <<>> = {}
    OBVIOUS
  <2>3. CASE d[i].kind = "image" /\ d[i].txn \in Committed(d)
    <3>1. es[i] = d[i].rows
      BY <2>1, <2>2, <2>3 DEF Effect
    <3>2. \A rec \in Records : rec.kind = "image" => rec.rows \in [Row -> Valued]
      BY DEF Records
    <3> QED BY <1>4, <2>1, <2>3, <3>1, <3>2
  <2>4. CASE d[i].kind = "op" /\ d[i].txn \in Committed(d) /\ InProgram(d, i)
    <3>1. es[i] = With(<<>>, d[i].row, d[i].val)
      BY <2>1, <2>2, <2>4 DEF Effect
    <3>2. With(<<>>, d[i].row, d[i].val) = [y \in {d[i].row} |-> d[i].val]
      BY DEF With
    <3>3. \A rec \in Records : rec.kind = "op" => rec.val \in Valued
      BY DEF Records
    <3> QED BY <1>4, <2>1, <2>4, <3>1, <3>2, <3>3
  <2>5. CASE /\ ~(d[i].kind = "image" /\ d[i].txn \in Committed(d))
             /\ ~(d[i].kind = "op" /\ d[i].txn \in Committed(d) /\ InProgram(d, i))
    <3>1. es[i] = <<>>
      BY <2>1, <2>2, <2>5 DEF Effect
    <3> QED BY <1>4, <3>1
  <2> QED BY <2>3, <2>4, <2>5
<1>5. ASSUME NEW r \in Row PROVE LastSet(es, r, NoValue) \in Valued
  <2>1. PICK at : at = {i \in 1..Len(es) : r \in DOMAIN es[i]}
    OBVIOUS
  <2>2. Len(es) = L
    BY <1>2
  <2>3. CASE at = {}
    BY <2>1, <2>3 DEF LastSet, Valued
  <2>4. CASE at # {}
    <3>1. at \in SUBSET (0..L) /\ at \in SUBSET (1..L)
      BY <2>1, <2>2
    <3>2. PICK m : m = (CHOOSE i \in at : \A j \in at : j <= i) /\ m \in at
      BY <2>4, <3>1, HasGreatest
    <3>3. LastSet(es, r, NoValue) = es[m][r]
      BY <2>1, <2>4, <3>2 DEF LastSet
    <3>4. m \in 1..L /\ r \in DOMAIN es[m]
      BY <2>1, <3>1, <3>2
    <3> QED BY <1>4, <3>3, <3>4
  <2> QED BY <2>3, <2>4
<1> QED BY <1>3, <1>5

-----------------------------------------------------------------------------
(* The type invariant is kept                                              *)

LEMMA PreparedIs ==
    ASSUME TxnType, NEW t \in Txn, NEW g \in Gid
    PROVE  /\ IsProgram(Prepared(t, g), t, g, Holds(t), sets[t])
           /\ Prepared(t, g) \in Seq(Records) /\ Len(Prepared(t, g)) >= 2
<1>1. PICK ls \in SUBSET Row, s \in Nets : ls = Holds(t) /\ s = sets[t]
  BY HeldType DEF TxnType
<1>2. IsProgram(PrepareRecords(t, g, ls, s), t, g, ls, s)
  BY ProgramIs
<1> QED BY <1>1, <1>2 DEF Prepared, IsProgram

LEMMA SessionType ==
    ASSUME TypeInv, NEW t \in Txn, Session(t)
    PROVE  TypeInv'
<1> USE DEF TypeInv
<1>r. /\ CommitTxn(t) \in Records /\ AbortTxn(t) \in Records
      /\ \A r \in Row, v \in Valued : Op(t, r, v) \in Records
  BY RecordsAre
<1>t. t \in Valued /\ t \in Nat
  BY DEF Valued, Txn
<1>1. CASE Begin(t)
  <2>1. nextTxn + 1 \in 1..(MaxTxn + 1)
    BY <1>1, TwoPhaseAssumption DEF Begin, TxnType, Txn
  <2>2. TxnType'
    BY <1>1, <2>1 DEF Begin, TxnType, Statuses
  <2>3. LogType' /\ WaitType' /\ HistType'
    BY <1>1 DEF Begin, LogType, WaitType, HistType, logVars, waitVars, histVars, boundVars
  <2> QED BY <2>2, <2>3
<1>2. CASE Rollback(t) \/ PrepareRefused(t)
  <2>1. Undone(t) /\ Logged(<<AbortTxn(t)>>)
        /\ UNCHANGED <<mode, nextTxn, gids, gate, rows, waitVars, folded, base, order, boundVars>>
    BY <1>2 DEF Rollback, PrepareRefused
  <2>2. TxnType' /\ HistType'
    BY <2>1, UndoneType DEF boundVars, TxnType
  <2>3. LogType' /\ WaitType'
    BY <1>r, <2>1, LoggedOneType DEF WaitType, waitVars
  <2> QED BY <2>2, <2>3
<1>3. CASE CommitStage(t)
  <2>1. LogType' /\ nextLsn \in 0..(nextLsn' - 1) /\ preparing \in [Txn -> 0..(nextLsn' - 1)]
        /\ finishing \in [Txn -> 0..(nextLsn' - 1)]
    BY <1>r, <1>3, LoggedOneType DEF CommitStage
  <2>2. WaitType'
    BY <1>3, <2>1 DEF CommitStage, WaitType
  <2>3. TxnType'
    BY <1>3 DEF CommitStage, TxnType, Statuses
  <2>4. HistType'
    BY <1>3 DEF CommitStage, HistType, boundVars
  <2> QED BY <2>1, <2>2, <2>3, <2>4
<1>4. ASSUME NEW r \in Row, LockRow(t, r) PROVE TypeInv'
  <2>1. TxnType'
    BY <1>4 DEF LockRow, TxnType
  <2>2. LogType' /\ WaitType' /\ HistType'
    BY <1>4 DEF LockRow, LogType, WaitType, HistType, logVars, waitVars, histVars, boundVars
  <2> QED BY <2>1, <2>2
<1>5. ASSUME NEW r \in Row, Write(t, r) PROVE TypeInv'
  <2>1. Op(t, r, t) \in Records
    BY <1>r, <1>t
  <2>2. LogType' /\ WaitType'
    BY <1>5, <2>1, LoggedOneType DEF Write, WaitType, waitVars
  <2>3. With(sets[t], r, t) \in Nets
    <3>1. PICK D \in SUBSET Row : sets[t] \in [D -> Txn \cup {NoValue}]
      BY DEF TxnType, Nets
    <3>2. With(sets[t], r, t) \in [D \cup {r} -> Txn \cup {NoValue}]
      BY <3>1 DEF With
    <3>3. D \cup {r} \in SUBSET Row
      BY <3>1
    <3> QED BY <3>2, <3>3 DEF Nets
  <2>4. TxnType'
    BY <1>5, <2>3 DEF Write, TxnType
  <2>5. HistType'
    BY <1>5 DEF Write, HistType, histVars, boundVars
  <2> QED BY <2>2, <2>4, <2>5
<1>6. ASSUME NEW r \in Row, Unwrite(t, r) PROVE TypeInv'
  <2>1. Op(t, r, rows[r]) \in Records
    BY <1>r DEF TxnType
  <2>2. LogType' /\ WaitType'
    BY <1>6, <2>1, LoggedOneType DEF Unwrite, WaitType, waitVars
  <2>3. Without(sets[t], {r}) \in Nets
    <3>1. PICK D \in SUBSET Row : sets[t] \in [D -> Txn \cup {NoValue}]
      BY DEF TxnType, Nets
    <3>2. Without(sets[t], {r}) \in [D \ {r} -> Txn \cup {NoValue}]
      BY <3>1 DEF Without
    <3>3. D \ {r} \in SUBSET Row
      BY <3>1
    <3> QED BY <3>2, <3>3 DEF Nets
  <2>4. TxnType'
    BY <1>6, <2>3 DEF Unwrite, TxnType
  <2>5. HistType'
    BY <1>6 DEF Unwrite, HistType, histVars, boundVars
  <2> QED BY <2>2, <2>4, <2>5
<1>7. ASSUME NEW g \in Gid, PrepareTxn(t, g) PROVE TypeInv'
  <2>1. PICK rs \in Seq(Records) : rs = Prepared(t, g) /\ Len(rs) >= 2
    BY PreparedIs
  <2>2. Len(rs) >= 1
    BY <2>1
  <2>3. LogType' /\ DurableAt(rs) \in 0..(nextLsn' - 1) /\ preparing \in [Txn -> 0..(nextLsn' - 1)]
        /\ finishing \in [Txn -> 0..(nextLsn' - 1)]
    BY <1>7, <2>1, <2>2, LoggedType DEF PrepareTxn
  <2>4. WaitType'
    BY <1>7, <2>1, <2>3 DEF PrepareTxn, WaitType
  <2>5. TxnType'
    BY <1>7 DEF PrepareTxn, TxnType, Statuses
  <2>6. HistType'
    BY <1>7 DEF PrepareTxn, HistType, histVars, boundVars
  <2> QED BY <2>3, <2>4, <2>5, <2>6
<1>8. ASSUME NEW g \in Gid, PrepareAppendFails(t, g) PROVE TypeInv'
  <2>1. PICK rs \in Seq(Records) : rs = Prepared(t, g) /\ Len(rs) >= 2
    BY PreparedIs
  <2>2. PICK k \in 1..Len(rs) : LoggedInPart(SubSeq(rs, 1, k))
    BY <1>8, <2>1 DEF PrepareAppendFails
  <2>3. SubSeq(rs, 1, k) \in Seq(Records) /\ Len(SubSeq(rs, 1, k)) >= 1
    BY <2>1, <2>2
  <2>4. LogType' /\ WaitType' /\ stray' = TRUE /\ misread' = misread
    BY <1>8, <2>2, <2>3, LoggedInPartType DEF PrepareAppendFails, WaitType, waitVars
  <2>5. TxnType'
    BY <1>8 DEF PrepareAppendFails, TxnType, Statuses
  <2>6. HistType'
    BY <1>8, <2>4 DEF PrepareAppendFails, HistType, histVars
  <2> QED BY <2>4, <2>5, <2>6
<1> QED BY <1>1, <1>2, <1>3, <1>4, <1>5, <1>6, <1>7, <1>8 DEF Session

LEMMA EngineType ==
    ASSUME TypeInv, NEW t \in Txn, Engine(t)
    PROVE  TypeInv'
<1> USE DEF TypeInv
<1>e. <<>> \in Nets
  <2>1. <<>> \in [{} -> Txn \cup {NoValue}]
    OBVIOUS
  <2> QED BY <2>1 DEF Nets
<1>z. 0 \in 0..(nextLsn - 1)
  BY DEF LogType
<1>1. CASE PrepareReturns(t)
  <2>1. LogType' /\ TxnType'
    BY <1>1 DEF PrepareReturns, LogType, TxnType, logVars, txnVars
  <2>2. WaitType'
    BY <1>1, <1>z DEF PrepareReturns, WaitType, logVars
  <2>3. HistType'
    BY <1>1 DEF PrepareReturns, HistType, Told, boundVars
  <2> QED BY <2>1, <2>2, <2>3
<1>2. CASE PrepareAborted(t)
  <2>1. TxnType' /\ HistType'
    BY <1>2, UndoneType DEF PrepareAborted, boundVars, TxnType
  <2>2. LogType' /\ WaitType'
    BY <1>2, RecordsAre, LoggedOneType DEF PrepareAborted, WaitType, waitVars
  <2> QED BY <2>1, <2>2
<1>3. CASE Committed1(t)
  <2>1. LogType'
    BY <1>3 DEF Committed1, LogType, logVars
  <2>2. WaitType'
    BY <1>3, <1>z DEF Committed1, WaitType, logVars
  <2>3. Overlay(sets[t], rows) \in [Row -> Valued]
    <3>1. \A r \in DOMAIN sets[t] : sets[t][r] \in Valued
      BY NetsAre DEF TxnType
    <3> QED BY <3>1 DEF Overlay, TxnType
  <2>4. lock' \in [Row -> Txn \cup {Nobody}]
    BY <1>3, HeldType DEF Committed1
  <2>5. TxnType'
    BY <1>3, <1>e, <2>3, <2>4 DEF Committed1, TxnType, Statuses
  <2>6. HistType'
    BY <1>3 DEF Committed1, HistType, Told, boundVars
  <2> QED BY <2>1, <2>2, <2>5, <2>6
<1>4. CASE Undo1(t)
  <2>1. LogType'
    BY <1>4 DEF Undo1, LogType, logVars
  <2>2. WaitType'
    BY <1>4, <1>z DEF Undo1, WaitType, logVars
  <2>3. TxnType' /\ HistType'
    BY <1>4, UndoneType DEF Undo1, boundVars
  <2> QED BY <2>1, <2>2, <2>3
<1> QED BY <1>1, <1>2, <1>3, <1>4 DEF Engine

LEMMA FinishType ==
    ASSUME TypeInv, NEW g \in Gid, FinishCommit(g) \/ FinishRollback(g) \/ FinishAppendFails(g)
    PROVE  TypeInv'
<1> USE DEF TypeInv
<1>1. PICK t \in Txn : t = gids[g]
  BY DEF FinishCommit, FinishRollback, FinishAppendFails, TxnType
<1>2. CASE FinishCommit(g)
  <2>1. LogType' /\ nextLsn \in 0..(nextLsn' - 1) /\ preparing \in [Txn -> 0..(nextLsn' - 1)]
        /\ finishing \in [Txn -> 0..(nextLsn' - 1)]
    BY <1>1, <1>2, RecordsAre, LoggedOneType DEF FinishCommit
  <2>2. WaitType'
    BY <1>1, <1>2, <2>1 DEF FinishCommit, WaitType
  <2>3. TxnType'
    BY <1>1, <1>2 DEF FinishCommit, TxnType, Statuses
  <2>4. HistType'
    BY <1>2 DEF FinishCommit, HistType, boundVars
  <2> QED BY <2>1, <2>2, <2>3, <2>4
<1>3. CASE FinishRollback(g)
  <2>1. LogType' /\ nextLsn \in 0..(nextLsn' - 1) /\ preparing \in [Txn -> 0..(nextLsn' - 1)]
        /\ finishing \in [Txn -> 0..(nextLsn' - 1)]
    BY <1>1, <1>3, RecordsAre, LoggedOneType DEF FinishRollback
  <2>2. WaitType'
    BY <1>1, <1>3, <2>1 DEF FinishRollback, WaitType
  <2>3. TxnType'
    BY <1>1, <1>3 DEF FinishRollback, TxnType, Statuses
  <2>4. HistType'
    BY <1>3 DEF FinishRollback, HistType, histVars, boundVars
  <2> QED BY <2>1, <2>2, <2>3, <2>4
<1>4. CASE FinishAppendFails(g)
  <2>1. PICK rec \in Records : LoggedInPart(<<rec>>)
    BY <1>1, <1>4, RecordsAre DEF FinishAppendFails
  <2>2. LogType' /\ WaitType' /\ stray' = TRUE /\ misread' = misread
    BY <1>4, <2>1, LoggedOneInPartType DEF FinishAppendFails, WaitType, waitVars
  <2>3. TxnType'
    BY <1>4 DEF FinishAppendFails, TxnType, txnVars
  <2>4. HistType'
    BY <1>4, <2>2 DEF FinishAppendFails, HistType, histVars
  <2> QED BY <2>2, <2>3, <2>4
<1> QED BY <1>2, <1>3, <1>4

LEMMA WaitingIs ==
    ASSUME TxnType
    PROVE  /\ Waiting \in SUBSET Txn /\ IsFiniteSet(Waiting)
           /\ \A t \in Waiting : Name(t) \in Gid /\ gids[Name(t)] = t
<1>1. IsFiniteSet(Txn)
  BY FS_Interval, TwoPhaseAssumption DEF Txn
<1>2. Waiting \in SUBSET Txn
  BY DEF Waiting
<1>3. IsFiniteSet(Waiting)
  BY <1>1, <1>2, FS_Subset
<1> QED BY <1>2, <1>3 DEF Waiting, Name

\* An order of the prepared transactions has each of them once.
LEMMA OrdersAre ==
    ASSUME TxnType, NEW ts \in SetToSeqs(Waiting)
    PROVE  /\ ts \in Seq(Waiting)
           /\ \A i, j \in 1..Len(ts) : ts[i] = ts[j] => i = j
           /\ \A t \in Waiting : \E i \in 1..Len(ts) : ts[i] = t
<1>1. PICK W \in {Waiting}, n \in Nat : n = Cardinality(W) /\ IsFiniteSet(W)
  BY WaitingIs, FS_CardinalityType
<1>2. ts \in [1..n -> W] /\ \A i, j \in 1..n : i # j => ts[i] # ts[j]
  BY <1>1 DEF SetToSeqs
<1>3. ts \in Seq(W) /\ Len(ts) = n
  BY <1>2
<1>4. ts \in Injection(1..n, W)
  BY <1>2 DEF Injection, IsInjective
<1>5. Cardinality(1..n) = n
  BY FS_Interval
<1>6. ts \in Surjection(1..n, W)
  BY <1>1, <1>4, <1>5, FS_Injection
<1>7. \A t \in W : \E i \in 1..n : ts[i] = t
  BY <1>6 DEF Surjection
<1> QED BY <1>1, <1>2, <1>3, <1>7

\* Place n of what an image carries is record w[n][2] of the w[n][1]-th of them.
Carries(ts, w) ==
    /\ \A n \in 1..Len(Carried(ts)) :
          LET t == ts[w[n][1]] IN
          /\ w[n][1] \in 1..Len(ts) /\ w[n][2] \in 1..Len(Prepared(t, Name(t)))
          /\ Carried(ts)[n] = Prepared(t, Name(t))[w[n][2]]
    /\ \A i \in 1..Len(ts) : \A k \in 1..Len(Prepared(ts[i], Name(ts[i]))) :
          \E n \in 1..Len(Carried(ts)) : w[n] = <<i, k>>
    /\ \A m, n \in 1..Len(Carried(ts)) : m < n => Before(w[m], w[n])

LEMMA CarriedIs ==
    ASSUME TxnType, NEW ts \in SetToSeqs(Waiting)
    PROVE  Carried(ts) \in Seq(Records) /\ \E w : Carries(ts, w)
<1>1. ts \in Seq(Waiting)
  BY OrdersAre
<1>2. PICK L \in Nat : L = Len(ts) /\ \A i \in 1..L : ts[i] \in Waiting
  BY <1>1
<1>3. PICK parts : parts = [i \in 1..L |-> Prepared(ts[i], Name(ts[i]))]
  OBVIOUS
<1>4. \A i \in 1..L : parts[i] = Prepared(ts[i], Name(ts[i])) /\ parts[i] \in Seq(Records)
  BY <1>2, <1>3, WaitingIs, PreparedIs
<1>5. parts \in Seq(Seq(Records)) /\ Len(parts) = L
  BY <1>3, <1>4
<1>6. PICK c : c = Concat(parts)
  OBVIOUS
<1>7. Carried(ts) = c
  BY <1>2, <1>3, <1>6 DEF Carried
<1>8. PICK w : /\ c \in Seq(Records)
               /\ \A n \in 1..Len(c) :
                    /\ w[n][1] \in 1..L /\ w[n][2] \in 1..Len(parts[w[n][1]])
                    /\ c[n] = parts[w[n][1]][w[n][2]]
               /\ \A i \in 1..L : \A k \in 1..Len(parts[i]) : \E n \in 1..Len(c) : w[n] = <<i, k>>
               /\ \A m, n \in 1..Len(c) : m < n => Before(w[m], w[n])
  <2>1. \E w :
              /\ Concat(parts) \in Seq(Records)
              /\ \A n \in 1..Len(Concat(parts)) :
                    /\ w[n][1] \in 1..Len(parts) /\ w[n][2] \in 1..Len(parts[w[n][1]])
                    /\ Concat(parts)[n] = parts[w[n][1]][w[n][2]]
              /\ \A i \in 1..Len(parts) : \A k \in 1..Len(parts[i]) :
                    \E n \in 1..Len(Concat(parts)) : w[n] = <<i, k>>
              /\ \A m, n \in 1..Len(Concat(parts)) : m < n => Before(w[m], w[n])
    BY <1>5, ConcatIs, Zenon
  <2>2. Len(parts) = L /\ Concat(parts) = c
    BY <1>5, <1>6
  <2> QED BY <2>1, <2>2, Zenon
<1>9. Carries(ts, w)
  <2>1. \A n \in 1..Len(c) : LET t == ts[w[n][1]] IN
          /\ w[n][1] \in 1..L /\ w[n][2] \in 1..Len(Prepared(t, Name(t)))
          /\ c[n] = Prepared(t, Name(t))[w[n][2]]
    BY <1>4, <1>8
  <2>2. \A i \in 1..L : \A k \in 1..Len(Prepared(ts[i], Name(ts[i]))) :
           \E n \in 1..Len(c) : w[n] = <<i, k>>
    BY <1>4, <1>8
  <2>3. \A m, n \in 1..Len(c) : m < n => Before(w[m], w[n])
    BY <1>8
  <2> QED BY <1>2, <1>7, <2>1, <2>2, <2>3 DEF Carries
<1> QED BY <1>7, <1>8, <1>9

LEMMA PublishType ==
    ASSUME TypeInv, Publish
    PROVE  TypeInv'
<1> USE DEF TypeInv
<1>1. nextTxn \in Txn /\ nextTxn + 1 \in 1..(MaxTxn + 1)
  BY TwoPhaseAssumption DEF Publish, TxnType, Txn
<1>2. image' \in Seq(Records)
  <2>1. PICK ts \in SetToSeqs(Waiting) : image' = <<Image(nextTxn, rows)>> \o Carried(ts)
    BY DEF Publish
  <2>2. PICK c \in Seq(Records) : c = Carried(ts)
    BY <2>1, CarriedIs
  <2>3. PICK rec \in Records : rec = Image(nextTxn, rows)
    BY <1>1, RecordsAre DEF TxnType
  <2>4. image' = <<rec>> \o c
    BY <2>1, <2>2, <2>3
  <2> QED BY <2>2, <2>3, <2>4
<1>3. LogType'
  <2>1. covered' \in 0..(nextLsn - 1) /\ ckpt' \in BOOLEAN /\ UNCHANGED <<log, nextLsn, durable>>
    BY DEF Publish, LogType
  <2> QED BY <1>2, <2>1 DEF LogType
<1>4. WaitType'
  BY DEF Publish, WaitType, waitVars
<1>5. TxnType'
  BY <1>1 DEF Publish, TxnType, Statuses
<1>6. HistType'
  BY DEF Publish, HistType
<1> QED BY <1>3, <1>4, <1>5, <1>6

LEMMA CrashType ==
    ASSUME TypeInv, Crash
    PROVE  TypeInv'
<1> USE DEF TypeInv
<1>1. PICK k \in 0..Len(log) : log' = SubSeq(log, 1, k) /\ status' = OnDisk(log')
  BY DEF Crash
<1>2. log' \in Seq(Frames)
  <2>1. log \in Seq(Frames)
    BY DEF LogType
  <2>2. \A i \in 1..k : log[i] \in Frames
    BY <2>1
  <2> QED BY <1>1, <2>1, <2>2
<1>3. LogType'
  BY <1>2 DEF Crash, LogType
<1>4. status' \in [Txn -> Statuses]
  BY <1>1 DEF OnDisk, TxnType, Statuses
<1>5. TxnType'
  BY <1>4 DEF Crash, TxnType
<1>6. WaitType' /\ HistType'
  BY DEF Crash, WaitType, HistType, waitVars, histVars
<1> QED BY <1>3, <1>5, <1>6

\* The position recovery goes on from.
Top == Highest({covered} \cup {log[i].lsn : i \in 1..Len(log)})

LEMMA TopIs ==
    ASSUME LogType
    PROVE  /\ Top \in 0..MaxLsn /\ covered <= Top
           /\ \A i \in 1..Len(log) : log[i].lsn <= Top
<1>1. PICK S : S = {covered} \cup {log[i].lsn : i \in 1..Len(log)}
  OBVIOUS
<1>2. \A i \in 1..Len(log) : log[i].lsn \in 1..MaxLsn
  <2>1. \A f \in Frames : f.lsn \in 1..MaxLsn
    BY DEF Frames
  <2> QED BY <2>1 DEF LogType
<1>3. covered \in 0..MaxLsn
  BY TwoPhaseAssumption DEF LogType
<1>4. S \in SUBSET (0..MaxLsn) /\ S # {}
  BY <1>1, <1>2, <1>3, TwoPhaseAssumption
<1>5. Highest(S) \in S /\ \A y \in S : y <= Highest(S)
  BY <1>4, HighestIs, TwoPhaseAssumption
<1> QED BY <1>1, <1>4, <1>5 DEF Top

LEMMA RecoverType ==
    ASSUME TypeInv, Recover
    PROVE  TypeInv'
<1> USE DEF TypeInv
<1>1. PICK d \in Seq(Records) : d = DiskWith(log)
  BY DiskType DEF LogType
<1>2. PICK p : p = Recovered.prepared
  OBVIOUS
<1>3. /\ DOMAIN p \in SUBSET Txn
      /\ \A t \in DOMAIN p : p[t].sets \in Nets
  <2>1. p = Replay(d, Empty).prepared
    BY <1>1, <1>2 DEF Recovered
  <2>2. \A t \in DOMAIN p : t \in Txn /\ Has(d, t, "prepare") /\ p[t] = Waiter(d, t)
    BY <2>1, ReplayedAre
  <2> QED BY <2>2, WaiterIs
<1>4. Recovered.rows \in [Row -> Valued]
  BY <1>1, ReplayedRows DEF Recovered
<1>5. <<>> \in Nets
  <2>1. <<>> \in [{} -> Txn \cup {NoValue}]
    OBVIOUS
  <2> QED BY <2>1 DEF Nets
<1>6. sets' \in [Txn -> Nets]
  BY <1>2, <1>3, <1>5 DEF Recover
<1>7. lock' \in [Row -> Txn \cup {Nobody}]
  <2>1. LocksBack(p) \in [Row -> Txn \cup {Nobody}]
    BY <1>3 DEF LocksBack
  <2> QED BY <1>2, <2>1 DEF Recover
<1>8. gids' \in [Gid -> Txn \cup {Nobody}]
  <2>1. ASSUME NEW g \in Gid, \E t \in DOMAIN p : p[t].gid = g PROVE LastUnder(p, g) \in Txn
    <3>1. PICK t \in DOMAIN p : p[t].gid = g
      BY <2>1
    <3> DEFINE Mine == {u \in DOMAIN p : p[u].gid = g}
               At == {p[u].seq : u \in Mine}
    <3>2. \A u \in DOMAIN p : p[u].seq \in 1..Len(d)
      <4>1. p = Replay(d, Empty).prepared
        BY <1>1, <1>2 DEF Recovered
      <4>2. \A u \in DOMAIN p : u \in Txn /\ Has(d, u, "prepare") /\ p[u] = Waiter(d, u)
        BY <4>1, ReplayedAre
      <4> QED BY <4>2, WaiterIs
    <3>3. At \in SUBSET (0..Len(d)) /\ At # {} /\ Len(d) \in Nat
      BY <3>1, <3>2
    <3>4. PICK m \in At : \A x \in At : x <= m
      <4> HIDE DEF At
      <4> QED BY <3>3, HasGreatest
    <3>5. PICK u \in DOMAIN p : p[u].gid = g /\ p[u].seq = m
      BY <3>4
    <3>6. \A v \in DOMAIN p : p[v].gid = g => p[v].seq <= p[u].seq
      BY <3>4, <3>5
    <3>7. LastUnder(p, g) \in DOMAIN p
      BY <3>5, <3>6 DEF LastUnder
    <3> QED BY <1>3, <3>7
  <2> QED BY <1>2, <2>1 DEF Recover
<1>9. /\ nextLsn' = Top + 1 /\ durable' = Top /\ UNCHANGED <<log, image, covered, ckpt>>
      /\ nextTxn' = nextTxn /\ status' = status
  BY DEF Recover, Top
<1>10. LogType'
  <2>1. Top \in 0..MaxLsn /\ covered <= Top
    BY TopIs
  <2>2. Top + 1 \in 1..(MaxLsn + 1) /\ Top \in 0..(Top + 1 - 1) /\ covered \in 0..(Top + 1 - 1)
    BY <2>1, TwoPhaseAssumption DEF LogType
  <2> QED BY <1>9, <2>2 DEF LogType
<1>11. WaitType'
  <2>1. Top \in 0..MaxLsn /\ 0 \in 0..(Top + 1 - 1)
    BY TopIs, TwoPhaseAssumption
  <2>2. 0 \in 0..(nextLsn' - 1)
    BY <1>9, <2>1
  <2> QED BY <2>2 DEF WaitType, Recover
<1>12. TxnType'
  BY <1>4, <1>6, <1>7, <1>8, <1>9 DEF Recover, TxnType
<1>13. HistType'
  BY <1>4 DEF Recover, HistType, boundVars
<1> QED BY <1>10, <1>11, <1>12, <1>13

LEMMA TypeStart == Init => TypeInv
<1> SUFFICES ASSUME Init PROVE TypeInv
  OBVIOUS
<1>1. <<>> \in Nets
  <2>1. <<>> \in [{} -> Txn \cup {NoValue}]
    OBVIOUS
  <2> QED BY <2>1 DEF Nets
<1>2. LogType
  <2>1. 1 \in 1..(MaxLsn + 1) /\ 0 \in 0..(1 - 1)
    BY TwoPhaseAssumption
  <2>2. <<>> \in Seq(Frames) /\ <<>> \in Seq(Records)
    OBVIOUS
  <2> QED BY <2>1, <2>2 DEF Init, LogType
<1>3. WaitType
  BY DEF Init, WaitType
<1>4. TxnType
  BY <1>1, TwoPhaseAssumption DEF Init, TxnType, Statuses, Valued
<1>5. HistType
  BY DEF Init, HistType, Valued
<1> QED BY <1>2, <1>3, <1>4, <1>5 DEF TypeInv

LEMMA TypeStep == TypeInv /\ [Next]_vars => TypeInv'
<1> SUFFICES ASSUME TypeInv, [Next]_vars PROVE TypeInv'
  OBVIOUS
<1>1. ASSUME NEW t \in Txn, Session(t) \/ Engine(t) PROVE TypeInv'
  BY <1>1, SessionType, EngineType
<1>2. ASSUME NEW g \in Gid, FinishCommit(g) \/ FinishRollback(g) \/ FinishAppendFails(g) PROVE TypeInv'
  BY <1>2, FinishType
<1>3. CASE Fsync
  <2>1. durable' \in 0..(nextLsn - 1)
    BY <1>3 DEF Fsync, TypeInv, LogType
  <2>2. LogType' /\ WaitType'
    BY <1>3, <2>1 DEF Fsync, TypeInv, LogType, WaitType, waitVars
  <2>3. TxnType' /\ HistType'
    BY <1>3 DEF Fsync, TypeInv, TxnType, HistType, txnVars, histVars, boundVars
  <2> QED BY <2>2, <2>3 DEF TypeInv
<1>4. CASE Publish
  BY <1>4, PublishType
<1>5. CASE Truncate
  <2>1. log' \in Seq(Frames)
    <3>1. <<>> \in Seq(Frames)
      OBVIOUS
    <3>2. log' = <<>> \/ log' = log
      BY <1>5 DEF Truncate
    <3> QED BY <3>1, <3>2 DEF TypeInv, LogType
  <2>3. LogType'
    BY <1>5, <2>1 DEF Truncate, TypeInv, LogType
  <2>2. WaitType' /\ TxnType' /\ HistType'
    BY <1>5 DEF Truncate, TypeInv, WaitType, TxnType, HistType, waitVars, txnVars, histVars
  <2> QED BY <2>3, <2>2 DEF TypeInv
<1>6. CASE Crash
  BY <1>6, CrashType
<1>7. CASE Recover
  BY <1>7, RecoverType
<1>8. CASE RefuseClash
  BY <1>8 DEF RefuseClash, TypeInv, LogType, WaitType, TxnType, HistType, logVars, waitVars,
              txnVars, histVars, boundVars
<1>9. CASE UNCHANGED vars
  BY <1>9 DEF vars, TypeInv, LogType, WaitType, TxnType, HistType, logVars, waitVars,
              txnVars, histVars, boundVars
<1> QED BY <1>1, <1>2, <1>3, <1>4, <1>5, <1>6, <1>7, <1>8, <1>9 DEF Next

LEMMA TypeHolds == Spec => []TypeInv
BY TypeStart, TypeStep, PTL DEF Spec

\* Whoever waits for the log waits for a position that was handed out, and every
\* record, table and history stays within its type, through crashes and restarts.
THEOREM TwoPhaseTypeOK == Spec => []TypeOK
<1>1. TypeInv => TypeOK
  <2> SUFFICES ASSUME TypeInv PROVE TypeOK
    OBVIOUS
  <2>1. \A f \in Frames : f.lsn \in Nat /\ f.rec.txn \in Txn
    BY DEF Frames, Records
  <2>2. \A i \in 1..Len(log) : log[i].lsn \in Nat /\ log[i].rec.txn \in Txn
    BY <2>1 DEF TypeInv, LogType
  <2>3. nextLsn \in Nat \ {0} /\ durable \in Nat /\ covered \in Nat /\ ckpt \in BOOLEAN
    BY TwoPhaseAssumption DEF TypeInv, LogType
  <2> QED BY <2>2, <2>3 DEF TypeInv, WaitType, TxnType, HistType, Statuses, Valued, TypeOK
<1> QED BY <1>1, TypeHolds, PTL

-----------------------------------------------------------------------------
(* How the disk changes                                                    *)

LEMMA Appended ==
    ASSUME NEW S, NEW a \in Seq(S), NEW b \in Seq(S)
    PROVE  /\ a \o b \in Seq(S) /\ Len(a \o b) = Len(a) + Len(b)
           /\ \A p \in 1..Len(a) : (a \o b)[p] = a[p]
           /\ \A i \in 1..Len(b) : (a \o b)[Len(a) + i] = b[i]
OBVIOUS

\* Image and log one after the other, the log climbing: y, of n frames left out.
Joined(im, frames, c, y, n) ==
    /\ \A i \in 1..Len(frames) : frames[i].lsn > c <=> i > n
    /\ y \in Seq(Records) /\ Len(y) = Len(im) + Len(frames) - n
    /\ \A p \in 1..Len(im) : y[p] = im[p]
    /\ \A i \in (n + 1)..Len(frames) : y[Len(im) + i - n] = frames[i].rec

LEMMA JoinIs ==
    ASSUME NEW im \in Seq(Records), NEW frames \in Seq(Frames), NEW c \in Nat,
           \A i, j \in 1..Len(frames) : i < j => frames[i].lsn < frames[j].lsn
    PROVE  \E n \in 0..Len(frames) : Joined(im, frames, c, im \o Climbing(frames, c), n)
<1>0. PICK L \in Nat, M \in Nat : L = Len(frames) /\ M = Len(im)
  OBVIOUS
<1>1. PICK n \in 0..L :
              /\ \A i \in 1..L : frames[i].lsn > c <=> i > n
              /\ Climbing(frames, c) = [i \in 1..(L - n) |-> frames[n + i].rec]
  BY <1>0, ClimbingIs
<1>2. \A i \in 1..L : frames[i].rec \in Records
  <2>1. \A f \in Frames : f.rec \in Records
    BY DEF Frames
  <2> QED BY <1>0, <2>1
<1>3. PICK x : x = [i \in 1..(L - n) |-> frames[n + i].rec]
  OBVIOUS
<1>4. \A i \in 1..(L - n) : n + i \in 1..L
  OBVIOUS
<1>5. x \in Seq(Records) /\ Len(x) = L - n
  BY <1>2, <1>3, <1>4
<1>6. PICK z \in Seq(Records), K \in Nat : z = x /\ K = Len(z) /\ K = L - n
  BY <1>5
<1>7. PICK y : y = im \o z
  OBVIOUS
<1>8. /\ y \in Seq(Records) /\ Len(y) = M + K
      /\ \A p \in 1..M : y[p] = im[p]
      /\ \A i \in 1..K : y[M + i] = z[i]
  <2>1. /\ im \o z \in Seq(Records) /\ Len(im \o z) = Len(im) + Len(z)
        /\ \A p \in 1..Len(im) : (im \o z)[p] = im[p]
        /\ \A i \in 1..Len(z) : (im \o z)[Len(im) + i] = z[i]
    BY Appended
  <2> QED BY <1>0, <1>6, <1>7, <2>1
<1>9. \A i \in (n + 1)..L : y[M + i - n] = frames[i].rec
  <2> SUFFICES ASSUME NEW i \in (n + 1)..L PROVE y[M + i - n] = frames[i].rec
    OBVIOUS
  <2>1. i - n \in 1..K /\ i - n \in 1..(L - n) /\ M + (i - n) = M + i - n /\ n + (i - n) = i
    BY <1>6
  <2>2. y[M + (i - n)] = z[i - n] /\ x[i - n] = frames[n + (i - n)].rec
    BY <1>3, <1>8, <2>1
  <2> QED BY <1>6, <2>1, <2>2
<1>10. Len(y) = M + L - n
  BY <1>6, <1>8
<1>11. Joined(im, frames, c, y, n)
  BY <1>0, <1>1, <1>8, <1>9, <1>10 DEF Joined
<1> QED BY <1>0, <1>1, <1>3, <1>6, <1>7, <1>11

\* Records logged by a clean engine are appended to the disk.
LEMMA Grow ==
    ASSUME LogType, Climbs, ~ckpt, NEW recs \in Seq(Records), Logged(recs), NEW d, d = Kept,
           NEW a \in Nat, a = nextLsn
    PROVE  /\ Climbs' /\ d \in Seq(Records)
           /\ \E d1 \in Seq(Records) :
                 /\ d1 = Kept' /\ Len(d1) = Len(d) + Len(recs)
                 /\ \A p \in 1..Len(d) : d1[p] = d[p]
                 /\ \A i \in 1..Len(recs) : d1[Len(d) + i] = recs[i]
                 /\ \A t, k, n : Marked(d, t, k, n) => Marked(d1, t, k, n)'
                 /\ \A i \in 1..Len(recs) :
                       Marked(d1, recs[i].txn, recs[i].kind, a + i - 1)'
<1>1. PICK l \in Seq(Frames), im \in Seq(Records), c \in Nat, m \in Nat :
            /\ l = log /\ im = image /\ c = covered /\ m = Len(recs) /\ a \in Nat
            /\ a >= 1 /\ c < a /\ a + m - 1 <= MaxLsn
  <2>1. nextLsn \in 1..(MaxLsn + 1) /\ covered \in 0..(nextLsn - 1)
    BY DEF LogType
  <2>2. nextLsn \in Nat /\ covered \in Nat /\ nextLsn >= 1 /\ covered < nextLsn
    BY <2>1, TwoPhaseAssumption
  <2>3. log \in Seq(Frames) /\ image \in Seq(Records) /\ nextLsn + Len(recs) - 1 <= MaxLsn
    BY DEF LogType, Logged
  <2>4. Len(recs) \in Nat
    OBVIOUS
  <2> QED BY <2>2, <2>3, <2>4
<1>2. PICK fs \in Seq(Frames) :
            /\ fs = Framed(recs) /\ Len(fs) = m
            /\ \A i \in 1..m : fs[i].lsn = a + i - 1 /\ fs[i].rec = recs[i]
  BY <1>1, FramedIs
<1>3. PICK L \in Nat, l1 \in Seq(Frames) :
            /\ L = Len(l) /\ l1 = log' /\ Len(l1) = L + m
            /\ \A i \in 1..L : l1[i] = l[i]
            /\ \A i \in 1..m : l1[L + i] = fs[i]
  <2>1. log' = l \o fs
    BY <1>1, <1>2 DEF Logged
  <2>2. /\ l \o fs \in Seq(Frames) /\ Len(l \o fs) = Len(l) + Len(fs)
        /\ \A p \in 1..Len(l) : (l \o fs)[p] = l[p]
        /\ \A i \in 1..Len(fs) : (l \o fs)[Len(l) + i] = fs[i]
    BY Appended
  <2>3. PICK L \in Nat : L = Len(l)
    OBVIOUS
  <2> QED BY <1>2, <2>1, <2>2, <2>3
<1>4. /\ \A i, j \in 1..L : i < j => l[i].lsn < l[j].lsn
      /\ \A i \in 1..L : l[i].lsn < a /\ l[i].lsn \in Nat
  <2>1. \A f \in Frames : f.lsn \in Nat
    BY DEF Frames
  <2> QED BY <1>1, <1>3, <2>1 DEF Climbs
<1>5. \A i \in (L + 1)..(L + m) : l1[i].lsn = a + i - L - 1 /\ l1[i].rec = recs[i - L]
  <2> SUFFICES ASSUME NEW i \in (L + 1)..(L + m)
               PROVE  l1[i].lsn = a + i - L - 1 /\ l1[i].rec = recs[i - L]
    OBVIOUS
  <2>1. i - L \in 1..m /\ L + (i - L) = i /\ a + (i - L) - 1 = a + i - L - 1
    BY <1>1, <1>3
  <2> QED BY <1>2, <1>3, <2>1
<1>6. \A i \in 1..(L + m) : i \in 1..L \/ i \in (L + 1)..(L + m)
  BY <1>1, <1>3
<1>7. \A i \in 1..(L + m) : l1[i].lsn < a + m
  <2>1. \A i \in 1..L : l1[i].lsn < a + m
    BY <1>1, <1>3, <1>4
  <2>2. \A i \in (L + 1)..(L + m) : l1[i].lsn < a + m
    <3> SUFFICES ASSUME NEW i \in (L + 1)..(L + m) PROVE l1[i].lsn < a + m
      OBVIOUS
    <3>1. l1[i].lsn = a + i - L - 1
      BY <1>5
    <3>2. a + i - L - 1 < a + m
      OBVIOUS
    <3> QED BY <3>1, <3>2
  <2> QED BY <1>6, <2>1, <2>2
<1>8. \A i, j \in 1..(L + m) : i < j => l1[i].lsn < l1[j].lsn
  <2> SUFFICES ASSUME NEW i \in 1..(L + m), NEW j \in 1..(L + m), i < j
               PROVE  l1[i].lsn < l1[j].lsn
    OBVIOUS
  <2>1. CASE j \in 1..L
    <3>1. i \in 1..L
      BY <2>1, <1>3
    <3> QED BY <2>1, <3>1, <1>3, <1>4
  <2>2. CASE j \in (L + 1)..(L + m) /\ i \in 1..L
    <3>1. l1[i].lsn = l[i].lsn /\ l[i].lsn < a /\ l[i].lsn \in Nat
      BY <2>2, <1>3, <1>4
    <3>2. l1[j].lsn = a + j - L - 1
      BY <2>2, <1>5
    <3>3. a <= a + j - L - 1
      BY <2>2
    <3> QED BY <3>1, <3>2, <3>3
  <2>3. CASE j \in (L + 1)..(L + m) /\ i \in (L + 1)..(L + m)
    <3>1. l1[i].lsn = a + i - L - 1 /\ l1[j].lsn = a + j - L - 1
      BY <2>3, <1>5
    <3> QED BY <3>1, <1>1, <1>3
  <2> QED BY <1>6, <2>1, <2>2, <2>3
<1>9. Climbs'
  <2>1. nextLsn' = a + m
    BY <1>1 DEF Logged
  <2> QED BY <1>3, <1>7, <1>8, <2>1 DEF Climbs
<1>m. PICK M \in Nat : M = Len(im)
  OBVIOUS
<1>10. PICK n \in 0..L :
              /\ \A i \in 1..L : l[i].lsn > c <=> i > n
              /\ d \in Seq(Records) /\ Len(d) = M + L - n
              /\ \A p \in 1..M : d[p] = im[p]
              /\ \A i \in (n + 1)..L : d[M + i - n] = l[i].rec
  <2>1. d = im \o Climbing(l, c)
    BY <1>1 DEF Kept, Disk, DiskWith
  <2>2. \A i, j \in 1..Len(l) : i < j => l[i].lsn < l[j].lsn
    BY <1>3, <1>4
  <2>3. PICK n0 \in 0..Len(l) : Joined(im, l, c, im \o Climbing(l, c), n0)
    BY <2>2, JoinIs
  <2>4. L = Len(l) /\ Joined(im, l, c, d, n0)
    BY <1>3, <2>1, <2>3
  <2> QED BY <1>m, <2>4 DEF Joined
<1>11. PICK d1 : d1 = im \o Climbing(l1, c)
  OBVIOUS
<1>12. PICK n1 \in 0..(L + m) :
              /\ \A i \in 1..(L + m) : l1[i].lsn > c <=> i > n1
              /\ d1 \in Seq(Records) /\ Len(d1) = M + (L + m) - n1
              /\ \A p \in 1..M : d1[p] = im[p]
              /\ \A i \in (n1 + 1)..(L + m) : d1[M + i - n1] = l1[i].rec
  <2>2. \A i, j \in 1..Len(l1) : i < j => l1[i].lsn < l1[j].lsn
    BY <1>3, <1>8
  <2>3. PICK n2 \in 0..Len(l1) : Joined(im, l1, c, im \o Climbing(l1, c), n2)
    BY <2>2, JoinIs
  <2>4. L + m = Len(l1) /\ Joined(im, l1, c, d1, n2)
    BY <1>3, <1>11, <2>3
  <2> QED BY <1>m, <2>4 DEF Joined
<1>13. d1 = Kept'
  <2>1. image' = im /\ covered' = c /\ ~ckpt'
    BY <1>1 DEF Logged
  <2> QED BY <1>3, <1>11, <2>1 DEF Kept, Disk, DiskWith
<1>14. n1 = n
  <2>1. \A i \in 1..(L + m) : i > L => l1[i].lsn > c
    <3> SUFFICES ASSUME NEW i \in 1..(L + m), i > L PROVE l1[i].lsn > c
      OBVIOUS
    <3>1. i \in (L + 1)..(L + m)
      BY <1>3
    <3>2. l1[i].lsn = a + i - L - 1
      BY <1>5, <3>1
    <3> QED BY <3>1, <3>2, <1>1, <1>3
  <2>2. \A i \in 1..L : l1[i].lsn > c <=> i > n
    BY <1>3, <1>10
  <2>3. n1 <= n
    <3> SUFFICES ASSUME n1 > n PROVE FALSE
      BY <1>10, <1>12
    <3>1. n1 \in 1..(L + m) /\ ~(l1[n1].lsn > c)
      BY <1>10, <1>12
    <3>2. n1 \in 1..L
      BY <2>1, <3>1, <1>3, <1>1
    <3> QED BY <2>2, <3>1, <3>2
  <2>4. n <= n1
    <3> SUFFICES ASSUME n > n1 PROVE FALSE
      BY <1>10, <1>12
    <3>1. n \in 1..L /\ n \in 1..(L + m)
      BY <1>10, <1>12, <1>3, <1>1
    <3>2. ~(l1[n].lsn > c)
      BY <2>2, <3>1
    <3> QED BY <1>12, <3>1, <3>2
  <2> QED BY <2>3, <2>4, <1>10, <1>12
<1>15. PICK D \in Nat : D = Len(d) /\ M = Len(im) /\ D = M + L - n /\ M <= D
  <2>1. M + L - n \in Nat /\ M <= M + L - n
    OBVIOUS
  <2> QED BY <1>m, <1>10, <2>1
<1>16. Len(d1) = D + m
  BY <1>12, <1>14, <1>15, <1>1, <1>3
<1>17. \A p \in 1..D : d1[p] = d[p]
  <2> SUFFICES ASSUME NEW p \in 1..D PROVE d1[p] = d[p]
    OBVIOUS
  <2>1. CASE p <= M
    <3>1. p \in 1..M
      BY <2>1
    <3> QED BY <3>1, <1>10, <1>12
  <2>2. CASE p > M
    <3>1. PICK i \in (n + 1)..L : p = M + i - n
      <4>1. p - M + n \in (n + 1)..L /\ p = M + (p - M + n) - n
        BY <2>2, <1>15, <1>3, <1>10
      <4> QED BY <4>1
    <3>2. d[p] = l[i].rec
      BY <3>1, <1>10, <1>15
    <3>3. i \in (n1 + 1)..(L + m) /\ i \in 1..L
      BY <3>1, <1>14, <1>1, <1>3
    <3>4. d1[p] = l1[i].rec
      BY <3>1, <3>3, <1>12, <1>14, <1>15
    <3> QED BY <3>2, <3>3, <3>4, <1>3
  <2> QED BY <2>1, <2>2, <1>15
<1>18. \A i \in 1..m : d1[D + i] = recs[i]
  <2> SUFFICES ASSUME NEW i \in 1..m PROVE d1[D + i] = recs[i]
    OBVIOUS
  <2>1. L + i \in (n1 + 1)..(L + m) /\ D + i = M + (L + i) - n1
    BY <1>1, <1>3, <1>14, <1>10, <1>15
  <2>2. d1[D + i] = l1[L + i].rec
    BY <2>1, <1>12, <1>15
  <2> QED BY <2>2, <1>2, <1>3
<1>19. durable' = durable /\ image' = im
  BY <1>1 DEF Logged
<1>20. \A p \in (M + 1)..D : Lsn(d1, p)' = Lsn(d, p)
  <2> SUFFICES ASSUME NEW p \in (M + 1)..D PROVE Lsn(d1, p)' = Lsn(d, p)
    OBVIOUS
  <2>1. Lsn(d1, p)' = l1[(L + m) - (D + m) + p].lsn /\ Lsn(d, p) = l[L - D + p].lsn
    BY <1>1, <1>3, <1>15, <1>16 DEF Lsn
  <2>2. (L + m) - (D + m) + p = L - D + p /\ L - D + p \in 1..L
    BY <1>1, <1>3, <1>10, <1>15
  <2> QED BY <2>1, <2>2, <1>3
<1>21. \A i \in 1..m : Lsn(d1, D + i)' = a + i - 1
  <2> SUFFICES ASSUME NEW i \in 1..m PROVE Lsn(d1, D + i)' = a + i - 1
    OBVIOUS
  <2>1. Lsn(d1, D + i)' = l1[(L + m) - (D + m) + (D + i)].lsn
    BY <1>3, <1>16 DEF Lsn
  <2>2. (L + m) - (D + m) + (D + i) = L + i
    BY <1>1, <1>3, <1>15
  <2> QED BY <2>1, <2>2, <1>2, <1>3
<1>22. ASSUME NEW t, NEW k, NEW x, Marked(d, t, k, x) PROVE Marked(d1, t, k, x)'
  <2>1. PICK p \in 1..D : Is(d[p], t, k) /\ (Safe(d, p) \/ Lsn(d, p) = x)
    BY <1>15, <1>22 DEF Marked
  <2>2. p \in 1..(D + m) /\ Is(d1[p], t, k)
    BY <2>1, <1>1, <1>15, <1>17
  <2>3. Safe(d1, p)' \/ Lsn(d1, p)' = x
    <3>1. CASE p <= M
      BY <3>1, <1>15, <1>19 DEF Safe
    <3>2. CASE p \in (M + 1)..D
      <4>1. ~(p <= M)
        BY <3>2, <1>15
      <4>2. Lsn(d, p) <= durable \/ Lsn(d, p) = x
        BY <2>1, <4>1, <1>1, <1>15 DEF Safe
      <4> QED BY <3>2, <4>2, <1>19, <1>20 DEF Safe
    <3> QED BY <3>1, <3>2, <2>1, <1>15
  <2> QED BY <2>2, <2>3, <1>16 DEF Marked, Is
<1>23. ASSUME NEW i \in 1..m PROVE Marked(d1, recs[i].txn, recs[i].kind, a + i - 1)'
  <2>1. D + i \in 1..(D + m)
    BY <1>1, <1>15
  <2>2. Is(d1[D + i], recs[i].txn, recs[i].kind)
    BY <1>18 DEF Is
  <2> QED BY <2>1, <2>2, <1>16, <1>21 DEF Marked, Is
<1>24. \A t, k, x : Marked(d, t, k, x) => Marked(d1, t, k, x)'
  BY <1>22
<1>25. \A i \in 1..m : Marked(d1, recs[i].txn, recs[i].kind, a + i - 1)'
  BY <1>23
<1>26. /\ d1 = Kept' /\ Len(d1) = Len(d) + Len(recs)
       /\ \A p \in 1..Len(d) : d1[p] = d[p]
       /\ \A i \in 1..Len(recs) : d1[Len(d) + i] = recs[i]
       /\ \A i \in 1..Len(recs) : Marked(d1, recs[i].txn, recs[i].kind, a + i - 1)'
  <2>1. D = Len(d) /\ m = Len(recs)
    BY <1>1, <1>15
  <2>2. Len(d1) = Len(d) + Len(recs) /\ \A p \in 1..Len(d) : d1[p] = d[p]
    BY <2>1, <1>16, <1>17
  <2>3. \A i \in 1..Len(recs) : d1[Len(d) + i] = recs[i]
    BY <2>1, <1>18
  <2>4. \A i \in 1..Len(recs) : Marked(d1, recs[i].txn, recs[i].kind, a + i - 1)'
    BY <2>1, <1>25
  <2> QED BY <1>13, <2>2, <2>3, <2>4
<1> QED BY <1>9, <1>10, <1>12, <1>24, <1>26, Zenon

\* While the log only gets more durable, what is marked stays marked, and at or
\* below the durable position it is safe.
LEMMA Settles ==
    ASSUME UNCHANGED <<log, image>>, NEW u \in Nat, u = durable', durable \in Nat, durable <= u,
           LogType, NEW d \in Seq(Records), Len(d) <= Len(image) + Len(log)
    PROVE  /\ \A t, k, n : Marked(d, t, k, n) => Marked(d, t, k, n)'
           /\ \A t, k : \A n, m \in Nat : Marked(d, t, k, n) /\ n <= u => Marked(d, t, k, m)'
<1>1. PICK D \in Nat, M \in Nat, L \in Nat :
          D = Len(d) /\ M = Len(image) /\ L = Len(log) /\ D <= M + L
  BY DEF LogType
<1>2. \A p : Lsn(d, p)' = Lsn(d, p)
  BY DEF Lsn
<1>3. \A p \in 1..D : p > M => Lsn(d, p) \in Nat
  <2> SUFFICES ASSUME NEW p \in 1..D, p > M PROVE Lsn(d, p) \in Nat
    OBVIOUS
  <2>1. L - D + p \in 1..L
    BY <1>1
  <2>2. log[L - D + p] \in Frames
    BY <1>1, <2>1 DEF LogType
  <2> QED BY <1>1, <2>2 DEF Lsn, Frames
<1>4. \A p \in 1..D : Safe(d, p) => Safe(d, p)'
  <2> SUFFICES ASSUME NEW p \in 1..D, Safe(d, p) PROVE Safe(d, p)'
    OBVIOUS
  <2>1. CASE p <= M
    BY <1>1, <2>1 DEF Safe
  <2>2. CASE ~(p <= M)
    <3>1. Lsn(d, p) <= durable /\ Lsn(d, p) \in Nat
      BY <1>1, <1>3, <2>2 DEF Safe
    <3>2. Lsn(d, p) <= u
      BY <3>1
    <3> QED BY <1>2, <3>2 DEF Safe
  <2> QED BY <2>1, <2>2
<1>5. ASSUME NEW t, NEW k, NEW n, Marked(d, t, k, n) PROVE Marked(d, t, k, n)'
  <2>1. PICK p \in 1..D : Is(d[p], t, k) /\ (Safe(d, p) \/ Lsn(d, p) = n)
    BY <1>1, <1>5 DEF Marked
  <2>2. Safe(d, p)' \/ Lsn(d, p)' = n
    BY <1>2, <1>4, <2>1
  <2> QED BY <1>1, <2>1, <2>2 DEF Marked, Is
<1>6. ASSUME NEW t, NEW k, NEW n \in Nat, NEW m \in Nat, Marked(d, t, k, n), n <= u
      PROVE  Marked(d, t, k, m)'
  <2>1. PICK p \in 1..D : Is(d[p], t, k) /\ (Safe(d, p) \/ Lsn(d, p) = n)
    BY <1>1, <1>6 DEF Marked
  <2>2. Safe(d, p)'
    <3>1. Lsn(d, p) = n => Lsn(d, p)' <= u
      BY <1>2, <1>6
    <3> QED BY <1>4, <2>1, <3>1 DEF Safe
  <2> QED BY <1>1, <2>1, <2>2 DEF Marked, Is
<1> QED BY <1>5, <1>6

\* The disk is no longer than image and log.
LEMMA KeptIs ==
    ASSUME LogType, ckpt \/ Climbs
    PROVE  /\ Kept \in Seq(Records) /\ Len(Kept) <= Len(image) + Len(log)
           /\ Len(image) <= Len(Kept)
<1>1. CASE ckpt
  BY <1>1 DEF Kept, LogType
<1>2. CASE ~ckpt
  <2>1. PICK l \in Seq(Frames), im \in Seq(Records), c \in Nat : l = log /\ im = image /\ c = covered
    <3>1. covered \in Nat
      BY TwoPhaseAssumption DEF LogType
    <3> QED BY <3>1 DEF LogType
  <2>2. \A i, j \in 1..Len(l) : i < j => l[i].lsn < l[j].lsn
    BY <1>2, <2>1 DEF Climbs
  <2>3. PICK n \in 0..Len(l) : Joined(im, l, c, im \o Climbing(l, c), n)
    BY <2>2, JoinIs
  <2>4. Joined(im, l, c, Kept, n)
    BY <1>2, <2>1, <2>3 DEF Kept, Disk, DiskWith
  <2>5. PICK L \in Nat, M \in Nat : L = Len(l) /\ M = Len(im) /\ n \in 0..L
    OBVIOUS
  <2>6. Kept \in Seq(Records) /\ Len(Kept) = M + L - n
    BY <2>4, <2>5 DEF Joined
  <2>7. M + L - n <= M + L /\ M <= M + L - n
    BY <2>5
  <2> QED BY <2>1, <2>5, <2>6, <2>7
<1> QED BY <1>1, <1>2

-----------------------------------------------------------------------------
(* What may be appended                                                    *)

Extends(d1, d, recs) ==
    /\ d \in Seq(Records) /\ recs \in Seq(Records) /\ d1 \in Seq(Records)
    /\ Len(d1) = Len(d) + Len(recs)
    /\ \A p \in 1..Len(d) : d1[p] = d[p]
    /\ \A i \in 1..Len(recs) : d1[Len(d) + i] = recs[i]

\* Records are where they were, or are new.
LEMMA ExtendsBy ==
    ASSUME NEW d, NEW d1, NEW recs, Extends(d1, d, recs), NEW x \in 1..Len(d1)
    PROVE  \/ x \in 1..Len(d) /\ d1[x] = d[x]
           \/ ~(x \in 1..Len(d)) /\ \E i \in 1..Len(recs) : x = Len(d) + i /\ d1[x] = recs[i]
<1>1. PICK D \in Nat, K \in Nat : D = Len(d) /\ K = Len(recs) /\ Len(d1) = D + K
  BY DEF Extends
<1>2. CASE x \in 1..D
  BY <1>1, <1>2 DEF Extends
<1>3. CASE ~(x \in 1..D)
  <2>1. x - D \in 1..K /\ x = D + (x - D)
    BY <1>1, <1>3
  <2>2. d1[D + (x - D)] = recs[x - D]
    BY <1>1, <2>1 DEF Extends
  <2> QED BY <1>1, <1>3, <2>1, <2>2
<1> QED BY <1>2, <1>3, <1>1

\* A record that is no prepare.
LEMMA AppendsOne ==
    ASSUME NEW d, NEW d1, NEW rec \in Records, Extends(d1, d, <<rec>>), Cuts(d),
           rec.kind # "prepare",
           rec.kind = "op" => ~Has(d, rec.txn, "prepare"),
           rec.kind = "commit" => ~Has(d, rec.txn, "abort"),
           rec.kind = "abort" => ~Has(d, rec.txn, "commit")
    PROVE  Cuts(d1)
<1>1. PICK D \in Nat : /\ D = Len(d) /\ Len(d1) = D + 1 /\ d1[D + 1] = rec
                       /\ \A p \in 1..D : d1[p] = d[p]
  <2>1. Len(<<rec>>) = 1 /\ <<rec>>[1] = rec /\ 1 \in 1..1
    OBVIOUS
  <2>2. PICK recs : recs = <<rec>>
    OBVIOUS
  <2>3. Len(recs) = 1 /\ recs[1] = rec /\ Extends(d1, d, recs)
    BY <2>1, <2>2
  <2>4. Len(d) \in Nat
    BY DEF Extends
  <2> QED BY <2>1, <2>3, <2>4 DEF Extends
<1>2. \A x \in 1..(D + 1) : x \in 1..D \/ x = D + 1
  BY <1>1
<1>3. Once(d1)
  <2>1. \A x \in 1..(D + 1) : d1[x].kind = "prepare" => x \in 1..D
    BY <1>1, <1>2
  <2> QED BY <1>1, <2>1 DEF Cuts, Once
<1>4. OneWay(d1)
  <2> SUFFICES ASSUME NEW p \in 1..(D + 1), NEW q \in 1..(D + 1),
                      d1[p].kind = "commit" /\ d1[q].kind = "abort" /\ d1[p].txn = d1[q].txn
               PROVE  FALSE
    BY <1>1 DEF OneWay
  <2>1. CASE p \in 1..D /\ q \in 1..D
    BY <1>1, <2>1 DEF Cuts, OneWay
  <2>2. CASE p = D + 1 /\ q \in 1..D
    BY <1>1, <2>2 DEF Has, Is
  <2>3. CASE q = D + 1 /\ p \in 1..D
    BY <1>1, <2>3 DEF Has, Is
  <2>4. CASE p = D + 1 /\ q = D + 1
    BY <2>4
  <2> QED BY <1>2, <2>1, <2>2, <2>3, <2>4
<1>5. Locked(d1)
  <2> SUFFICES ASSUME NEW p \in 1..(D + 1), NEW q \in 1..(D + 1),
                      d1[p].kind = "op" /\ d1[q].kind = "prepare" /\ d1[p].txn = d1[q].txn
               PROVE  d1[p].row \in d1[q].locks
    BY <1>1 DEF Locked
  <2>1. q \in 1..D
    BY <1>1, <1>2
  <2>2. p \in 1..D
    BY <1>1, <1>2, <2>1 DEF Has, Is
  <2> QED BY <1>1, <2>1, <2>2 DEF Cuts, Locked
<1>6. Handed(d1)
  <2> SUFFICES ASSUME NEW p \in 1..(D + 1), NEW q \in 1..(D + 1),
                      p < q /\ d1[p].kind = "prepare" /\ d1[q].kind = "prepare",
                      d1[p].gid = d1[q].gid \/ d1[p].locks \cap d1[q].locks # {}
               PROVE  \E e \in 1..q : IsEnd(d1[e]) /\ d1[e].txn = d1[p].txn
    BY <1>1 DEF Handed
  <2>1. p \in 1..D /\ q \in 1..D
    BY <1>1, <1>2
  <2>2. PICK e \in 1..q : IsEnd(d[e]) /\ d[e].txn = d[p].txn
    BY <1>1, <2>1 DEF Cuts, Handed
  <2>3. e \in 1..D
    BY <1>1, <2>1
  <2> QED BY <1>1, <2>1, <2>2, <2>3
<1> QED BY <1>3, <1>4, <1>5, <1>6 DEF Cuts

\* The records of a prepare, the name and the locks being free.
LEMMA AppendsPrepare ==
    ASSUME NEW d, NEW d1, NEW recs, Extends(d1, d, recs), Cuts(d),
           NEW t, NEW g, NEW ls, NEW s, IsProgram(recs, t, g, ls, s), DOMAIN s \subseteq ls,
           ~Has(d, t, "prepare"),
           \A p \in 1..Len(d) : d[p].kind = "op" /\ d[p].txn = t => d[p].row \in ls,
           \A p \in 1..Len(d) : d[p].kind = "prepare" /\ (d[p].gid = g \/ d[p].locks \cap ls # {}) =>
                                   \E e \in 1..Len(d) : IsEnd(d[e]) /\ d[e].txn = d[p].txn
    PROVE  Cuts(d1)
<1>1. PICK D \in Nat, K \in Nat :
           /\ D = Len(d) /\ K = Len(recs) /\ Len(d1) = D + K /\ K >= 2
           /\ \A p \in 1..D : d1[p] = d[p]
  BY DEF Extends, IsProgram
<1>2. \A x \in 1..(D + K) :
         x \in 1..D \/ \E i \in 1..K : x = D + i /\ d1[x] = recs[i]
  <2> SUFFICES ASSUME NEW x \in 1..(D + K)
               PROVE  x \in 1..D \/ \E i \in 1..K : x = D + i /\ d1[x] = recs[i]
    OBVIOUS
  <2>1. x \in 1..Len(d1)
    BY <1>1
  <2>2. \/ x \in 1..Len(d) /\ d1[x] = d[x]
        \/ ~(x \in 1..Len(d)) /\ \E i \in 1..Len(recs) : x = Len(d) + i /\ d1[x] = recs[i]
    BY <2>1, ExtendsBy
  <2> QED BY <1>1, <2>2
<1>3. ASSUME NEW i \in 1..K
      PROVE  /\ recs[i].kind = "prepare" => i = K
             /\ recs[i].kind \in {"begin", "op", "prepare"}
             /\ recs[i].txn = t
             /\ recs[i].kind = "op" => recs[i].row \in ls
  <2>1. recs[1].kind = "begin" /\ recs[1].txn = t
    BY DEF IsProgram, PrepareBegin
  <2>2. recs[K].kind = "prepare" /\ recs[K].txn = t
    BY <1>1 DEF IsProgram, Prepare
  <2>3. \A j \in 2..(K - 1) : /\ recs[j].kind = "op" /\ recs[j].txn = t
                              /\ recs[j].row \in DOMAIN s
    <3> SUFFICES ASSUME NEW j \in 2..(K - 1)
                 PROVE  recs[j].kind = "op" /\ recs[j].txn = t /\ recs[j].row \in DOMAIN s
      OBVIOUS
    <3>1. PICK r \in DOMAIN s : recs[j] = Op(t, r, s[r])
      BY <1>1 DEF IsProgram
    <3> QED BY <3>1 DEF Op
  <2>4. i = 1 \/ i = K \/ i \in 2..(K - 1)
    BY <1>1
  <2>5. CASE i = 1
    BY <2>1, <2>5
  <2>6. CASE i = K
    BY <2>2, <2>6
  <2>7. CASE i \in 2..(K - 1)
    BY <2>3, <2>7
  <2> QED BY <2>4, <2>5, <2>6, <2>7
<1>4. recs[K].gid = g /\ recs[K].locks = ls /\ recs[K].kind = "prepare" /\ recs[K].txn = t
  BY <1>1 DEF IsProgram, Prepare
<1>5. \A x \in 1..(D + K) : d1[x].kind = "prepare" =>
          (x \in 1..D /\ d1[x].txn # t) \/ (x = D + K /\ d1[x] = recs[K])
  <2> SUFFICES ASSUME NEW x \in 1..(D + K), d1[x].kind = "prepare"
               PROVE  (x \in 1..D /\ d1[x].txn # t) \/ (x = D + K /\ d1[x] = recs[K])
    OBVIOUS
  <2>1. CASE x \in 1..D
    BY <1>1, <2>1 DEF Has, Is
  <2>2. CASE \E i \in 1..K : x = D + i /\ d1[x] = recs[i]
    BY <1>3, <2>2
  <2> QED BY <1>2, <2>1, <2>2
<1>6. \A x \in 1..(D + K) : IsEnd(d1[x]) => x \in 1..D
  <2> SUFFICES ASSUME NEW x \in 1..(D + K), IsEnd(d1[x]), ~(x \in 1..D) PROVE FALSE
    OBVIOUS
  <2>1. PICK i \in 1..K : d1[x] = recs[i]
    BY <1>2
  <2> QED BY <1>3, <2>1 DEF IsEnd
<1>7. Once(d1)
  <2> SUFFICES ASSUME NEW p \in 1..(D + K), NEW q \in 1..(D + K),
                      d1[p].kind = "prepare" /\ d1[q].kind = "prepare" /\ d1[p].txn = d1[q].txn
               PROVE  p = q
    BY <1>1 DEF Once
  <2>1. CASE p \in 1..D /\ q \in 1..D
    BY <1>1, <2>1 DEF Cuts, Once
  <2> QED BY <1>4, <1>5, <2>1
<1>8. OneWay(d1)
  <2> SUFFICES ASSUME NEW p \in 1..(D + K), NEW q \in 1..(D + K),
                      d1[p].kind = "commit" /\ d1[q].kind = "abort" /\ d1[p].txn = d1[q].txn
               PROVE  FALSE
    BY <1>1 DEF OneWay
  <2>1. p \in 1..D /\ q \in 1..D
    BY <1>6 DEF IsEnd
  <2> QED BY <1>1, <2>1 DEF Cuts, OneWay
<1>9. Locked(d1)
  <2> SUFFICES ASSUME NEW p \in 1..(D + K), NEW q \in 1..(D + K),
                      d1[p].kind = "op" /\ d1[q].kind = "prepare" /\ d1[p].txn = d1[q].txn
               PROVE  d1[p].row \in d1[q].locks
    BY <1>1 DEF Locked
  <2>1. CASE q \in 1..D /\ d1[q].txn # t
    <3>1. p \in 1..D
      BY <1>2, <1>3, <2>1
    <3> QED BY <1>1, <2>1, <3>1 DEF Cuts, Locked
  <2>2. CASE q = D + K /\ d1[q] = recs[K]
    <3>1. d1[p].txn = t
      BY <1>4, <2>2
    <3>2. CASE p \in 1..D
      BY <1>1, <1>4, <2>2, <3>1, <3>2
    <3>3. CASE \E i \in 1..K : p = D + i /\ d1[p] = recs[i]
      BY <1>3, <1>4, <2>2, <3>3
    <3> QED BY <1>2, <3>2, <3>3
  <2> QED BY <1>5, <2>1, <2>2
<1>10. Handed(d1)
  <2> SUFFICES ASSUME NEW p \in 1..(D + K), NEW q \in 1..(D + K),
                      p < q /\ d1[p].kind = "prepare" /\ d1[q].kind = "prepare",
                      d1[p].gid = d1[q].gid \/ d1[p].locks \cap d1[q].locks # {}
               PROVE  \E e \in 1..q : IsEnd(d1[e]) /\ d1[e].txn = d1[p].txn
    BY <1>1 DEF Handed
  <2>1. p \in 1..D
    BY <1>1, <1>5
  <2>2. CASE q \in 1..D
    <3>1. PICK e \in 1..q : IsEnd(d[e]) /\ d[e].txn = d[p].txn
      BY <1>1, <2>1, <2>2 DEF Cuts, Handed
    <3>2. e \in 1..D
      BY <1>1, <2>2
    <3> QED BY <1>1, <2>1, <3>1, <3>2
  <2>3. CASE q = D + K /\ d1[q] = recs[K]
    <3>1. PICK e \in 1..D : IsEnd(d[e]) /\ d[e].txn = d[p].txn
      BY <1>1, <1>4, <2>1, <2>3
    <3>2. e \in 1..q
      BY <1>1, <2>3
    <3> QED BY <1>1, <2>1, <3>1, <3>2
  <2> QED BY <1>5, <2>2, <2>3
<1> QED BY <1>7, <1>8, <1>9, <1>10 DEF Cuts

\* Of a cut.
LEMMA CutsCut ==
    ASSUME NEW d, NEW d1, NEW D \in Nat, D = Len(d), NEW m \in 0..D, m = Len(d1),
           \A p \in 1..m : d1[p] = d[p], Cuts(d)
    PROVE  Cuts(d1)
<1>1. \A p \in 1..m : p \in 1..D
  OBVIOUS
<1>2. Once(d1)
  BY <1>1 DEF Cuts, Once
<1>3. OneWay(d1)
  BY <1>1 DEF Cuts, OneWay
<1>4. Locked(d1)
  BY <1>1 DEF Cuts, Locked
<1>5. Handed(d1)
  <2> SUFFICES ASSUME NEW p \in 1..m, NEW q \in 1..m,
                      p < q /\ d1[p].kind = "prepare" /\ d1[q].kind = "prepare",
                      d1[p].gid = d1[q].gid \/ d1[p].locks \cap d1[q].locks # {}
               PROVE  \E e \in 1..q : IsEnd(d1[e]) /\ d1[e].txn = d1[p].txn
    BY DEF Handed
  <2>1. PICK e \in 1..q : IsEnd(d[e]) /\ d[e].txn = d[p].txn
    BY <1>1 DEF Cuts, Handed
  <2>2. e \in 1..m
    OBVIOUS
  <2> QED BY <1>1, <2>1, <2>2
<1> QED BY <1>2, <1>3, <1>4, <1>5 DEF Cuts

-----------------------------------------------------------------------------
(* A step of one transaction                                               *)

\* What it leaves alone.
Only(t) ==
    /\ \A u \in Txn \ {t} : /\ status'[u] = status[u] /\ sets'[u] = sets[u]
                            /\ preparing'[u] = preparing[u] /\ finishing'[u] = finishing[u]
                            /\ promised'[u] = promised[u]
                            /\ u >= nextTxn' <=> u >= nextTxn
                            /\ \A r \in Row : lock[r] = u => lock'[r] = u
                            /\ \A g \in Gid : gids[g] = u <=> gids'[g] = u
    /\ UNCHANGED <<mode, folded>> /\ (stray => stray') /\ ~ckpt'

LEMMA FrameMemory ==
    ASSUME TypeInv, Honest, Up, NEW t \in Txn, Only(t), PromiseOf(t)', MemoryOf(t)'
    PROVE  PromiseInv' /\ mode' = "up" /\ ~ckpt' /\ MemoryInv'
<1>1. mode' = "up" /\ ~ckpt'
  BY DEF Up, Only
<1>2. ASSUME NEW u \in Txn \ {t} PROVE PromiseOf(u)'
  <2>1. PromiseOf(u)
    BY DEF Honest, PromiseInv
  <2> QED BY <2>1 DEF Only, PromiseOf, Ended
<1>3. ASSUME NEW u \in Txn \ {t} PROVE MemoryOf(u)'
  <2>1. MemoryOf(u)
    BY DEF Honest, MemoryInv, Up
  <2>2. DOMAIN sets[u] \subseteq Row
    <3>1. sets[u] \in Nets
      BY DEF TypeInv, TxnType
    <3> QED BY <3>1, NetsAre
  <2>3. /\ status'[u] = status[u] /\ sets'[u] = sets[u] /\ preparing'[u] = preparing[u]
        /\ promised'[u] = promised[u] /\ (stray => stray')
    BY DEF Only
  <2>4. /\ \A r \in Row : lock[r] = u => lock'[r] = u
        /\ \A g \in Gid : gids[g] = u <=> gids'[g] = u
    BY DEF Only
  <2> QED BY <2>1, <2>2, <2>3, <2>4 DEF MemoryOf
<1>4. PromiseInv' /\ \A u \in Txn : MemoryOf(u)'
  BY <1>2, <1>3 DEF PromiseInv
<1> QED BY <1>1, <1>4 DEF MemoryInv

LEMMA FrameDisk ==
    ASSUME TypeInv, TypeInv', Up, NEW t \in Txn, Only(t), NEW d, NEW d1, NEW recs,
           Extends(d1, d, recs),
           Folds(d), Kinds(d), Owed(d), Cuts(d1), nextTxn <= nextTxn',
           \A u, k, n : Marked(d, u, k, n) => Marked(d1, u, k, n)',
           \A i \in 1..Len(recs) : /\ recs[i].txn = t /\ recs[i].kind # "image"
                                   /\ t < nextTxn' /\ t \notin folded,
           \A x \in 1..Len(d1) : d1[x].txn = t => KindOk(d1[x])',
           t \notin folded => OwedOf(d1, t)'
    PROVE  DiskInv(d1)'
<1>1. \A x \in 1..Len(d1) : \/ x \in 1..Len(d) /\ d1[x] = d[x]
                            \/ \E i \in 1..Len(recs) : d1[x] = recs[i]
  BY ExtendsBy
<1>2. \A p \in 1..Len(d) : p \in 1..Len(d1) /\ d1[p] = d[p]
  <2>1. PICK D \in Nat, K \in Nat : D = Len(d) /\ K = Len(recs) /\ Len(d1) = D + K
    BY DEF Extends
  <2> QED BY <2>1 DEF Extends
<1>3. \A x \in 1..Len(d1) : d1[x].txn # t => x \in 1..Len(d) /\ d1[x] = d[x]
  BY <1>1
<1>r. \A x \in 1..Len(d1) : d1[x] \in Records /\ d1[x].txn \in Txn
  <2>1. \A rec \in Records : rec.txn \in Txn
    BY DEF Records
  <2> QED BY <2>1 DEF Extends
<1>4. Folds(d1)'
  <2> SUFFICES ASSUME NEW x \in 1..Len(d1)
               PROVE  d1[x].txn < nextTxn' /\ (d1[x].txn \in folded <=> d1[x].kind = "image")
    BY DEF Folds, Only
  <2>1. CASE x \in 1..Len(d) /\ d1[x] = d[x]
    <3>1. d[x].txn < nextTxn /\ (d[x].txn \in folded <=> d[x].kind = "image")
      BY <2>1 DEF Folds
    <3>2. d[x].txn \in Nat /\ nextTxn \in Nat /\ nextTxn' \in Nat
      BY <1>r, <2>1, TwoPhaseAssumption DEF TypeInv, TxnType, Txn
    <3> QED BY <2>1, <3>1, <3>2
  <2>2. CASE \E i \in 1..Len(recs) : d1[x] = recs[i]
    BY <2>2
  <2> QED BY <1>1, <2>1, <2>2
<1>5. Kinds(d1)'
  <2> SUFFICES ASSUME NEW x \in 1..Len(d1), d1[x].txn # t PROVE KindOk(d1[x])'
    BY DEF Kinds
  <2>1. KindOk(d[x]) /\ d1[x] = d[x]
    BY <1>3 DEF Kinds
  <2>2. PICK rec \in Records : rec = d1[x] /\ rec.txn \in Txn \ {t} /\ KindOk(rec)
    BY <1>r, <2>1
  <2>3. rec.kind = "op" => rec.row \in Row
    BY <2>2 DEF Records
  <2>4. rec.kind = "prepare" => rec.gid \in Gid /\ rec.locks \subseteq Row
    BY <2>2 DEF Records
  <2>5. KindOk(rec)'
    BY <2>2, <2>3, <2>4 DEF KindOk, Only
  <2> QED BY <2>2, <2>5
<1>6. Owed(d1)'
  <2> SUFFICES ASSUME NEW u \in Txn \ folded, u # t PROVE OwedOf(d1, u)'
    BY DEF Owed, Only
  <2>1. OwedOf(d, u)
    BY DEF Owed
  <2>2. /\ status'[u] = status[u] /\ preparing'[u] = preparing[u]
        /\ finishing'[u] = finishing[u] /\ promised'[u] = promised[u]
    BY DEF Only
  <2>3. Has(d1, u, "prepare") => Has(d, u, "prepare")
    BY <1>3 DEF Has, Is
  <2> QED BY <2>1, <2>2, <2>3 DEF OwedOf
<1>7. mode' = "up"
  BY DEF Up, Only
<1> QED BY <1>4, <1>5, <1>6, <1>7 DEF DiskInv, CutInv, Cuts, Once, OneWay, Locked, Handed

LEMMA Closes ==
    ASSUME PromiseInv', mode' = "up", MemoryInv', ~ckpt',
           stray' \/ (Climbs' /\ \E d1 : d1 = Kept' /\ DiskInv(d1)')
    PROVE  Honest'
<1>1. CASE stray'
  BY <1>1 DEF Honest
<1>2. CASE ~stray'
  <2>1. Climbs' /\ \A d1 \in {Kept'} : DiskInv(d1)'
    BY <1>2
  <2> QED BY <2>1 DEF Honest
<1> QED BY <1>1, <1>2

\* A clean engine, before it logs recs from position a on.
LEMMA LoggedClean ==
    ASSUME TypeInv, Honest, Up, ~stray, NEW recs \in Seq(Records), Logged(recs),
           NEW a \in Nat, a = nextLsn
    PROVE  /\ Climbs'
           /\ \E d, d1 : /\ d1 = Kept' /\ Cuts(d) /\ Folds(d) /\ Kinds(d) /\ Owed(d)
                         /\ Extends(d1, d, recs)
                         /\ \A t, k, n : Marked(d, t, k, n) => Marked(d1, t, k, n)'
                         /\ \A i \in 1..Len(recs) : Marked(d1, recs[i].txn, recs[i].kind, a + i - 1)'
<1>1. PICK d : d = Kept
  OBVIOUS
<1>2. Climbs /\ ~ckpt /\ DiskInv(d) /\ mode = "up"
  BY <1>1 DEF Honest, Up
<1>3. LogType
  BY DEF TypeInv
<1>4. /\ Climbs' /\ d \in Seq(Records)
      /\ \E d1 \in Seq(Records) :
                 /\ d1 = Kept' /\ Len(d1) = Len(d) + Len(recs)
                 /\ \A p \in 1..Len(d) : d1[p] = d[p]
                 /\ \A i \in 1..Len(recs) : d1[Len(d) + i] = recs[i]
                 /\ \A t, k, n : Marked(d, t, k, n) => Marked(d1, t, k, n)'
                 /\ \A i \in 1..Len(recs) :
                       Marked(d1, recs[i].txn, recs[i].kind, a + i - 1)'
  BY <1>1, <1>2, <1>3, Grow
<1>5. Cuts(d) /\ Folds(d) /\ Kinds(d) /\ Owed(d)
  BY <1>2 DEF DiskInv, CutInv
<1>6. PICK d1 \in Seq(Records) :
                 /\ d1 = Kept' /\ Len(d1) = Len(d) + Len(recs)
                 /\ \A p \in 1..Len(d) : d1[p] = d[p]
                 /\ \A i \in 1..Len(recs) : d1[Len(d) + i] = recs[i]
                 /\ \A t, k, n : Marked(d, t, k, n) => Marked(d1, t, k, n)'
                 /\ \A i \in 1..Len(recs) :
                       Marked(d1, recs[i].txn, recs[i].kind, a + i - 1)'
  BY <1>4
<1>7. Extends(d1, d, recs)
  BY <1>4, <1>6 DEF Extends
<1> QED BY <1>4, <1>5, <1>6, <1>7

\* The same for one record.
LEMMA LoggedOneClean ==
    ASSUME TypeInv, Honest, Up, ~stray, NEW rec \in Records, Logged(<<rec>>),
           NEW a \in Nat, a = nextLsn
    PROVE  /\ Climbs'
           /\ \E d, d1 : /\ d1 = Kept' /\ Cuts(d) /\ Folds(d) /\ Kinds(d) /\ Owed(d)
                         /\ Extends(d1, d, <<rec>>)
                         /\ \A t, k, n : Marked(d, t, k, n) => Marked(d1, t, k, n)'
                         /\ Marked(d1, rec.txn, rec.kind, a)'
<1>1. PICK recs \in Seq(Records) : recs = <<rec>> /\ Len(recs) = 1 /\ recs[1] = rec
  BY OneRecord
<1>2. Logged(recs)
  BY <1>1
<1>3. PICK d, d1 : /\ Climbs' /\ d1 = Kept' /\ Cuts(d) /\ Folds(d) /\ Kinds(d) /\ Owed(d)
                   /\ Extends(d1, d, recs)
                   /\ \A t, k, n : Marked(d, t, k, n) => Marked(d1, t, k, n)'
                   /\ \A i \in 1..Len(recs) : Marked(d1, recs[i].txn, recs[i].kind, a + i - 1)'
  BY <1>2, LoggedClean
<1>4. 1 \in 1..Len(recs) /\ a + 1 - 1 = a
  BY <1>1
<1>5. Marked(d1, recs[1].txn, recs[1].kind, a + 1 - 1)'
  BY <1>3, <1>4
<1>6. Marked(d1, rec.txn, rec.kind, a)'
  BY <1>1, <1>4, <1>5
<1>7. Extends(d1, d, <<rec>>)
  BY <1>1, <1>3
<1> QED BY <1>3, <1>6, <1>7

\* The log stays as it is, but for its durable position.
LEMMA QuietClean ==
    ASSUME TypeInv, TypeInv', Honest, Up, ~stray, UNCHANGED <<log, nextLsn, image, covered, ckpt>>,
           durable <= durable'
    PROVE  /\ Climbs'
           /\ \E d : /\ d = Kept' /\ Cuts(d) /\ Folds(d) /\ Kinds(d) /\ Owed(d)
                     /\ Extends(d, d, <<>>)
                     /\ \A t, k, n : Marked(d, t, k, n) => Marked(d, t, k, n)'
                     /\ \A t, k : \A n, m \in Nat :
                          Marked(d, t, k, n) /\ n <= durable' => Marked(d, t, k, m)'
<1>1. PICK d : d = Kept
  OBVIOUS
<1>2. Climbs /\ ~ckpt /\ DiskInv(d) /\ mode = "up"
  BY <1>1 DEF Honest, Up
<1>3. LogType /\ LogType'
  BY DEF TypeInv
<1>4. Cuts(d) /\ Folds(d) /\ Kinds(d) /\ Owed(d)
  BY <1>2 DEF DiskInv, CutInv
<1>5. d \in Seq(Records) /\ Len(d) <= Len(image) + Len(log)
  BY <1>1, <1>2, <1>3, KeptIs
<1>6. PICK u \in Nat : u = durable' /\ durable \in Nat /\ durable <= u
  BY <1>3, TwoPhaseAssumption DEF LogType
<1>7. /\ \A t, k, n : Marked(d, t, k, n) => Marked(d, t, k, n)'
      /\ \A t, k : \A n, m \in Nat : Marked(d, t, k, n) /\ n <= u => Marked(d, t, k, m)'
  BY <1>3, <1>5, <1>6, Settles
<1>8. Extends(d, d, <<>>)
  <2>0. <<>> \in Seq(Records) /\ Len(<<>>) = 0
    OBVIOUS
  <2>1. PICK e : e = <<>> /\ Len(e) = 0 /\ e \in Seq(Records)
    BY <2>0
  <2>2. Len(d) \in Nat /\ Len(d) = Len(d) + 0 /\ \A i \in 1..0 : FALSE
    BY <1>5
  <2>3. Extends(d, d, e)
    BY <1>5, <2>1, <2>2 DEF Extends
  <2> QED BY <2>1, <2>3
<1>9. Climbs'
  BY <1>2 DEF Climbs
<1>10. d = Kept'
  BY <1>1 DEF Kept, Disk, DiskWith
<1> QED BY <1>4, <1>6, <1>7, <1>8, <1>9, <1>10

\* What memory and disk say of a running transaction.
LEMMA RunningIs ==
    ASSUME TypeInv, Honest, Up, NEW t \in Txn, status[t] \in {"running", "refused"}
    PROVE  /\ t < nextTxn /\ t \notin folded /\ promised[t] = "open" /\ preparing[t] = 0
           /\ \A g \in Gid : gids[g] # t
           /\ \A r \in DOMAIN sets[t] : lock[r] = t
           /\ status[t] = "refused" => stray
<1>1. PromiseOf(t) /\ MemoryOf(t)
  BY DEF Honest, PromiseInv, MemoryInv, Up
<1>2. t < nextTxn
  <2>1. ~(t >= nextTxn)
    BY <1>1 DEF PromiseOf
  <2>2. t \in Nat /\ nextTxn \in Nat
    BY TwoPhaseAssumption DEF TypeInv, TxnType, Txn
  <2> QED BY <2>1, <2>2
<1>3. promised[t] = "open"
  <2>1. promised[t] \in {"open", "prepared", "committed", "aborted"}
    BY DEF TypeInv, HistType
  <2> QED BY <1>1, <2>1 DEF PromiseOf
<1> QED BY <1>1, <1>2, <1>3 DEF PromiseOf, MemoryOf, Ended

LEMMA RunningHas ==
    ASSUME NEW d, Kinds(d), NEW t, status[t] = "running"
    PROVE  /\ ~Has(d, t, "prepare") /\ ~Has(d, t, "commit") /\ ~Has(d, t, "abort")
           /\ \A p \in 1..Len(d) : d[p].kind = "op" /\ d[p].txn = t => lock[d[p].row] = t
BY DEF Kinds, KindOk, Has, Is

LEMMA NobodyIs == Nobody \notin Txn /\ Txn \subseteq Nat
BY TwoPhaseAssumption DEF Nobody, Txn

-----------------------------------------------------------------------------
(* Ordinary transactions                                                   *)

LEMMA BeginStep ==
    ASSUME TypeInv, TypeInv', Honest, NEW t \in Txn, Begin(t)
    PROVE  Honest'
<1>1. Up /\ t = nextTxn /\ status[t] = "none" /\ nextTxn' = nextTxn + 1 /\ nextTxn \in Nat
  <2>1. PromiseOf(t) /\ t = nextTxn /\ Up /\ nextTxn' = nextTxn + 1
    BY DEF Honest, PromiseInv, Begin
  <2>2. nextTxn \in Nat
    BY TwoPhaseAssumption DEF TypeInv, TxnType
  <2> QED BY <2>1, <2>2 DEF PromiseOf
<1>2. /\ status' = [status EXCEPT ![t] = "running"]
      /\ UNCHANGED <<mode, logVars, sets, lock, gids, waitVars, histVars, boundVars>>
  BY DEF Begin
<1>3. status'[t] = "running" /\ \A u \in Txn \ {t} : status'[u] = status[u]
  BY <1>2 DEF TypeInv, TxnType
<1>4. \A u \in Txn \ {t} : u >= nextTxn' <=> u >= nextTxn
  BY <1>1, NobodyIs
<1>5. Only(t)
  BY <1>1, <1>2, <1>3, <1>4 DEF Only, Up, logVars, waitVars, histVars, boundVars
<1>6. PromiseOf(t) /\ MemoryOf(t)
  BY <1>1 DEF Honest, PromiseInv, MemoryInv, Up
<1>7. ~(t >= nextTxn') /\ t < nextTxn'
  BY <1>1
<1>8. promised'[t] = "open" /\ preparing'[t] = 0 /\ promised'[t] = promised[t] /\ t \notin folded
  <2>1. promised[t] \in {"open", "prepared", "committed", "aborted"}
    BY DEF TypeInv, HistType
  <2>2. promised' = promised /\ preparing' = preparing
    BY <1>2 DEF histVars, waitVars
  <2> QED BY <1>1, <1>6, <2>1, <2>2 DEF PromiseOf, MemoryOf, Ended
<1>9. PromiseOf(t)'
  <2>1. folded' = folded
    BY <1>2 DEF histVars
  <2> QED BY <1>3, <1>7, <1>8, <2>1 DEF PromiseOf, Ended
<1>10. MemoryOf(t)'
  BY <1>1, <1>2, <1>3, <1>6, <1>8 DEF MemoryOf
<1>11. PromiseInv' /\ mode' = "up" /\ ~ckpt' /\ MemoryInv'
  BY <1>1, <1>5, <1>9, <1>10, FrameMemory
<1>12. ASSUME ~stray PROVE Climbs' /\ \E d1 : d1 = Kept' /\ DiskInv(d1)'
  <2>1. UNCHANGED <<log, nextLsn, image, covered, ckpt>> /\ durable <= durable'
    <3>1. durable \in Nat
      BY TwoPhaseAssumption DEF TypeInv, LogType
    <3> QED BY <1>2, <3>1 DEF logVars
  <2>2. PICK d : /\ Climbs' /\ d = Kept' /\ Cuts(d) /\ Folds(d) /\ Kinds(d) /\ Owed(d)
                 /\ Extends(d, d, <<>>)
                 /\ \A u, k, n : Marked(d, u, k, n) => Marked(d, u, k, n)'
    BY <1>1, <1>12, <2>1, QuietClean
  <2>3. \A x \in 1..Len(d) : d[x].txn # t
    <3>1. ~(t < nextTxn)
      BY <1>1
    <3> QED BY <2>2, <3>1 DEF Folds
  <2>4. OwedOf(d, t)'
    BY <1>3, <1>8 DEF OwedOf
  <2>5. PICK e : e = <<>> /\ Len(e) = 0
    OBVIOUS
  <2>6. \A i \in 1..Len(e) : FALSE
    BY <2>5
  <2>7. Extends(d, d, e) /\ nextTxn <= nextTxn'
    BY <1>1, <2>2, <2>5
  <2>8. DiskInv(d)'
    BY <1>1, <1>5, <2>2, <2>3, <2>4, <2>6, <2>7, FrameDisk
  <2> QED BY <2>2, <2>8
<1> QED BY <1>11, <1>12, Closes DEF Begin, boundVars

LEMMA LockRowStep ==
    ASSUME TypeInv, TypeInv', Honest, NEW t \in Txn, NEW r \in Row, LockRow(t, r)
    PROVE  Honest'
<1>1. /\ Up /\ status[t] = "running" /\ lock[r] = Nobody /\ lock' = [lock EXCEPT ![r] = t]
      /\ UNCHANGED <<mode, logVars, nextTxn, status, sets, gids, waitVars, histVars, boundVars>>
  BY DEF LockRow
<1>2. /\ t < nextTxn /\ t \notin folded /\ promised[t] = "open" /\ preparing[t] = 0
      /\ \A x \in DOMAIN sets[t] : lock[x] = t
  BY <1>1, RunningIs
<1>3. /\ \A x \in Row : lock[x] # Nobody => lock'[x] = lock[x]
      /\ \A x \in Row : lock[x] = t => lock'[x] = t
  BY <1>1 DEF TypeInv, TxnType
<1>4. Only(t)
  BY <1>1, <1>3, NobodyIs DEF Only, Up, logVars, waitVars, histVars, boundVars
<1>5. PromiseOf(t) /\ MemoryOf(t) /\ DOMAIN sets[t] \subseteq Row
  <2>1. sets[t] \in Nets
    BY DEF TypeInv, TxnType
  <2> QED BY <1>1, <2>1, NetsAre DEF Honest, PromiseInv, MemoryInv, Up
<1>6. PromiseOf(t)'
  BY <1>1, <1>5 DEF PromiseOf, Ended, histVars
<1>7. MemoryOf(t)'
  BY <1>1, <1>3, <1>5 DEF MemoryOf, waitVars, histVars, boundVars
<1>8. PromiseInv' /\ mode' = "up" /\ ~ckpt' /\ MemoryInv'
  BY <1>1, <1>4, <1>6, <1>7, FrameMemory
<1>9. ASSUME ~stray PROVE Climbs' /\ \E d1 : d1 = Kept' /\ DiskInv(d1)'
  <2>1. UNCHANGED <<log, nextLsn, image, covered, ckpt>> /\ durable <= durable'
    <3>1. durable \in Nat
      BY TwoPhaseAssumption DEF TypeInv, LogType
    <3> QED BY <1>1, <3>1 DEF logVars
  <2>2. PICK d : /\ Climbs' /\ d = Kept' /\ Cuts(d) /\ Folds(d) /\ Kinds(d) /\ Owed(d)
                 /\ Extends(d, d, <<>>)
                 /\ \A u, k, n : Marked(d, u, k, n) => Marked(d, u, k, n)'
    BY <1>1, <1>9, <2>1, QuietClean
  <2>3. \A x \in 1..Len(d) : d[x].txn = t => KindOk(d[x])'
    <3> SUFFICES ASSUME NEW x \in 1..Len(d), d[x].txn = t PROVE KindOk(d[x])'
      OBVIOUS
    <3>1. PICK rec \in Records : rec = d[x] /\ KindOk(rec) /\ rec.txn = t
      BY <2>2 DEF Kinds, Extends
    <3>2. rec.kind = "op" => rec.row \in Row
      BY <3>1 DEF Records
    <3>3. KindOk(rec)'
      BY <1>1, <1>3, <3>1, <3>2 DEF KindOk
    <3> QED BY <3>1, <3>3
  <2>4. OwedOf(d, t)'
    BY <1>1, <1>2 DEF OwedOf, waitVars, histVars
  <2>5. PICK e : e = <<>> /\ Len(e) = 0
    OBVIOUS
  <2>6. \A i \in 1..Len(e) : FALSE
    BY <2>5
  <2>7. Extends(d, d, e) /\ nextTxn <= nextTxn'
    <3>1. nextTxn \in Nat /\ nextTxn' = nextTxn
      BY <1>1, TwoPhaseAssumption DEF TypeInv, TxnType
    <3> QED BY <2>2, <2>5, <3>1
  <2>8. DiskInv(d)'
    BY <1>1, <1>4, <2>2, <2>3, <2>4, <2>6, <2>7, FrameDisk
  <2> QED BY <2>2, <2>8
<1> QED BY <1>8, <1>9, <1>1, Closes DEF boundVars

\* A record of a running transaction: op r.
LEMMA OpStep ==
    ASSUME TypeInv, TypeInv', Honest, NEW t \in Txn, NEW r \in Row, NEW v \in Valued,
           Up, status[t] = "running", lock[r] \in {Nobody, t}, lock' = [lock EXCEPT ![r] = t],
           \A u \in Txn \ {t} : sets'[u] = sets[u], \A x \in DOMAIN sets'[t] : lock'[x] = t,
           Logged(<<Op(t, r, v)>>),
           UNCHANGED <<mode, nextTxn, status, gids, waitVars, histVars, boundVars>>
    PROVE  Honest'
<1>2. /\ t < nextTxn /\ t \notin folded /\ promised[t] = "open" /\ preparing[t] = 0
  BY RunningIs
<1>3. /\ \A x \in Row : lock[x] \notin {t, Nobody} => lock'[x] = lock[x]
      /\ \A x \in Row : lock[x] = t => lock'[x] = t
      /\ lock'[r] = t
  BY DEF TypeInv, TxnType
<1>4. Only(t)
  BY <1>3, NobodyIs DEF Only, Up, Logged, waitVars, histVars, boundVars
<1>5. PromiseOf(t) /\ MemoryOf(t)
  BY DEF Honest, PromiseInv, MemoryInv, Up
<1>6. PromiseOf(t)'
  BY <1>5 DEF PromiseOf, Ended, histVars
<1>7. MemoryOf(t)'
  BY <1>5 DEF MemoryOf, waitVars, histVars, boundVars
<1>8. PromiseInv' /\ mode' = "up" /\ ~ckpt' /\ MemoryInv'
  BY <1>4, <1>6, <1>7, FrameMemory
<1>9. ASSUME ~stray PROVE Climbs' /\ \E d1 : d1 = Kept' /\ DiskInv(d1)'
  <2>1. PICK rec \in Records : /\ rec = Op(t, r, v) /\ rec.txn = t /\ rec.kind = "op"
                               /\ rec.row = r
    BY RecordsAre
  <2>2. PICK a \in Nat : a = nextLsn
    BY TwoPhaseAssumption DEF TypeInv, LogType
  <2>3. Logged(<<rec>>)
    BY <2>1
  <2>4. PICK d, d1 : /\ Climbs' /\ d1 = Kept' /\ Cuts(d) /\ Folds(d) /\ Kinds(d) /\ Owed(d)
                     /\ Extends(d1, d, <<rec>>)
                     /\ \A u, k, n : Marked(d, u, k, n) => Marked(d1, u, k, n)'
    BY <1>9, <2>2, <2>3, LoggedOneClean
  <2>5. PICK recs : recs = <<rec>> /\ Len(recs) = 1 /\ recs[1] = rec
    BY OneRecord
  <2>6. Extends(d1, d, recs) /\ \A i \in 1..Len(recs) : recs[i] = rec
    BY <2>4, <2>5
  <2>7. Cuts(d1)
    <3>1. ~Has(d, t, "prepare")
      BY <2>4, RunningHas
    <3> QED BY <2>1, <2>4, <3>1, AppendsOne
  <2>8. \A x \in 1..Len(d1) : d1[x].txn = t => KindOk(d1[x])'
    <3> SUFFICES ASSUME NEW x \in 1..Len(d1), d1[x].txn = t PROVE KindOk(d1[x])'
      OBVIOUS
    <3>1. d1[x] = rec \/ (x \in 1..Len(d) /\ d1[x] = d[x])
      <4>1. \/ x \in 1..Len(d) /\ d1[x] = d[x]
            \/ ~(x \in 1..Len(d)) /\ \E i \in 1..Len(recs) : x = Len(d) + i /\ d1[x] = recs[i]
        BY <2>6, ExtendsBy
      <4> QED BY <2>6, <4>1
    <3>2. PICK y \in Records : y = d1[x] /\ y.txn = t /\ (y = rec \/ KindOk(y))
      BY <2>1, <2>4, <3>1 DEF Kinds, Extends
    <3>3. y.kind = "op" => y.row \in Row
      BY <3>2 DEF Records
    <3>4. CASE y = rec
      <4>1. y.kind = "op" /\ y.txn = t /\ y.row = r
        BY <2>1, <3>4
      <4>2. lock'[y.row] = y.txn
        BY <1>3, <4>1
      <4>3. KindOk(y)'
        BY <4>1, <4>2 DEF KindOk
      <4> QED BY <3>2, <4>3
    <3>5. CASE KindOk(y)
      BY <1>3, <3>2, <3>3, <3>5 DEF KindOk
    <3> QED BY <3>2, <3>4, <3>5
  <2>9. OwedOf(d1, t)'
    BY <1>2 DEF OwedOf, waitVars, histVars
  <2>10. nextTxn <= nextTxn' /\ t < nextTxn'
    <3>1. nextTxn \in Nat /\ nextTxn' = nextTxn
      BY TwoPhaseAssumption DEF TypeInv, TxnType
    <3> QED BY <1>2, <3>1
  <2>11. \A i \in 1..Len(recs) : /\ recs[i].txn = t /\ recs[i].kind # "image"
                                 /\ t < nextTxn' /\ t \notin folded
    BY <1>2, <2>1, <2>6, <2>10
  <2>12. DiskInv(d1)'
    BY <1>4, <2>4, <2>6, <2>7, <2>8, <2>9, <2>10, <2>11, FrameDisk
  <2> QED BY <2>4, <2>12
<1> QED BY <1>8, <1>9, Closes DEF boundVars

LEMMA WriteStep ==
    ASSUME TypeInv, TypeInv', Honest, NEW t \in Txn, NEW r \in Row, Write(t, r) \/ Unwrite(t, r)
    PROVE  Honest'
<1>1. Up /\ status[t] = "running"
  BY DEF Write, Unwrite
<1>2. sets[t] \in Nets /\ \A x \in DOMAIN sets[t] : lock[x] = t
  BY <1>1, RunningIs DEF TypeInv, TxnType
<1>3. DOMAIN sets[t] \subseteq Row
  BY <1>2, NetsAre
<1>4. CASE Write(t, r)
  <2>1. /\ lock[r] \in {Nobody, t} /\ lock' = [lock EXCEPT ![r] = t]
        /\ sets' = [sets EXCEPT ![t] = With(@, r, t)] /\ Logged(<<Op(t, r, t)>>)
        /\ UNCHANGED <<mode, nextTxn, status, gids, waitVars, histVars, boundVars>>
    BY <1>4 DEF Write
  <2>2. sets'[t] = With(sets[t], r, t) /\ \A u \in Txn \ {t} : sets'[u] = sets[u]
    BY <2>1 DEF TypeInv, TxnType
  <2>3. \A x \in DOMAIN sets'[t] : x \in DOMAIN sets[t] \/ x = r
    BY <2>2 DEF With
  <2>4. \A x \in DOMAIN sets'[t] : lock'[x] = t
    BY <1>2, <1>3, <2>1, <2>3 DEF TypeInv, TxnType
  <2>5. t \in Valued
    BY DEF Valued
  <2> QED BY <1>1, <2>1, <2>2, <2>4, <2>5, OpStep
<1>5. CASE Unwrite(t, r)
  <2>1. /\ r \in DOMAIN sets[t] /\ sets' = [sets EXCEPT ![t] = Without(@, {r})]
        /\ Logged(<<Op(t, r, rows[r])>>)
        /\ UNCHANGED <<mode, nextTxn, status, lock, gids, waitVars, histVars, boundVars>>
    BY <1>5 DEF Unwrite
  <2>2. sets'[t] = Without(sets[t], {r}) /\ \A u \in Txn \ {t} : sets'[u] = sets[u]
    BY <2>1 DEF TypeInv, TxnType
  <2>3. \A x \in DOMAIN sets'[t] : x \in DOMAIN sets[t]
    BY <2>2 DEF Without
  <2>4. \A x \in DOMAIN sets'[t] : lock'[x] = t
    BY <1>2, <2>1, <2>3
  <2>5. lock[r] = t /\ lock' = [lock EXCEPT ![r] = t]
    BY <1>2, <2>1 DEF TypeInv, TxnType
  <2>6. PICK v \in Valued : v = rows[r]
    BY DEF TypeInv, TxnType
  <2>7. Logged(<<Op(t, r, v)>>)
    BY <2>1, <2>6
  <2> QED BY <1>1, <2>1, <2>2, <2>4, <2>5, <2>7, OpStep
<1> QED BY <1>4, <1>5

\* An end record, or none, of a transaction that had no end on the disk, and what
\* it brings: rollbacks, commits and finishes share this half.
LEMMA EndStep ==
    ASSUME TypeInv, TypeInv', Honest, Up, ~stray, NEW t \in Txn, Only(t), t \notin folded,
           nextTxn' = nextTxn, t < nextTxn, NEW rec \in Records, rec.txn = t, Logged(<<rec>>),
           NEW a \in Nat, a = nextLsn,
           \/ /\ rec.kind = "commit" /\ status'[t] = "committing" /\ finishing'[t] = a
           \/ /\ rec.kind = "abort" /\ status'[t] = "aborting" /\ finishing'[t] = a
           \/ /\ rec.kind = "abort" /\ status'[t] = "aborted" /\ status[t] = "running",
           status[t] \in {"running", "prepared"}, preparing'[t] = preparing[t],
           preparing'[t] # 0 => status[t] = "prepared",
           promised'[t] = "prepared" => status[t] = "prepared"
    PROVE  Climbs' /\ \E d1 : d1 = Kept' /\ DiskInv(d1)'
<1>1. PICK d, d1 : /\ Climbs' /\ d1 = Kept' /\ Cuts(d) /\ Folds(d) /\ Kinds(d) /\ Owed(d)
                   /\ Extends(d1, d, <<rec>>)
                   /\ \A u, k, n : Marked(d, u, k, n) => Marked(d1, u, k, n)'
                   /\ Marked(d1, rec.txn, rec.kind, a)'
  BY LoggedOneClean
<1>2. PICK recs : recs = <<rec>> /\ Len(recs) = 1 /\ recs[1] = rec
  BY OneRecord
<1>3. Extends(d1, d, recs) /\ \A i \in 1..Len(recs) : recs[i] = rec
  BY <1>1, <1>2
<1>4. ~Has(d, t, "commit") /\ ~Has(d, t, "abort")
  BY <1>1 DEF Kinds, KindOk, Has, Is
<1>5. Cuts(d1)
  BY <1>1, <1>4, AppendsOne
<1>6. \A x \in 1..Len(d1) : d1[x].txn = t => KindOk(d1[x])'
  <2> SUFFICES ASSUME NEW x \in 1..Len(d1), d1[x].txn = t PROVE KindOk(d1[x])'
    OBVIOUS
  <2>1. \/ x \in 1..Len(d) /\ d1[x] = d[x]
        \/ ~(x \in 1..Len(d)) /\ \E i \in 1..Len(recs) : x = Len(d) + i /\ d1[x] = recs[i]
    BY <1>3, ExtendsBy
  <2>2. PICK y : y = d1[x] /\ y.txn = t /\ (y = rec \/ (y.kind # "commit" /\ y.kind # "abort"))
    BY <1>3, <1>4, <2>1 DEF Has, Is
  <2>3. status'[t] \in {"committing", "aborting", "aborted"}
    OBVIOUS
  <2>4. CASE y = rec
    BY <2>2, <2>4 DEF KindOk
  <2>5. CASE y.kind # "commit" /\ y.kind # "abort"
    BY <2>2, <2>3, <2>5 DEF KindOk
  <2>6. KindOk(y)'
    BY <2>2, <2>4, <2>5
  <2> QED BY <2>2, <2>6
<1>7. OwedOf(d1, t)'
  <2>1. status[t] = "prepared" => Marked(d1, t, "prepare", preparing[t])'
    <3> SUFFICES ASSUME status[t] = "prepared" PROVE Marked(d1, t, "prepare", preparing[t])'
      OBVIOUS
    <3>1. Marked(d, t, "prepare", preparing[t])
      BY <1>1 DEF Owed, OwedOf
    <3>2. PICK n : n = preparing[t] /\ n = preparing'[t]
      OBVIOUS
    <3>3. Marked(d, t, "prepare", n)
      BY <3>1, <3>2
    <3>4. Marked(d1, t, "prepare", n)'
      BY <1>1, <3>3
    <3> QED BY <3>2, <3>4
  <2>2. status'[t] # "prepared"
    OBVIOUS
  <2>3. preparing'[t] # 0 \/ promised'[t] = "prepared" => Marked(d1, t, "prepare", preparing[t])'
    BY <2>1
  <2>4. status'[t] = "aborted" => ~Has(d1, t, "prepare")
    <3> SUFFICES ASSUME status'[t] = "aborted" PROVE ~Has(d1, t, "prepare")
      OBVIOUS
    <3>1. status[t] = "running" /\ rec.kind = "abort"
      OBVIOUS
    <3>2. ~Has(d, t, "prepare")
      BY <1>1, <3>1, RunningHas
    <3>3. \A x \in 1..Len(d1) : \/ x \in 1..Len(d) /\ d1[x] = d[x]
                                \/ ~(x \in 1..Len(d)) /\ \E i \in 1..Len(recs) : x = Len(d) + i /\ d1[x] = recs[i]
      BY <1>3, ExtendsBy
    <3>4. \A x \in 1..Len(d1) : (x \in 1..Len(d) /\ d1[x] = d[x]) \/ d1[x] = rec
      BY <1>3, <3>3
    <3> QED BY <3>1, <3>2, <3>4 DEF Has, Is
  <2>5. /\ status'[t] = "committing" => Marked(d1, t, "commit", finishing[t])'
        /\ status'[t] = "aborting" => Marked(d1, t, "abort", finishing[t])'
    <3>1. Marked(d1, t, rec.kind, a)'
      BY <1>1
    <3>2. CASE rec.kind = "commit" /\ status'[t] = "committing" /\ finishing'[t] = a
      <4>1. Marked(d1, t, "commit", a)'
        BY <3>1, <3>2
      <4> QED BY <3>2, <4>1
    <3>3. CASE rec.kind = "abort" /\ status'[t] = "aborting" /\ finishing'[t] = a
      <4>1. Marked(d1, t, "abort", a)'
        BY <3>1, <3>3
      <4> QED BY <3>3, <4>1
    <3>4. CASE status'[t] = "aborted"
      BY <3>4
    <3> QED BY <3>2, <3>3, <3>4
  <2> QED BY <2>2, <2>3, <2>4, <2>5 DEF OwedOf
<1>8. nextTxn <= nextTxn' /\ t < nextTxn'
  <2>1. nextTxn \in Nat
    BY TwoPhaseAssumption DEF TypeInv, TxnType
  <2> QED BY <2>1
<1>9. \A i \in 1..Len(recs) : /\ recs[i].txn = t /\ recs[i].kind # "image"
                              /\ t < nextTxn' /\ t \notin folded
  BY <1>3, <1>8
<1>10. DiskInv(d1)'
  BY <1>1, <1>3, <1>5, <1>6, <1>7, <1>8, <1>9, FrameDisk
<1> QED BY <1>1, <1>10

\* A running transaction is rolled back: by its session, by a refused prepare, or
\* after a prepare whose append failed.
LEMMA AbortStep ==
    ASSUME TypeInv, TypeInv', Honest, NEW t \in Txn,
           Rollback(t) \/ PrepareRefused(t) \/ PrepareAborted(t)
    PROVE  Honest'
<1>1. /\ Up /\ status[t] \in {"running", "refused"} /\ Undone(t) /\ Logged(<<AbortTxn(t)>>)
      /\ UNCHANGED <<mode, nextTxn, gids, waitVars, folded, stray>>
  BY DEF Rollback, PrepareRefused, PrepareAborted, Gated, boundVars
<1>2. /\ t < nextTxn /\ t \notin folded /\ promised[t] = "open" /\ preparing[t] = 0
      /\ \A g \in Gid : gids[g] # t
      /\ status[t] = "refused" => stray
  BY <1>1, RunningIs
<1>3. /\ status'[t] = "aborted" /\ sets'[t] = <<>> /\ promised'[t] = "aborted"
      /\ \A u \in Txn \ {t} : /\ status'[u] = status[u] /\ sets'[u] = sets[u]
                              /\ promised'[u] = promised[u]
      /\ \A x \in Row : lock[x] # t => lock'[x] = lock[x]
  BY <1>1 DEF Undone, Unlocked, TypeInv, TxnType, HistType
<1>4. Only(t)
  BY <1>1, <1>3 DEF Only, Up, Logged, waitVars
<1>5. PromiseOf(t)'
  <2>1. t \in Nat /\ nextTxn \in Nat
    BY TwoPhaseAssumption, NobodyIs DEF TypeInv, TxnType
  <2>2. ~(t >= nextTxn')
    BY <1>1, <1>2, <2>1
  <2> QED BY <1>3, <2>2 DEF PromiseOf, Ended
<1>6. MemoryOf(t)'
  <2>1. \A x \in DOMAIN sets'[t] : FALSE
    BY <1>3
  <2> QED BY <1>1, <1>2, <1>3, <2>1 DEF MemoryOf, waitVars
<1>7. PromiseInv' /\ mode' = "up" /\ ~ckpt' /\ MemoryInv'
  BY <1>1, <1>4, <1>5, <1>6, FrameMemory
<1>8. ASSUME ~stray PROVE Climbs' /\ \E d1 : d1 = Kept' /\ DiskInv(d1)'
  <2>1. PICK rec \in Records : rec = AbortTxn(t) /\ rec.txn = t /\ rec.kind = "abort"
    BY RecordsAre
  <2>2. PICK a \in Nat : a = nextLsn
    BY TwoPhaseAssumption DEF TypeInv, LogType
  <2>3. Logged(<<rec>>) /\ status[t] = "running" /\ preparing'[t] = 0 /\ preparing[t] = 0
    BY <1>1, <1>2, <1>8, <2>1 DEF waitVars
  <2> QED BY <1>1, <1>2, <1>3, <1>4, <1>8, <2>1, <2>2, <2>3, EndStep
<1> QED BY <1>1, <1>7, <1>8, Closes

LEMMA CommitStageStep ==
    ASSUME TypeInv, TypeInv', Honest, NEW t \in Txn, CommitStage(t)
    PROVE  Honest'
<1>1. /\ Up /\ status[t] = "running" /\ Logged(<<CommitTxn(t)>>)
      /\ status' = [status EXCEPT ![t] = "committing"]
      /\ finishing' = [finishing EXCEPT ![t] = nextLsn]
      /\ UNCHANGED <<mode, nextTxn, sets, lock, gids, preparing, promised, folded, stray>>
  BY DEF CommitStage, Gated, boundVars
<1>2. /\ t < nextTxn /\ t \notin folded /\ promised[t] = "open" /\ preparing[t] = 0
      /\ \A g \in Gid : gids[g] # t /\ \A r \in DOMAIN sets[t] : lock[r] = t
  BY <1>1, RunningIs
<1>3. /\ status'[t] = "committing" /\ finishing'[t] = nextLsn
      /\ \A u \in Txn \ {t} : status'[u] = status[u] /\ finishing'[u] = finishing[u]
  BY <1>1 DEF TypeInv, TxnType, WaitType
<1>4. Only(t)
  BY <1>1, <1>3 DEF Only, Up, Logged
<1>5. PromiseOf(t)'
  <2>1. t \in Nat /\ nextTxn \in Nat
    BY TwoPhaseAssumption, NobodyIs DEF TypeInv, TxnType
  <2>2. ~(t >= nextTxn')
    BY <1>1, <1>2, <2>1
  <2> QED BY <1>1, <1>2, <1>3, <2>2 DEF PromiseOf, Ended
<1>6. MemoryOf(t)'
  <2>1. MemoryOf(t)
    BY <1>1 DEF Honest, MemoryInv, Up
  <2> QED BY <1>1, <1>2, <1>3, <2>1 DEF MemoryOf
<1>7. PromiseInv' /\ mode' = "up" /\ ~ckpt' /\ MemoryInv'
  BY <1>1, <1>4, <1>5, <1>6, FrameMemory
<1>8. ASSUME ~stray PROVE Climbs' /\ \E d1 : d1 = Kept' /\ DiskInv(d1)'
  <2>1. PICK rec \in Records : rec = CommitTxn(t) /\ rec.txn = t /\ rec.kind = "commit"
    BY RecordsAre
  <2>2. PICK a \in Nat : a = nextLsn
    BY TwoPhaseAssumption DEF TypeInv, LogType
  <2>3. Logged(<<rec>>) /\ finishing'[t] = a /\ preparing'[t] = 0 /\ promised'[t] = "open"
    BY <1>1, <1>2, <1>3, <2>1, <2>2
  <2> QED BY <1>1, <1>2, <1>3, <1>4, <1>8, <2>1, <2>2, <2>3, EndStep
<1> QED BY <1>1, <1>7, <1>8, Closes

\* COMMIT PREPARED and ROLLBACK PREPARED.
LEMMA FinishStep ==
    ASSUME TypeInv, TypeInv', Honest, NEW g \in Gid, FinishCommit(g) \/ FinishRollback(g)
    PROVE  Honest'
<1>1. PICK t \in Txn : t = gids[g]
  BY DEF FinishCommit, FinishRollback, TypeInv, TxnType
<1>2. /\ Up /\ gids' = [gids EXCEPT ![g] = Nobody]
      /\ finishing' = [finishing EXCEPT ![t] = nextLsn]
      /\ UNCHANGED <<mode, nextTxn, sets, lock, preparing, promised, folded, stray>>
      /\ \/ Logged(<<CommitTxn(t)>>) /\ status' = [status EXCEPT ![t] = "committing"]
         \/ Logged(<<AbortTxn(t)>>) /\ status' = [status EXCEPT ![t] = "aborting"]
  BY <1>1 DEF FinishCommit, FinishRollback, Gated, boundVars, histVars
<1>3. /\ status'[t] \in {"committing", "aborting"} /\ finishing'[t] = nextLsn
      /\ \A u \in Txn \ {t} : status'[u] = status[u] /\ finishing'[u] = finishing[u]
      /\ gids'[g] = Nobody /\ \A h \in Gid \ {g} : gids'[h] = gids[h]
  BY <1>2 DEF TypeInv, TxnType, WaitType
<1>4. PromiseOf(t) /\ MemoryOf(t) /\ status[t] = "prepared"
  BY <1>1, <1>2 DEF Honest, PromiseInv, MemoryInv, Up, MemoryOf
<1>5. t < nextTxn /\ t \notin folded /\ ~(t >= nextTxn)
  <2>1. t \in Nat /\ nextTxn \in Nat
    BY TwoPhaseAssumption, NobodyIs DEF TypeInv, TxnType
  <2> QED BY <1>4, <2>1 DEF PromiseOf, Ended
<1>6. Only(t)
  <2>1. \A u \in Txn \ {t} : \A h \in Gid : gids[h] = u <=> gids'[h] = u
    BY <1>1, <1>3, NobodyIs
  <2>2. ~ckpt'
    BY <1>2 DEF Up, Logged
  <2> QED BY <1>2, <1>3, <2>1, <2>2 DEF Only
<1>7. PromiseOf(t)'
  BY <1>2, <1>3, <1>4, <1>5 DEF PromiseOf, Ended
<1>8. MemoryOf(t)'
  <2>1. \A h \in Gid : gids'[h] # t
    BY <1>1, <1>3, <1>4, NobodyIs DEF MemoryOf
  <2> QED BY <1>2, <1>3, <1>4, <2>1 DEF MemoryOf
<1>9. PromiseInv' /\ mode' = "up" /\ ~ckpt' /\ MemoryInv'
  BY <1>2, <1>6, <1>7, <1>8, FrameMemory
<1>10. ASSUME ~stray PROVE Climbs' /\ \E d1 : d1 = Kept' /\ DiskInv(d1)'
  <2>1. PICK rec \in Records : /\ rec.txn = t /\ Logged(<<rec>>)
                               /\ \/ rec.kind = "commit" /\ status'[t] = "committing"
                                  \/ rec.kind = "abort" /\ status'[t] = "aborting"
    <3>1. CASE Logged(<<CommitTxn(t)>>) /\ status' = [status EXCEPT ![t] = "committing"]
      <4>1. CommitTxn(t) \in Records /\ CommitTxn(t).txn = t /\ CommitTxn(t).kind = "commit"
        BY RecordsAre
      <4>2. status'[t] = "committing"
        BY <3>1 DEF TypeInv, TxnType
      <4> QED BY <3>1, <4>1, <4>2
    <3>2. CASE Logged(<<AbortTxn(t)>>) /\ status' = [status EXCEPT ![t] = "aborting"]
      <4>1. AbortTxn(t) \in Records /\ AbortTxn(t).txn = t /\ AbortTxn(t).kind = "abort"
        BY RecordsAre
      <4>2. status'[t] = "aborting"
        BY <3>2 DEF TypeInv, TxnType
      <4> QED BY <3>2, <4>1, <4>2
    <3> QED BY <1>2, <3>1, <3>2
  <2>2. PICK a \in Nat : a = nextLsn
    BY TwoPhaseAssumption DEF TypeInv, LogType
  <2> QED BY <1>2, <1>3, <1>4, <1>5, <1>6, <1>10, <2>1, <2>2, EndStep
<1> QED BY <1>2, <1>9, <1>10, Closes

-----------------------------------------------------------------------------
(* PREPARE TRANSACTION                                                     *)

LEMMA PrepareStep ==
    ASSUME TypeInv, TypeInv', Honest, NEW t \in Txn, NEW g \in Gid, PrepareTxn(t, g)
    PROVE  Honest'
<1>1. /\ Up /\ status[t] = "running" /\ gids[g] = Nobody /\ Logged(Prepared(t, g))
      /\ gids' = [gids EXCEPT ![g] = t] /\ status' = [status EXCEPT ![t] = "prepared"]
      /\ preparing' = [preparing EXCEPT ![t] = DurableAt(Prepared(t, g))]
      /\ UNCHANGED <<mode, nextTxn, sets, lock, finishing, promised, folded, stray>>
  BY DEF PrepareTxn, Gated, NameFree, boundVars, histVars
<1>2. /\ t < nextTxn /\ t \notin folded /\ promised[t] = "open" /\ preparing[t] = 0
      /\ \A h \in Gid : gids[h] # t /\ \A r \in DOMAIN sets[t] : lock[r] = t
  BY <1>1, RunningIs
<1>3. /\ status'[t] = "prepared" /\ preparing'[t] = DurableAt(Prepared(t, g))
      /\ \A u \in Txn \ {t} : status'[u] = status[u] /\ preparing'[u] = preparing[u]
      /\ gids'[g] = t /\ \A h \in Gid \ {g} : gids'[h] = gids[h]
  BY <1>1 DEF TypeInv, TxnType, WaitType
<1>4. Only(t)
  <2>1. \A u \in Txn \ {t} : \A h \in Gid : gids[h] = u <=> gids'[h] = u
    BY <1>1, <1>3, NobodyIs
  <2>2. ~ckpt'
    BY <1>1 DEF Up, Logged
  <2> QED BY <1>1, <1>3, <2>1, <2>2 DEF Only
<1>5. PromiseOf(t)'
  <2>1. t \in Nat /\ nextTxn \in Nat
    BY TwoPhaseAssumption, NobodyIs DEF TypeInv, TxnType
  <2>2. ~(t >= nextTxn')
    BY <1>1, <1>2, <2>1
  <2> QED BY <1>1, <1>2, <1>3, <2>2 DEF PromiseOf, Ended
<1>6. MemoryOf(t)'
  <2>1. \A h \in Gid : gids'[h] = t => h = g
    BY <1>2, <1>3
  <2>2. \A r \in DOMAIN sets'[t] : lock'[r] = t
    BY <1>1, <1>2
  <2> QED BY <1>1, <1>2, <1>3, <2>1, <2>2 DEF MemoryOf
<1>7. PromiseInv' /\ mode' = "up" /\ ~ckpt' /\ MemoryInv'
  BY <1>1, <1>4, <1>5, <1>6, FrameMemory
<1>8. ASSUME ~stray PROVE Climbs' /\ \E d1 : d1 = Kept' /\ DiskInv(d1)'
  <2>1. PICK recs \in Seq(Records), ls \in SUBSET Row, s \in Nets :
            /\ recs = Prepared(t, g) /\ ls = Holds(t) /\ s = sets[t]
            /\ IsProgram(recs, t, g, ls, s) /\ Len(recs) >= 2
    BY PreparedIs, HeldType DEF TypeInv, TxnType
  <2>2. PICK a \in Nat : a = nextLsn
    BY TwoPhaseAssumption DEF TypeInv, LogType
  <2>3. Logged(recs)
    BY <1>1, <2>1
  <2>4. PICK d, d1 : /\ Climbs' /\ d1 = Kept' /\ Cuts(d) /\ Folds(d) /\ Kinds(d) /\ Owed(d)
                     /\ Extends(d1, d, recs)
                     /\ \A u, k, n : Marked(d, u, k, n) => Marked(d1, u, k, n)'
                     /\ \A i \in 1..Len(recs) : Marked(d1, recs[i].txn, recs[i].kind, a + i - 1)'
    BY <1>1, <1>8, <2>2, <2>3, LoggedClean
  <2>5. \A r \in Row : lock[r] = t <=> r \in ls
    BY <2>1 DEF Holds
  <2>6. /\ ~Has(d, t, "prepare") /\ ~Has(d, t, "commit") /\ ~Has(d, t, "abort")
        /\ \A p \in 1..Len(d) : d[p].kind = "op" /\ d[p].txn = t => lock[d[p].row] = t
    BY <1>1, <2>4, RunningHas
  <2>7. \A p \in 1..Len(d) : d[p] \in Records /\ d[p].txn \in Txn
    <3>1. \A rec \in Records : rec.txn \in Txn
      BY DEF Records
    <3> QED BY <2>4, <3>1 DEF Extends
  <2>8. DOMAIN s \subseteq ls
    BY <1>2, <2>1, <2>5, NetsAre
  <2>9. \A p \in 1..Len(d) : d[p].kind = "op" /\ d[p].txn = t => d[p].row \in ls
    <3>1. \A rec \in Records : rec.kind = "op" => rec.row \in Row
      BY DEF Records
    <3> QED BY <2>5, <2>6, <2>7, <3>1
  <2>10. ASSUME NEW p \in 1..Len(d), d[p].kind = "prepare",
                d[p].gid = g \/ d[p].locks \cap ls # {}
         PROVE  \E e \in 1..Len(d) : IsEnd(d[e]) /\ d[e].txn = d[p].txn
    <3>1. PICK u \in Txn : u = d[p].txn /\ u # t /\ Has(d, u, "prepare")
      BY <2>6, <2>7, <2>10 DEF Has, Is
    <3>2. u \notin folded /\ u < nextTxn
      BY <2>4, <2>10, <3>1 DEF Folds
    <3>3. status[u] # "none" /\ status[u] # "running" /\ status[u] # "refused"
      <4>1. PromiseOf(u) /\ MemoryOf(u)
        BY <1>1 DEF Honest, PromiseInv, MemoryInv, Up
      <4>2. ~(u >= nextTxn)
        BY <3>2, NobodyIs, TwoPhaseAssumption DEF TypeInv, TxnType
      <4>3. status[u] # "running"
        BY <2>4, <2>10, <3>1 DEF Kinds, KindOk
      <4> QED BY <1>8, <4>1, <4>2, <4>3 DEF PromiseOf, MemoryOf
    <3>4. status[u] # "prepared"
      <4> SUFFICES ASSUME status[u] = "prepared" PROVE FALSE
        OBVIOUS
      <4>1. gids[d[p].gid] = u /\ \A r \in d[p].locks : lock[r] = u
        BY <2>4, <2>10, <3>1 DEF Kinds, KindOk
      <4>2. d[p].gid # g
        BY <1>1, <4>1, NobodyIs
      <4>3. \A r \in ls : lock[r] = t
        BY <2>1, <2>5
      <4> QED BY <2>10, <3>1, <4>1, <4>2, <4>3
    <3>5. OwedOf(d, u)
      BY <2>4, <3>2 DEF Owed
    <3>6. status[u] \in {"committing", "aborting", "committed", "aborted"}
      BY <3>3, <3>4 DEF TypeInv, TxnType, Statuses
    <3>7. \E k \in {"commit", "abort"} : \E n : Marked(d, u, k, n)
      BY <3>1, <3>5, <3>6 DEF OwedOf
    <3> QED BY <3>1, <3>7 DEF Marked, Is, IsEnd
  <2>11. Cuts(d1)
    <3>1. \A p \in 1..Len(d) : d[p].kind = "prepare" /\ (d[p].gid = g \/ d[p].locks \cap ls # {}) =>
                                   \E e \in 1..Len(d) : IsEnd(d[e]) /\ d[e].txn = d[p].txn
      BY <2>10
    <3>2. Extends(d1, d, recs) /\ Cuts(d) /\ IsProgram(recs, t, g, ls, s) /\ ~Has(d, t, "prepare")
      BY <2>1, <2>4, <2>6
    <3> QED BY <2>8, <2>9, <3>1, <3>2, AppendsPrepare, Zenon
  <2>12. PICK K \in Nat : /\ K = Len(recs) /\ K >= 2 /\ DurableAt(recs) = a + K - 1
                          /\ recs[K].kind = "prepare" /\ recs[K].txn = t
    <3>1. PICK m \in Nat : m = Len(recs) /\ m >= 2 /\ recs[m] = Prepare(t, g, ls)
      BY <2>1 DEF IsProgram
    <3>2. recs[m].kind = "prepare" /\ recs[m].txn = t
      BY <3>1 DEF Prepare
    <3>3. DurableAt(recs) = a + m - 1
      BY <2>2, <3>1 DEF DurableAt
    <3> QED BY <3>1, <3>2, <3>3
  <2>13. ASSUME NEW i \in 1..K
         PROVE  /\ recs[i].txn = t /\ recs[i].kind \in {"begin", "op", "prepare"}
                /\ recs[i].kind = "prepare" => recs[i].gid = g /\ recs[i].locks = ls
    <3>1. recs[1] = PrepareBegin(t) /\ recs[K] = Prepare(t, g, ls)
      BY <2>1, <2>12 DEF IsProgram
    <3>2. CASE i = 1
      BY <3>1, <3>2 DEF PrepareBegin
    <3>3. CASE i = K
      BY <3>1, <3>3 DEF Prepare
    <3>4. CASE i \in 2..(K - 1)
      <4>1. PICK r \in DOMAIN s : recs[i] = Op(t, r, s[r])
        BY <2>1, <2>12, <3>4 DEF IsProgram
      <4> QED BY <4>1 DEF Op
    <3> QED BY <2>12, <3>2, <3>3, <3>4
  <2>14. \A x \in 1..Len(d1) : d1[x].txn = t => KindOk(d1[x])'
    <3> SUFFICES ASSUME NEW x \in 1..Len(d1), d1[x].txn = t PROVE KindOk(d1[x])'
      OBVIOUS
    <3>1. \/ x \in 1..Len(d) /\ d1[x] = d[x]
          \/ ~(x \in 1..Len(d)) /\ \E i \in 1..Len(recs) : x = Len(d) + i /\ d1[x] = recs[i]
      <4>1. Extends(d1, d, recs)
        BY <2>4
      <4> QED BY <4>1, ExtendsBy
    <3>2. PICK y : /\ y = d1[x] /\ y.txn = t /\ y.kind # "commit" /\ y.kind # "abort"
                   /\ y.kind = "prepare" => y.gid = g /\ y.locks = ls
      <4>1. CASE x \in 1..Len(d) /\ d1[x] = d[x]
        BY <2>6, <4>1 DEF Has, Is
      <4>2. CASE \E i \in 1..Len(recs) : d1[x] = recs[i]
        BY <2>12, <2>13, <4>2
      <4> QED BY <3>1, <4>1, <4>2
    <3>3. \A r \in ls : lock'[r] = t
      BY <1>1, <2>1, <2>5
    <3>4. KindOk(y)'
      BY <1>3, <3>2, <3>3 DEF KindOk
    <3> QED BY <3>2, <3>4
  <2>15. OwedOf(d1, t)'
    <3>1. K \in 1..Len(recs)
      BY <2>12
    <3>2. Marked(d1, recs[K].txn, recs[K].kind, a + K - 1)'
      BY <2>4, <3>1
    <3>3. Marked(d1, t, "prepare", a + K - 1)'
      BY <2>12, <3>2
    <3>4. preparing'[t] = a + K - 1
      BY <1>3, <2>1, <2>12
    <3>5. Marked(d1, t, "prepare", preparing[t])'
      BY <3>3, <3>4
    <3> QED BY <1>3, <3>5 DEF OwedOf
  <2>16. nextTxn <= nextTxn' /\ t < nextTxn'
    <3>1. nextTxn \in Nat
      BY TwoPhaseAssumption DEF TypeInv, TxnType
    <3> QED BY <1>1, <1>2, <3>1
  <2>17. \A i \in 1..Len(recs) : /\ recs[i].txn = t /\ recs[i].kind # "image"
                                 /\ t < nextTxn' /\ t \notin folded
    BY <1>2, <2>12, <2>13, <2>16
  <2>18. DiskInv(d1)'
    BY <1>1, <1>4, <2>4, <2>11, <2>14, <2>15, <2>16, <2>17, FrameDisk
  <2> QED BY <2>4, <2>18
<1> QED BY <1>1, <1>7, <1>8, Closes

LEMMA PrepareFailsStep ==
    ASSUME TypeInv, TypeInv', Honest, NEW t \in Txn, NEW g \in Gid, PrepareAppendFails(t, g)
    PROVE  Honest'
<1>1. /\ Up /\ status[t] = "running" /\ stray' = TRUE /\ ckpt' = ckpt
      /\ status' = [status EXCEPT ![t] = "refused"]
      /\ UNCHANGED <<mode, nextTxn, sets, lock, gids, waitVars, histVars>>
  BY DEF PrepareAppendFails, Gated, LoggedInPart
<1>2. /\ t < nextTxn /\ t \notin folded /\ promised[t] = "open" /\ preparing[t] = 0
      /\ \A h \in Gid : gids[h] # t /\ \A r \in DOMAIN sets[t] : lock[r] = t
  BY <1>1, RunningIs
<1>3. status'[t] = "refused" /\ \A u \in Txn \ {t} : status'[u] = status[u]
  BY <1>1 DEF TypeInv, TxnType
<1>4. Only(t)
  BY <1>1, <1>3 DEF Only, Up, waitVars, histVars
<1>5. PromiseOf(t)'
  <2>1. t \in Nat /\ nextTxn \in Nat
    BY TwoPhaseAssumption, NobodyIs DEF TypeInv, TxnType
  <2>2. ~(t >= nextTxn')
    BY <1>1, <1>2, <2>1
  <2> QED BY <1>1, <1>2, <1>3, <2>2 DEF PromiseOf, Ended, histVars
<1>6. MemoryOf(t)'
  <2>1. MemoryOf(t)
    BY <1>1 DEF Honest, MemoryInv, Up
  <2> QED BY <1>1, <1>2, <1>3, <2>1 DEF MemoryOf, waitVars, histVars
<1>7. PromiseInv' /\ mode' = "up" /\ ~ckpt' /\ MemoryInv'
  BY <1>1, <1>4, <1>5, <1>6, FrameMemory
<1> QED BY <1>1, <1>7, Closes

LEMMA FinishFailsStep ==
    ASSUME TypeInv, TypeInv', Honest, NEW g \in Gid, FinishAppendFails(g)
    PROVE  Honest'
<1>1. /\ Up /\ stray' = TRUE /\ ckpt' = ckpt
      /\ UNCHANGED <<mode, txnVars, waitVars, histVars>>
  BY DEF FinishAppendFails, Gated, LoggedInPart
<1>2. PromiseInv' /\ mode' = "up" /\ ~ckpt'
  BY <1>1 DEF Honest, PromiseInv, PromiseOf, Ended, Up, txnVars, histVars
<1>3. MemoryInv'
  <2>1. \A t \in Txn : MemoryOf(t)
    BY <1>1 DEF Honest, MemoryInv, Up
  <2>2. \A t \in Txn : MemoryOf(t)'
    BY <1>1, <2>1 DEF MemoryOf, txnVars, waitVars, histVars
  <2> QED BY <1>2, <2>2 DEF MemoryInv
<1> QED BY <1>1, <1>2, <1>3, Closes

\* A PREPARE is answered, a commit becomes visible, a rollback is undone: nothing is
\* logged, and what t waited for is durable.
LEMMA AnswerStep ==
    ASSUME TypeInv, TypeInv', Honest, NEW t \in Txn,
           PrepareReturns(t) \/ Committed1(t) \/ Undo1(t)
    PROVE  Honest'
<1>1. /\ Up /\ UNCHANGED <<mode, log, nextLsn, durable, image, covered, ckpt, nextTxn, gids, folded,
                           stray>>
      /\ \A u \in Txn \ {t} : /\ status'[u] = status[u] /\ sets'[u] = sets[u]
                              /\ preparing'[u] = preparing[u] /\ finishing'[u] = finishing[u]
                              /\ promised'[u] = promised[u]
      /\ \A r \in Row : lock[r] # t => lock'[r] = lock[r]
  <2>1. CASE PrepareReturns(t)
    BY <2>1 DEF PrepareReturns, Told, logVars, txnVars, boundVars, TypeInv, TxnType, WaitType, HistType
  <2>2. CASE Committed1(t)
    BY <2>2 DEF Committed1, Told, Unlocked, logVars, boundVars, TypeInv, TxnType, WaitType, HistType
  <2>3. CASE Undo1(t)
    BY <2>3 DEF Undo1, Undone, Unlocked, logVars, boundVars, TypeInv, TxnType, WaitType, HistType
  <2> QED BY <2>1, <2>2, <2>3
<1>2. \/ /\ preparing[t] # 0 /\ durable >= preparing[t] /\ preparing'[t] = 0
         /\ promised'[t] = IF promised[t] \in {"committed", "aborted"} THEN promised[t] ELSE "prepared"
         /\ UNCHANGED <<status, sets, lock, finishing>>
      \/ /\ status[t] = "committing" /\ durable >= finishing[t] /\ status'[t] = "committed"
         /\ promised'[t] = IF promised[t] \in {"committed", "aborted"} THEN promised[t] ELSE "committed"
         /\ sets'[t] = <<>> /\ preparing'[t] = preparing[t]
      \/ /\ status[t] = "aborting" /\ durable >= finishing[t] /\ status'[t] = "aborted"
         /\ promised'[t] = "aborted" /\ sets'[t] = <<>> /\ preparing'[t] = preparing[t]
  <2>1. CASE PrepareReturns(t)
    BY <2>1 DEF PrepareReturns, Told, txnVars, TypeInv, TxnType, WaitType, HistType
  <2>2. CASE Committed1(t)
    BY <2>2 DEF Committed1, Told, TypeInv, TxnType, WaitType, HistType
  <2>3. CASE Undo1(t)
    BY <2>3 DEF Undo1, Undone, TypeInv, TxnType, WaitType, HistType
  <2> QED BY <2>1, <2>2, <2>3
<1>3. PromiseOf(t) /\ MemoryOf(t)
  BY <1>1 DEF Honest, PromiseInv, MemoryInv, Up
<1>4. Only(t)
  BY <1>1 DEF Only, Up
<1>5. PromiseOf(t)'
  BY <1>1, <1>2, <1>3 DEF PromiseOf, MemoryOf, Ended
<1>6. MemoryOf(t)'
  <2>1. CASE /\ preparing[t] # 0 /\ preparing'[t] = 0 /\ UNCHANGED <<status, sets, lock>>
    BY <1>1, <1>3, <2>1 DEF MemoryOf
  <2>2. CASE /\ status[t] \in {"committing", "aborting"} /\ status'[t] \in {"committed", "aborted"}
             /\ sets'[t] = <<>> /\ promised'[t] # "prepared"
    <3>1. \A r \in DOMAIN sets'[t] : FALSE
      BY <2>2
    <3> QED BY <1>1, <1>3, <2>2, <3>1 DEF MemoryOf
  <2> QED BY <1>2, <1>3, <2>1, <2>2 DEF PromiseOf
<1>7. PromiseInv' /\ mode' = "up" /\ ~ckpt' /\ MemoryInv'
  BY <1>1, <1>4, <1>5, <1>6, FrameMemory
<1>8. ASSUME ~stray PROVE Climbs' /\ \E d1 : d1 = Kept' /\ DiskInv(d1)'
  <2>1. durable \in Nat /\ durable <= durable' /\ preparing[t] \in Nat /\ finishing[t] \in Nat
    BY <1>1, TwoPhaseAssumption DEF TypeInv, LogType, WaitType
  <2>2. PICK d : /\ Climbs' /\ d = Kept' /\ Cuts(d) /\ Folds(d) /\ Kinds(d) /\ Owed(d)
                 /\ Extends(d, d, <<>>)
                 /\ \A u, k, n : Marked(d, u, k, n) => Marked(d, u, k, n)'
                 /\ \A u, k : \A n, m \in Nat :
                      Marked(d, u, k, n) /\ n <= durable' => Marked(d, u, k, m)'
    BY <1>1, <1>8, <2>1, QuietClean
  <2>3. \A x \in 1..Len(d) : d[x].txn = t => KindOk(d[x])'
    <3> SUFFICES ASSUME NEW x \in 1..Len(d), d[x].txn = t PROVE KindOk(d[x])'
      OBVIOUS
    <3>1. PICK rec : rec = d[x] /\ KindOk(rec) /\ rec.txn = t
      BY <2>2 DEF Kinds
    <3>2. KindOk(rec)'
      <4>1. CASE UNCHANGED <<status, lock>>
        BY <1>1, <3>1, <4>1 DEF KindOk
      <4>2. CASE status[t] = "committing" /\ status'[t] = "committed"
        BY <3>1, <4>2 DEF KindOk
      <4>3. CASE status[t] = "aborting" /\ status'[t] = "aborted"
        BY <3>1, <4>3 DEF KindOk
      <4> QED BY <1>2, <4>1, <4>2, <4>3
    <3> QED BY <3>1, <3>2
  <2>4. ASSUME t \notin folded PROVE OwedOf(d, t)'
    <3>1. OwedOf(d, t)
      BY <2>2, <2>4 DEF Owed
    <3>2. CASE /\ preparing[t] # 0 /\ durable >= preparing[t] /\ preparing'[t] = 0
               /\ UNCHANGED <<status, finishing>>
      <4>1. Marked(d, t, "prepare", preparing[t])
        BY <3>1, <3>2 DEF OwedOf
      <4>2. PICK n \in Nat : n = preparing[t] /\ n <= durable'
        BY <1>1, <2>1, <3>2
      <4>3. Marked(d, t, "prepare", n)
        BY <4>1, <4>2
      <4>4. Marked(d, t, "prepare", 0)'
        BY <2>2, <4>2, <4>3
      <4>5. Marked(d, t, "prepare", preparing[t])'
        BY <3>2, <4>4
      <4> QED BY <2>2, <3>1, <3>2, <4>5 DEF OwedOf
    <3>3. CASE /\ status[t] = "committing" /\ durable >= finishing[t] /\ status'[t] = "committed"
               /\ preparing'[t] = preparing[t] /\ promised'[t] # "prepared"
      <4>1. Marked(d, t, "commit", finishing[t])
        BY <3>1, <3>3 DEF OwedOf
      <4>2. PICK n \in Nat : n = finishing[t] /\ n <= durable'
        BY <1>1, <2>1, <3>3
      <4>3. Marked(d, t, "commit", n)
        BY <4>1, <4>2
      <4>4. Marked(d, t, "commit", 0)'
        BY <2>2, <4>2, <4>3
      <4>5. preparing[t] # 0 => Marked(d, t, "prepare", preparing[t])'
        BY <2>2, <3>1, <3>3 DEF OwedOf
      <4> QED BY <3>3, <4>4, <4>5 DEF OwedOf
    <3>4. CASE /\ status[t] = "aborting" /\ durable >= finishing[t] /\ status'[t] = "aborted"
               /\ preparing'[t] = preparing[t] /\ promised'[t] # "prepared"
      <4>1. Marked(d, t, "abort", finishing[t])
        BY <3>1, <3>4 DEF OwedOf
      <4>2. PICK n \in Nat : n = finishing[t] /\ n <= durable'
        BY <1>1, <2>1, <3>4
      <4>3. Marked(d, t, "abort", n)
        BY <4>1, <4>2
      <4>4. Marked(d, t, "abort", 0)'
        BY <2>2, <4>2, <4>3
      <4>5. preparing[t] # 0 => Marked(d, t, "prepare", preparing[t])'
        BY <2>2, <3>1, <3>4 DEF OwedOf
      <4> QED BY <3>4, <4>4, <4>5 DEF OwedOf
    <3> QED BY <1>2, <3>2, <3>3, <3>4
  <2>5. PICK e : e = <<>> /\ Len(e) = 0
    OBVIOUS
  <2>6. \A i \in 1..Len(e) : FALSE
    BY <2>5
  <2>7. Extends(d, d, e) /\ nextTxn <= nextTxn'
    <3>1. nextTxn \in Nat /\ nextTxn' = nextTxn
      BY <1>1, TwoPhaseAssumption DEF TypeInv, TxnType
    <3> QED BY <2>2, <2>5, <3>1
  <2>8. DiskInv(d)'
    BY <1>1, <1>4, <2>2, <2>3, <2>4, <2>6, <2>7, FrameDisk
  <2> QED BY <2>2, <2>8
<1> QED BY <1>1, <1>7, <1>8, Closes

-----------------------------------------------------------------------------
(* Fsync and checkpoints                                                   *)

LEMMA FsyncStep ==
    ASSUME TypeInv, TypeInv', Honest, Fsync
    PROVE  Honest'
<1>1. /\ Up /\ durable < durable' /\ durable \in Nat /\ durable' \in Nat
      /\ UNCHANGED <<mode, log, nextLsn, image, covered, ckpt, txnVars, waitVars, histVars, boundVars>>
  BY TwoPhaseAssumption DEF Fsync, TypeInv, LogType
<1>2. PromiseInv' /\ mode' = "up" /\ ~ckpt'
  BY <1>1 DEF Honest, PromiseInv, PromiseOf, Ended, Up, txnVars, histVars
<1>3. MemoryInv'
  <2>1. \A t \in Txn : MemoryOf(t)
    BY <1>1 DEF Honest, MemoryInv, Up
  <2>2. \A t \in Txn : MemoryOf(t)'
    BY <1>1, <2>1 DEF MemoryOf, txnVars, waitVars, histVars, boundVars
  <2> QED BY <1>2, <2>2 DEF MemoryInv
<1>4. ASSUME ~stray PROVE Climbs' /\ \E d1 : d1 = Kept' /\ DiskInv(d1)'
  <2>1. PICK d : /\ Climbs' /\ d = Kept' /\ Cuts(d) /\ Folds(d) /\ Kinds(d) /\ Owed(d)
                 /\ \A u, k, n : Marked(d, u, k, n) => Marked(d, u, k, n)'
    BY <1>1, <1>4, QuietClean
  <2>2. Folds(d)' /\ Kinds(d)'
    BY <1>1, <2>1 DEF Folds, Kinds, KindOk, txnVars, histVars
  <2>3. Owed(d)'
    <3> SUFFICES ASSUME NEW u \in Txn \ folded PROVE OwedOf(d, u)'
      BY <1>1 DEF Owed, histVars
    <3>1. OwedOf(d, u)
      BY <2>1 DEF Owed
    <3> QED BY <1>1, <2>1, <3>1 DEF OwedOf, txnVars, waitVars, histVars
  <2>4. Cuts(d)'
    BY <2>1 DEF Cuts, Once, OneWay, Locked, Handed
  <2> QED BY <1>2, <2>1, <2>2, <2>3, <2>4 DEF DiskInv, CutInv
<1> QED BY <1>1, <1>2, <1>3, <1>4, Closes DEF boundVars

\* What a checkpoint writes: the committed state, then the prepared transactions.
Carrying(d, rec) ==
    /\ d \in Seq(Records) /\ Len(d) >= 1 /\ d[1] = rec
    /\ \A x \in 2..Len(d) :
          /\ d[x].txn \in Waiting /\ d[x].kind \in {"begin", "op", "prepare"}
          /\ d[x].kind = "op" => /\ d[x].row \in DOMAIN sets[d[x].txn]
                                /\ d[x].val = sets[d[x].txn][d[x].row]
          /\ d[x].kind = "prepare" => d[x].gid = Name(d[x].txn) /\ d[x].locks = Holds(d[x].txn)
    /\ \A x, y \in 2..Len(d) :
          d[x].kind = "prepare" /\ d[y].kind = "prepare" /\ d[x].txn = d[y].txn => x = y
    /\ \A t \in Waiting : \E x \in 2..Len(d) : Is(d[x], t, "prepare")
    \* Begin, writes, prepare.
    /\ \A x \in 2..Len(d) : d[x].kind = "op" =>
          \E y \in 2..Len(d) : y < x /\ Is(d[y], d[x].txn, "begin")
    /\ \A x, y \in 2..Len(d) :
          d[x].kind = "op" /\ d[y].kind = "prepare" /\ d[x].txn = d[y].txn => x < y
    /\ \A t \in Waiting : \A r \in DOMAIN sets[t] :
          \E x \in 2..Len(d) : Is(d[x], t, "op") /\ d[x].row = r

LEMMA ImageIs ==
    ASSUME TxnType, NEW ts \in SetToSeqs(Waiting), NEW rec \in Records
    PROVE  Carrying(<<rec>> \o Carried(ts), rec)
<1>0. PICK d : d = <<rec>> \o Carried(ts)
  OBVIOUS
<1>1. PICK c \in {Carried(ts)} : c \in Seq(Records) /\ \E w : Carries(ts, w)
  BY CarriedIs
<1>w. PICK w : Carries(ts, w)
  BY <1>1
<1>2. PICK L \in Nat, N \in Nat : L = Len(ts) /\ N = Len(c)
  BY <1>1, OrdersAre
<1>3. /\ \A i \in 1..L : ts[i] \in Waiting
      /\ \A i, j \in 1..L : ts[i] = ts[j] => i = j
      /\ \A t \in Waiting : \E i \in 1..L : ts[i] = t
  BY <1>2, OrdersAre
<1>4. PICK pr : pr = [i \in 1..L |-> Prepared(ts[i], Name(ts[i]))]
  OBVIOUS
<1>5. /\ \A n \in 1..N : /\ w[n][1] \in 1..L /\ w[n][2] \in 1..Len(pr[w[n][1]])
                         /\ c[n] = pr[w[n][1]][w[n][2]]
      /\ \A i \in 1..L : \A k \in 1..Len(pr[i]) : \E n \in 1..N : w[n] = <<i, k>>
      /\ \A m, n \in 1..N : m < n => Before(w[m], w[n])
  <2>1. \A i \in 1..L : pr[i] = Prepared(ts[i], Name(ts[i]))
    BY <1>4
  <2>2. ASSUME NEW n \in 1..N
        PROVE  /\ w[n][1] \in 1..L
               /\ w[n][2] \in 1..Len(Prepared(ts[w[n][1]], Name(ts[w[n][1]])))
               /\ c[n] = Prepared(ts[w[n][1]], Name(ts[w[n][1]]))[w[n][2]]
    <3>1. c = Carried(ts) /\ n \in 1..Len(Carried(ts))
      BY <1>1, <1>2
    <3>2. /\ w[n][1] \in 1..Len(ts)
          /\ w[n][2] \in 1..Len(Prepared(ts[w[n][1]], Name(ts[w[n][1]])))
          /\ Carried(ts)[n] = Prepared(ts[w[n][1]], Name(ts[w[n][1]]))[w[n][2]]
      BY <1>w, <3>1 DEF Carries
    <3> QED BY <1>2, <3>1, <3>2
  <2>3. \A i \in 1..L : \A k \in 1..Len(Prepared(ts[i], Name(ts[i]))) : \E n \in 1..N : w[n] = <<i, k>>
    <3> SUFFICES ASSUME NEW i \in 1..L, NEW k \in 1..Len(Prepared(ts[i], Name(ts[i])))
                 PROVE  \E n \in 1..N : w[n] = <<i, k>>
      OBVIOUS
    <3>1. i \in 1..Len(ts)
      BY <1>2
    <3>2. \E n \in 1..Len(Carried(ts)) : w[n] = <<i, k>>
      BY <1>w, <3>1 DEF Carries
    <3>3. Len(Carried(ts)) = N
      BY <1>1, <1>2
    <3> QED BY <3>2, <3>3
  <2>4. \A m, n \in 1..N : m < n => Before(w[m], w[n])
    <3>1. \A m, n \in 1..Len(Carried(ts)) : m < n => Before(w[m], w[n])
      BY <1>w DEF Carries
    <3>2. Len(Carried(ts)) = N
      BY <1>1, <1>2
    <3> QED BY <3>1, <3>2
  <2> QED BY <2>1, <2>2, <2>3, <2>4
<1>6. ASSUME NEW i \in 1..L
      PROVE  /\ pr[i] \in Seq(Records) /\ Len(pr[i]) >= 2
             /\ Is(pr[i][Len(pr[i])], ts[i], "prepare") /\ Is(pr[i][1], ts[i], "begin")
             /\ \A r \in DOMAIN sets[ts[i]] :
                   \E k \in 1..Len(pr[i]) : Is(pr[i][k], ts[i], "op") /\ pr[i][k].row = r
             /\ \A k \in 1..Len(pr[i]) :
                   /\ pr[i][k].txn = ts[i] /\ pr[i][k].kind \in {"begin", "op", "prepare"}
                   /\ pr[i][k].kind = "op" => /\ pr[i][k].row \in DOMAIN sets[ts[i]]
                                              /\ pr[i][k].val = sets[ts[i]][pr[i][k].row]
                                              /\ 1 < k /\ k < Len(pr[i])
                   /\ pr[i][k].kind = "prepare" => /\ k = Len(pr[i]) /\ pr[i][k].gid = Name(ts[i])
                                                   /\ pr[i][k].locks = Holds(ts[i])
  <2>1. PICK t, g, s, ls, rs :
             /\ t \in Txn /\ g \in Gid /\ t = ts[i] /\ g = Name(t) /\ s = sets[t] /\ ls = Holds(t) /\ rs = pr[i]
             /\ IsProgram(rs, t, g, ls, s)
    BY <1>3, <1>4, WaitingIs, PreparedIs
  <2>2. PICK K \in Nat : /\ K = Len(rs) /\ K >= 2 /\ rs \in Seq(Records)
                         /\ rs[1] = PrepareBegin(t) /\ rs[K] = Prepare(t, g, ls)
    BY <2>1 DEF IsProgram
  <2>3. Is(rs[K], t, "prepare") /\ Is(rs[1], t, "begin")
    BY <2>2 DEF Prepare, PrepareBegin, Is
  <2>4. ASSUME NEW k \in 1..K
        PROVE  /\ rs[k].txn = t /\ rs[k].kind \in {"begin", "op", "prepare"}
               /\ rs[k].kind = "op" => rs[k].row \in DOMAIN s /\ rs[k].val = s[rs[k].row] /\ 1 < k /\ k < K
               /\ rs[k].kind = "prepare" => k = K /\ rs[k].gid = g /\ rs[k].locks = ls
    <3>1. CASE k = 1
      BY <2>2, <3>1 DEF PrepareBegin
    <3>2. CASE k = K
      BY <2>2, <3>2 DEF Prepare
    <3>3. CASE k \in 2..(K - 1)
      <4>1. PICK r \in DOMAIN s : rs[k] = Op(t, r, s[r])
        BY <2>1, <2>2, <3>3 DEF IsProgram
      <4>2. 1 < k /\ k < K
        BY <2>2, <3>3
      <4> QED BY <4>1, <4>2 DEF Op
    <3> QED BY <2>2, <3>1, <3>2, <3>3
  <2>5. ASSUME NEW r \in DOMAIN s PROVE \E k \in 1..K : Is(rs[k], t, "op") /\ rs[k].row = r
    <3>1. PICK k \in 2..(K - 1) : rs[k] = Op(t, r, s[r])
      BY <2>1, <2>2, <2>5 DEF IsProgram
    <3>2. k \in 1..K
      BY <2>2, <3>1
    <3> QED BY <3>1, <3>2 DEF Op, Is
  <2> QED BY <2>1, <2>2, <2>3, <2>4, <2>5
<1>7. /\ d \in Seq(Records) /\ Len(d) = N + 1 /\ d[1] = rec /\ \A n \in 1..N : d[n + 1] = c[n]
  <2>1. PICK e \in Seq(Records) : e = <<rec>> /\ Len(e) = 1 /\ e[1] = rec
    BY OneRecord
  <2>2. d = e \o c
    BY <1>0, <1>1, <2>1
  <2>3. /\ e \o c \in Seq(Records) /\ Len(e \o c) = Len(e) + Len(c)
        /\ \A p \in 1..Len(e) : (e \o c)[p] = e[p]
        /\ \A i \in 1..Len(c) : (e \o c)[Len(e) + i] = c[i]
    BY <1>1, Appended
  <2>4. /\ d \in Seq(Records) /\ Len(d) = 1 + N
        /\ \A p \in 1..1 : d[p] = e[p]
        /\ \A i \in 1..N : d[1 + i] = c[i]
    BY <1>2, <2>1, <2>2, <2>3
  <2>5. \A i \in 1..N : 1 + i = i + 1
    OBVIOUS
  <2> QED BY <2>1, <2>4, <2>5
<1>8. \A x \in 2..(N + 1) : x - 1 \in 1..N /\ d[x] = c[x - 1]
  <2>1. \A x \in 2..(N + 1) : x - 1 \in 1..N /\ (x - 1) + 1 = x
    OBVIOUS
  <2> QED BY <1>7, <2>1
<1>9. ASSUME NEW n \in 1..N
      PROVE  /\ c[n].txn = ts[w[n][1]] /\ c[n].txn \in Waiting
             /\ c[n].kind \in {"begin", "op", "prepare"}
             /\ c[n].kind = "op" => /\ c[n].row \in DOMAIN sets[c[n].txn]
                                    /\ c[n].val = sets[c[n].txn][c[n].row]
                                    /\ 1 < w[n][2] /\ w[n][2] < Len(pr[w[n][1]])
             /\ c[n].kind = "prepare" => /\ w[n][2] = Len(pr[w[n][1]])
                                         /\ c[n].gid = Name(c[n].txn)
                                         /\ c[n].locks = Holds(c[n].txn)
  <2>1. PICK i \in 1..L : i = w[n][1]
    BY <1>5
  <2>2. PICK k \in 1..Len(pr[i]) : k = w[n][2] /\ c[n] = pr[i][k]
    BY <1>5, <2>1
  <2>3. /\ pr[i][k].txn = ts[i] /\ pr[i][k].kind \in {"begin", "op", "prepare"}
        /\ pr[i][k].kind = "op" => /\ pr[i][k].row \in DOMAIN sets[ts[i]]
                                   /\ pr[i][k].val = sets[ts[i]][pr[i][k].row]
                                   /\ 1 < k /\ k < Len(pr[i])
        /\ pr[i][k].kind = "prepare" => /\ k = Len(pr[i]) /\ pr[i][k].gid = Name(ts[i])
                                        /\ pr[i][k].locks = Holds(ts[i])
    BY <1>6
  <2>4. ts[i] \in Waiting
    BY <1>3
  <2> QED BY <2>1, <2>2, <2>3, <2>4
<1>10. ASSUME NEW m \in 1..N, NEW n \in 1..N, c[m].kind = "prepare", c[n].kind = "prepare",
              c[m].txn = c[n].txn
       PROVE  m = n
  <2>1. w[m][1] = w[n][1]
    <3>1. c[m].txn = ts[w[m][1]] /\ c[n].txn = ts[w[n][1]]
      BY <1>9
    <3>2. PICK i \in 1..L, j \in 1..L : i = w[m][1] /\ j = w[n][1]
      BY <1>5
    <3>3. ts[i] = ts[j]
      BY <1>10, <3>1, <3>2
    <3>4. i = j
      BY <1>3, <3>3
    <3> QED BY <3>2, <3>4
  <2>2. w[m][2] = w[n][2]
    BY <1>9, <1>10, <2>1
  <2>3. w[m][1] \in Nat /\ w[m][2] \in Nat
    <3>1. PICK i \in 1..L : i = w[m][1]
      BY <1>5
    <3>2. w[m][2] \in 1..Len(pr[i]) /\ Len(pr[i]) \in Nat
      BY <1>5, <1>6, <3>1
    <3> QED BY <3>1, <3>2
  <2>4. ~Before(w[m], w[n]) /\ ~Before(w[n], w[m])
    BY <2>1, <2>2, <2>3 DEF Before
  <2>5. ~(m < n) /\ ~(n < m)
    BY <1>5, <2>4
  <2> QED BY <2>5
<1>11. ASSUME NEW t \in Waiting PROVE \E n \in 1..N : Is(c[n], t, "prepare")
  <2>1. PICK i \in 1..L : ts[i] = t
    BY <1>3
  <2>2. PICK k \in 1..Len(pr[i]) : Is(pr[i][k], t, "prepare")
    <3>1. Len(pr[i]) \in 1..Len(pr[i])
      BY <1>6
    <3> QED BY <1>6, <2>1, <3>1
  <2>3. PICK n \in 1..N : w[n] = <<i, k>>
    BY <1>5
  <2>4. c[n] = pr[i][k]
    BY <1>5, <2>3
  <2> QED BY <2>2, <2>4
\* Places of one transaction are in the order of its records.
<1>a. ASSUME NEW m \in 1..N, NEW n \in 1..N, w[m][1] = w[n][1], w[m][2] < w[n][2] PROVE m < n
  <2>1. PICK i \in 1..L : i = w[m][1] /\ i = w[n][1]
    BY <1>5, <1>a
  <2>2. /\ w[m][2] \in 1..Len(pr[i]) /\ w[n][2] \in 1..Len(pr[i]) /\ Len(pr[i]) \in Nat
    <3>1. w[m][2] \in 1..Len(pr[w[m][1]]) /\ w[n][2] \in 1..Len(pr[w[n][1]])
      BY <1>5
    <3>2. Len(pr[i]) \in Nat
      BY <1>6
    <3> QED BY <2>1, <3>1, <3>2
  <2>3. w[m][1] \in Nat /\ w[n][1] \in Nat /\ w[m][2] \in Nat /\ w[n][2] \in Nat
    BY <2>1, <2>2
  <2>4. ~Before(w[n], w[m]) /\ m # n
    BY <1>a, <2>3 DEF Before
  <2>5. ~(n < m)
    BY <1>5, <2>4
  <2> QED BY <2>4, <2>5
<1>b. ASSUME NEW n \in 1..N, c[n].kind = "op" PROVE \E m \in 1..N : m < n /\ Is(c[m], c[n].txn, "begin")
  <2>1. PICK i \in 1..L : i = w[n][1] /\ c[n].txn = ts[i] /\ 1 < w[n][2]
    BY <1>5, <1>9, <1>b
  <2>2. 1 \in 1..Len(pr[i]) /\ Is(pr[i][1], ts[i], "begin")
    BY <1>6
  <2>3. PICK m \in 1..N : w[m] = <<i, 1>>
    BY <1>5, <2>2
  <2>4. w[m][1] = i /\ w[m][2] = 1 /\ c[m] = pr[i][1]
    BY <1>5, <2>3
  <2>5. m < n
    BY <1>a, <2>1, <2>4
  <2> QED BY <2>1, <2>2, <2>4, <2>5
<1>c. ASSUME NEW m \in 1..N, NEW n \in 1..N, c[m].kind = "op", c[n].kind = "prepare", c[m].txn = c[n].txn
      PROVE  m < n
  <2>1. PICK i \in 1..L, j \in 1..L : i = w[m][1] /\ j = w[n][1]
    BY <1>5
  <2>2. ts[i] = ts[j]
    BY <1>9, <1>c, <2>1
  <2>3. i = j
    BY <1>3, <2>2
  <2>4. w[m][2] < w[n][2]
    <3>1. w[m][2] < Len(pr[w[m][1]])
      BY <1>9, <1>c
    <3>2. w[n][2] = Len(pr[w[n][1]])
      BY <1>9, <1>c
    <3> QED BY <2>1, <2>3, <3>1, <3>2
  <2> QED BY <1>a, <2>1, <2>3, <2>4
<1>d. ASSUME NEW t \in Waiting, NEW r \in DOMAIN sets[t]
      PROVE  \E n \in 1..N : Is(c[n], t, "op") /\ c[n].row = r
  <2>1. PICK i \in 1..L : ts[i] = t
    BY <1>3
  <2>2. PICK k \in 1..Len(pr[i]) : Is(pr[i][k], t, "op") /\ pr[i][k].row = r
    BY <1>6, <2>1
  <2>3. PICK n \in 1..N : w[n] = <<i, k>>
    BY <1>5
  <2>4. c[n] = pr[i][k]
    BY <1>5, <2>3
  <2> QED BY <2>2, <2>4
<1>12. \A t \in Waiting : \E x \in 2..(N + 1) : Is(d[x], t, "prepare")
  <2> SUFFICES ASSUME NEW t \in Waiting PROVE \E x \in 2..(N + 1) : Is(d[x], t, "prepare")
    OBVIOUS
  <2>1. PICK n \in 1..N : Is(c[n], t, "prepare")
    BY <1>11
  <2>2. n + 1 \in 2..(N + 1) /\ d[n + 1] = c[n]
    BY <1>7
  <2> QED BY <2>1, <2>2
<1>13. \A x \in 2..(N + 1) :
                 /\ d[x].txn \in Waiting /\ d[x].kind \in {"begin", "op", "prepare"}
                 /\ d[x].kind = "op" => /\ d[x].row \in DOMAIN sets[d[x].txn]
                                        /\ d[x].val = sets[d[x].txn][d[x].row]
                 /\ d[x].kind = "prepare" => d[x].gid = Name(d[x].txn) /\ d[x].locks = Holds(d[x].txn)
  BY <1>8, <1>9
<1>14. \A x, y \in 2..(N + 1) :
           d[x].kind = "prepare" /\ d[y].kind = "prepare" /\ d[x].txn = d[y].txn => x = y
  <2> SUFFICES ASSUME NEW x \in 2..(N + 1), NEW y \in 2..(N + 1),
                      d[x].kind = "prepare" /\ d[y].kind = "prepare" /\ d[x].txn = d[y].txn
               PROVE  x = y
    OBVIOUS
  <2>1. x - 1 = y - 1
    BY <1>8, <1>10
  <2> QED BY <2>1
<1>e. \A x \in 2..(N + 1) : d[x].kind = "op" =>
          \E y \in 2..(N + 1) : y < x /\ Is(d[y], d[x].txn, "begin")
  <2> SUFFICES ASSUME NEW x \in 2..(N + 1), d[x].kind = "op"
               PROVE  \E y \in 2..(N + 1) : y < x /\ Is(d[y], d[x].txn, "begin")
    OBVIOUS
  <2>1. PICK n \in 1..N : n = x - 1 /\ d[x] = c[n]
    BY <1>8
  <2>2. PICK m \in 1..N : m < n /\ Is(c[m], c[n].txn, "begin")
    BY <1>b, <2>1
  <2>3. m + 1 \in 2..(N + 1) /\ m + 1 < x /\ d[m + 1] = c[m]
    BY <1>7, <2>1, <2>2
  <2> QED BY <2>1, <2>2, <2>3
<1>f. \A x, y \in 2..(N + 1) :
           d[x].kind = "op" /\ d[y].kind = "prepare" /\ d[x].txn = d[y].txn => x < y
  <2> SUFFICES ASSUME NEW x \in 2..(N + 1), NEW y \in 2..(N + 1),
                      d[x].kind = "op" /\ d[y].kind = "prepare" /\ d[x].txn = d[y].txn
               PROVE  x < y
    OBVIOUS
  <2>1. x - 1 < y - 1
    BY <1>8, <1>c
  <2> QED BY <2>1
<1>g. \A t \in Waiting : \A r \in DOMAIN sets[t] :
          \E x \in 2..(N + 1) : Is(d[x], t, "op") /\ d[x].row = r
  <2> SUFFICES ASSUME NEW t \in Waiting, NEW r \in DOMAIN sets[t]
               PROVE  \E x \in 2..(N + 1) : Is(d[x], t, "op") /\ d[x].row = r
    OBVIOUS
  <2>1. PICK n \in 1..N : Is(c[n], t, "op") /\ c[n].row = r
    BY <1>d
  <2>2. n + 1 \in 2..(N + 1) /\ d[n + 1] = c[n]
    BY <1>7
  <2> QED BY <2>1, <2>2
<1>15. N + 1 >= 1
  OBVIOUS
<1>16. PICK M : M = N + 1 /\ M = Len(d)
  BY <1>7
<1>17. Carrying(d, rec)
  BY <1>7, <1>12, <1>13, <1>14, <1>15, <1>16, <1>e, <1>f, <1>g DEF Carrying
<1> QED BY <1>0, <1>17

LEMMA PublishStep ==
    ASSUME TypeInv, TypeInv', Honest, Publish
    PROVE  Honest'
<1>1. /\ Up /\ nextTxn \in Txn /\ Running = {} /\ covered' = nextLsn - 1 /\ ckpt'
      /\ nextTxn' = nextTxn + 1 /\ status' = [status EXCEPT ![nextTxn] = "committed"]
      /\ folded' = {t \in Txn : status'[t] \in {"committed", "aborted"}}
      /\ UNCHANGED <<mode, log, nextLsn, sets, lock, gids, waitVars, promised, stray>>
  BY TwoPhaseAssumption DEF Publish, Gated, TypeInv, TxnType, Txn
<1>2. PICK n \in Txn : n = nextTxn
  BY <1>1
<1>3. /\ status'[n] = "committed" /\ \A u \in Txn \ {n} : status'[u] = status[u]
  BY <1>1, <1>2 DEF TypeInv, TxnType
<1>4. /\ \A u \in Txn : PromiseOf(u) /\ MemoryOf(u) /\ mode = "up" /\ ~ckpt
  BY <1>1 DEF Honest, PromiseInv, MemoryInv, Up
<1>5. /\ status[n] = "none" /\ promised[n] = "open" /\ preparing[n] = 0 /\ \A g \in Gid : gids[g] # n
  <2>1. n >= nextTxn
    BY <1>2, NobodyIs
  <2>2. promised[n] \in {"open", "prepared", "committed", "aborted"}
    BY DEF TypeInv, HistType
  <2> QED BY <1>4, <2>1, <2>2 DEF PromiseOf, MemoryOf
<1>6. \A u \in Txn : status[u] \in {"none", "prepared", "committed", "aborted"}
  BY <1>1 DEF Running, TypeInv, TxnType, Statuses
<1>7. PromiseInv'
  <2> SUFFICES ASSUME NEW u \in Txn PROVE PromiseOf(u)'
    BY DEF PromiseInv
  <2>1. u \in folded' => Ended(u)'
    BY <1>1 DEF Ended
  <2>2. CASE u = n
    <3>1. ~(u >= nextTxn')
      BY <1>1, <1>2, <2>2, NobodyIs
    <3>2. promised' = promised
      BY <1>1
    <3> QED BY <1>3, <1>5, <2>1, <2>2, <3>1, <3>2 DEF PromiseOf
  <2>3. CASE u # n
    <3>1. u >= nextTxn' <=> u >= nextTxn
      BY <1>1, <1>2, <2>3, NobodyIs
    <3> QED BY <1>1, <1>3, <1>4, <2>1, <2>3, <3>1 DEF PromiseOf
  <2> QED BY <2>2, <2>3
<1>8. MemoryInv'
  <2>1. ASSUME NEW u \in Txn PROVE MemoryOf(u)'
    <3>1. CASE u = n
      BY <1>1, <1>3, <1>4, <1>5, <3>1 DEF MemoryOf, waitVars
    <3>2. CASE u # n
      BY <1>1, <1>3, <1>4, <3>2 DEF MemoryOf, waitVars
    <3> QED BY <3>1, <3>2
  <2>2. Running' = {}
    BY <1>1, <1>3 DEF Running
  <2>3. covered' = nextLsn' - 1
    BY <1>1
  <2> QED BY <2>1, <2>2, <2>3 DEF MemoryInv
<1>9. ~stray' => Climbs'
  BY <1>1 DEF Honest, Climbs
<1>10. PICK ts \in SetToSeqs(Waiting) : image' = <<Image(nextTxn, rows)>> \o Carried(ts)
  BY DEF Publish
<1>11. PICK rec \in Records : rec = Image(nextTxn, rows) /\ rec.kind = "image" /\ rec.txn = n
  <2>1. rows \in [Row -> Valued]
    BY DEF TypeInv, TxnType
  <2> QED BY <1>2, <2>1, RecordsAre
<1>12. PICK d : d = <<rec>> \o Carried(ts) /\ d = image'
  BY <1>10, <1>11
<1>13. /\ d \in Seq(Records) /\ Len(d) >= 1 /\ d[1] = rec
       /\ \A x \in 2..Len(d) :
             /\ d[x].txn \in Waiting /\ d[x].kind \in {"begin", "op", "prepare"}
             /\ d[x].kind = "op" => d[x].row \in DOMAIN sets[d[x].txn]
             /\ d[x].kind = "prepare" => d[x].gid = Name(d[x].txn) /\ d[x].locks = Holds(d[x].txn)
       /\ \A x, y \in 2..Len(d) :
             d[x].kind = "prepare" /\ d[y].kind = "prepare" /\ d[x].txn = d[y].txn => x = y
       /\ \A t \in Waiting : \E x \in 2..Len(d) : Is(d[x], t, "prepare")
  <2>1. Carrying(<<rec>> \o Carried(ts), rec)
    BY ImageIs DEF TypeInv
  <2>2. Carrying(d, rec)
    BY <1>12, <2>1
  <2> QED BY <2>2 DEF Carrying
<1>14. PICK D \in Nat : D = Len(d) /\ D >= 1 /\ \A x \in 1..D : x = 1 \/ x \in 2..D
  BY <1>13
<1>15. \A t \in Txn : t \in Waiting <=> status[t] = "prepared"
  BY <1>4 DEF Waiting, MemoryOf
<1>16. \A t \in Waiting : /\ t \in Txn /\ Name(t) \in Gid /\ gids[Name(t)] = t /\ t # n
                          /\ \A r \in DOMAIN sets[t] : r \in Holds(t)
  <2> SUFFICES ASSUME NEW t \in Waiting
               PROVE  /\ t \in Txn /\ Name(t) \in Gid /\ gids[Name(t)] = t /\ t # n
                      /\ \A r \in DOMAIN sets[t] : r \in Holds(t)
    OBVIOUS
  <2>1. t \in Txn /\ Name(t) \in Gid /\ gids[Name(t)] = t
    BY WaitingIs DEF TypeInv
  <2>2. sets[t] \in Nets
    BY <2>1 DEF TypeInv, TxnType
  <2>3. DOMAIN sets[t] \subseteq Row
    BY <2>2, NetsAre
  <2> QED BY <1>4, <1>5, <2>1, <2>3 DEF Holds, MemoryOf
<1>17. \A x \in 1..D : d[x].kind = "prepare" \/ d[x].kind = "op" => x \in 2..D
  BY <1>11, <1>13, <1>14
<1>18. Once(d)
  BY <1>13, <1>14, <1>17 DEF Once
<1>19. OneWay(d)
  <2>1. \A x \in 1..D : d[x].kind # "commit"
    BY <1>11, <1>13, <1>14
  <2> QED BY <1>14, <2>1 DEF OneWay
<1>20. Locked(d)
  BY <1>13, <1>14, <1>16, <1>17 DEF Locked
<1>21. Handed(d)
  <2> SUFFICES ASSUME NEW p \in 1..D, NEW q \in 1..D, p < q,
                      d[p].kind = "prepare" /\ d[q].kind = "prepare",
                      d[p].gid = d[q].gid \/ d[p].locks \cap d[q].locks # {}
               PROVE  FALSE
    BY <1>14 DEF Handed
  <2>1. p \in 2..D /\ q \in 2..D
    BY <1>17
  <2>2. PICK t \in Waiting, u \in Waiting :
          /\ t = d[p].txn /\ u = d[q].txn /\ d[p].gid = Name(t) /\ d[p].locks = Holds(t)
          /\ d[q].gid = Name(u) /\ d[q].locks = Holds(u)
    BY <1>13, <1>14, <2>1
  <2>3. t # u
    BY <1>13, <1>14, <2>1, <2>2
  <2>4. Name(t) # Name(u)
    BY <1>16, <2>3
  <2>5. Holds(t) \cap Holds(u) = {}
    BY <2>3 DEF Holds
  <2> QED BY <2>2, <2>4, <2>5
<1>22. Folds(d)'
  <2> SUFFICES ASSUME NEW x \in 1..D
               PROVE  d[x].txn < nextTxn' /\ (d[x].txn \in folded' <=> d[x].kind = "image")
    BY <1>14 DEF Folds
  <2>1. CASE x = 1
    <3>1. d[x].txn = n /\ d[x].kind = "image"
      BY <1>11, <1>13, <2>1
    <3>2. n < nextTxn' /\ n \in folded'
      BY <1>1, <1>2, <1>3, NobodyIs
    <3> QED BY <3>1, <3>2
  <2>2. CASE x \in 2..D
    <3>1. PICK t \in Waiting : t = d[x].txn /\ d[x].kind # "image"
      BY <1>13, <1>14, <2>2
    <3>2. t \in Txn /\ t # n /\ status[t] = "prepared"
      BY <1>15, <1>16
    <3>3. ~(t >= nextTxn)
      BY <1>4, <3>2 DEF PromiseOf
    <3>4. t < nextTxn'
      <4>1. t \in Nat /\ nextTxn \in Nat
        BY <1>1, <3>2, NobodyIs
      <4> QED BY <1>1, <3>3, <4>1
    <3>5. t \notin folded'
      BY <1>1, <1>3, <3>2
    <3> QED BY <3>1, <3>4, <3>5
  <2> QED BY <1>14, <2>1, <2>2
<1>23. Kinds(d)'
  <2> SUFFICES ASSUME NEW x \in 1..D PROVE KindOk(d[x])'
    BY <1>14 DEF Kinds
  <2>1. CASE x = 1
    BY <1>11, <1>13, <2>1 DEF KindOk
  <2>2. CASE x \in 2..D
    <3>1. PICK y \in Records, t \in Waiting :
             /\ y = d[x] /\ t = y.txn /\ y.kind \in {"begin", "op", "prepare"}
             /\ y.kind = "prepare" => y.gid = Name(t) /\ y.locks = Holds(t)
      BY <1>13, <1>14, <2>2
    <3>2. /\ t \in Txn /\ status'[t] = "prepared" /\ gids[Name(t)] = t
          /\ \A r \in Holds(t) : lock[r] = t
      BY <1>3, <1>15, <1>16 DEF Holds
    <3>3. KindOk(y)'
      BY <1>1, <3>1, <3>2 DEF KindOk
    <3> QED BY <3>1, <3>3
  <2> QED BY <1>14, <2>1, <2>2
<1>24. Owed(d)'
  <2> SUFFICES ASSUME NEW t \in Txn, t \notin folded' PROVE OwedOf(d, t)'
    BY DEF Owed
  <2>1. status'[t] \in {"none", "prepared"} /\ t # n /\ status'[t] = status[t]
    BY <1>1, <1>3, <1>6
  <2>2. CASE status[t] = "prepared"
    <3>1. PICK x \in 2..D : Is(d[x], t, "prepare")
      BY <1>13, <1>14, <1>15, <2>2
    <3>2. x \in 1..D /\ x <= D
      BY <1>14
    <3>3. Safe(d, x)'
      BY <1>12, <1>14, <3>2 DEF Safe
    <3>4. Marked(d, t, "prepare", preparing[t])'
      BY <1>14, <3>1, <3>2, <3>3 DEF Marked, Is
    <3> QED BY <2>1, <2>2, <3>4 DEF OwedOf
  <2>3. CASE status[t] = "none"
    <3>1. preparing'[t] = 0 /\ promised'[t] # "prepared"
      BY <1>1, <1>4, <2>3 DEF MemoryOf, PromiseOf, waitVars
    <3> QED BY <2>1, <2>3, <3>1 DEF OwedOf
  <2> QED BY <2>1, <2>2, <2>3
<1>25. Cuts(d)'
  BY <1>18, <1>19, <1>20, <1>21 DEF Cuts, Once, OneWay, Locked, Handed
<1>26. DiskInv(d)' /\ mode' = "up" /\ d = Kept'
  BY <1>1, <1>4, <1>12, <1>22, <1>23, <1>24, <1>25 DEF DiskInv, CutInv, Kept
<1>27. \A d1 \in {Kept'} : DiskInv(d1)'
  BY <1>26
<1> QED BY <1>7, <1>8, <1>9, <1>26, <1>27 DEF Honest

\* After it the image is all there is.
LEMMA ImageAlone ==
    ASSUME NEW im \in Seq(Records), NEW l \in Seq(Frames), NEW c \in Nat,
           \A i, j \in 1..Len(l) : i < j => l[i].lsn < l[j].lsn,
           \A i \in 1..Len(l) : l[i].lsn <= c
    PROVE  im \o Climbing(l, c) = im
<1>1. PICK L \in Nat, M \in Nat : L = Len(l) /\ M = Len(im)
  OBVIOUS
<1>2. \A i \in 1..L : l[i].lsn \in Nat
  <2>1. \A f \in Frames : f.lsn \in Nat
    BY DEF Frames
  <2> QED BY <1>1, <2>1
<1>3. PICK n \in 0..Len(l) : Joined(im, l, c, im \o Climbing(l, c), n)
  BY JoinIs
<1>4. PICK y : y = im \o Climbing(l, c)
  OBVIOUS
<1>5. /\ \A i \in 1..L : l[i].lsn > c <=> i > n
      /\ y \in Seq(Records) /\ Len(y) = M + L - n /\ \A p \in 1..M : y[p] = im[p]
  BY <1>1, <1>3, <1>4 DEF Joined
<1>6. n = L
  <2> SUFFICES ASSUME n < L PROVE FALSE
    BY <1>1
  <2>1. L \in 1..L /\ L > n
    BY <1>1
  <2>2. l[L].lsn > c /\ l[L].lsn <= c /\ l[L].lsn \in Nat
    BY <1>1, <1>2, <1>5, <2>1
  <2> QED BY <2>2
<1>7. Len(y) = M
  BY <1>5, <1>6
<1>8. y = im
  BY <1>1, <1>5, <1>7
<1> QED BY <1>4, <1>8

\* So a log that was cut, and one that stayed, have nothing more to say.
LEMMA TruncateKept ==
    ASSUME TypeInv, TypeInv', Honest, Truncate, ~stray'
    PROVE  Climbs' /\ image = Kept'
<1>1. /\ mode = "up" /\ ckpt /\ ~ckpt' /\ MemoryInv
      /\ UNCHANGED <<mode, nextLsn, image, covered>>
      /\ \/ log' = <<>> /\ stray' = FALSE
         \/ UNCHANGED <<log, stray>>
  BY DEF Truncate, Honest
<1>2. Climbs'
  <2>1. CASE log' = <<>>
    <3>1. \A i \in 1..Len(<<>>) : FALSE
      OBVIOUS
    <3> QED BY <2>1, <3>1 DEF Climbs
  <2>2. CASE UNCHANGED <<log, stray>>
    BY <1>1, <2>2 DEF Honest, Climbs
  <2> QED BY <1>1, <2>1, <2>2
<1>3. PICK l \in Seq(Frames), im \in Seq(Records), c \in Nat :
          l = log' /\ im = image' /\ c = covered' /\ nextLsn' = c + 1
  BY <1>1, TwoPhaseAssumption DEF MemoryInv, TypeInv, LogType
<1>4. \A i, j \in 1..Len(l) : i < j => l[i].lsn < l[j].lsn
  BY <1>2, <1>3 DEF Climbs
<1>5. \A i \in 1..Len(l) : l[i].lsn <= c
  <2>1. \A f \in Frames : f.lsn \in Nat
    BY DEF Frames
  <2>2. \A i \in 1..Len(l) : l[i].lsn < c + 1 /\ l[i].lsn \in Nat
    BY <1>2, <1>3, <2>1 DEF Climbs
  <2> QED BY <2>2
<1>6. im \o Climbing(l, c) = im
  BY <1>4, <1>5, ImageAlone
<1> QED BY <1>1, <1>2, <1>3, <1>6 DEF Kept, Disk, DiskWith

LEMMA TruncateStep ==
    ASSUME TypeInv, TypeInv', Honest, Truncate
    PROVE  Honest'
<1>1. /\ mode = "up" /\ ckpt /\ ~ckpt' /\ MemoryInv
      /\ UNCHANGED <<mode, nextLsn, durable, image, covered, txnVars, waitVars, histVars>>
      /\ \/ log' = <<>> /\ stray' = FALSE
         \/ UNCHANGED <<log, stray>>
  BY DEF Truncate, Honest
<1>2. PromiseInv' /\ mode' = "up"
  BY <1>1 DEF Honest, PromiseInv, PromiseOf, Ended, txnVars, histVars
<1>3. MemoryInv'
  <2>1. \A t \in Txn : MemoryOf(t) /\ status[t] # "refused"
    BY <1>1 DEF MemoryInv, Running
  <2>2. \A t \in Txn : MemoryOf(t)'
    BY <1>1, <2>1 DEF MemoryOf, txnVars, waitVars, histVars
  <2> QED BY <1>1, <2>2 DEF MemoryInv
<1>4. ASSUME ~stray' PROVE Climbs' /\ \E d1 : d1 = Kept' /\ DiskInv(d1)'
  <2>1. Climbs'
    BY <1>4, TruncateKept
  <2>2. PICK d : d = image /\ DiskInv(d)
    BY <1>1 DEF Honest, Kept
  <2>3. d = Kept'
    BY <1>4, <2>2, TruncateKept
  <2>4. d \in Seq(Records)
    BY <2>2 DEF TypeInv, LogType
  <2>5. \A u, k, n : Marked(d, u, k, n) => Marked(d, u, k, n)'
    <3> SUFFICES ASSUME NEW u, NEW k, NEW n, Marked(d, u, k, n) PROVE Marked(d, u, k, n)'
      OBVIOUS
    <3>1. PICK p \in 1..Len(d) : Is(d[p], u, k) /\ p <= Len(d)
      BY <2>4 DEF Marked
    <3>2. Safe(d, p)'
      BY <1>1, <2>2, <3>1 DEF Safe
    <3> QED BY <3>1, <3>2 DEF Marked, Is
  <2>6. CutInv(d) /\ Kinds(d) /\ Owed(d)
    BY <1>1, <2>2 DEF DiskInv
  <2>7. Folds(d)' /\ Kinds(d)'
    BY <1>1, <2>6 DEF CutInv, Folds, Kinds, KindOk, txnVars, histVars
  <2>8. Owed(d)'
    <3> SUFFICES ASSUME NEW u \in Txn \ folded PROVE OwedOf(d, u)'
      BY <1>1 DEF Owed, histVars
    <3>1. OwedOf(d, u)
      BY <2>6 DEF Owed
    <3> QED BY <1>1, <2>5, <3>1 DEF OwedOf, txnVars, waitVars, histVars
  <2>9. Cuts(d)'
    BY <2>6 DEF CutInv, Cuts, Once, OneWay, Locked, Handed
  <2> QED BY <1>2, <2>1, <2>3, <2>7, <2>8, <2>9 DEF DiskInv, CutInv
<1> QED BY <1>1, <1>2, <1>3, <1>4, Closes

-----------------------------------------------------------------------------
(* Crash and recovery                                                      *)

\* A crash leaves a cut of the disk, with all that was safe.
LEMMA CrashCuts ==
    ASSUME TypeInv, TypeInv', Honest, Crash, ~stray, NEW d, d = Kept
    PROVE  \E d1, m : /\ d1 = Kept' /\ d1 \in Seq(Records) /\ m \in 0..Len(d) /\ Len(d1) = m
                      /\ \A p \in 1..m : d1[p] = d[p]
                      /\ \A p \in 1..Len(d) : Safe(d, p) => p <= m
<1>1. PICK l \in Seq(Frames), im \in Seq(Records), c \in Nat, u \in Nat, M \in Nat, L \in Nat :
          l = log /\ im = image /\ c = covered /\ u = durable /\ M = Len(im) /\ L = Len(l)
  <2>1. covered \in Nat /\ durable \in Nat
    BY TwoPhaseAssumption DEF TypeInv, LogType
  <2>2. Len(log) \in Nat /\ Len(image) \in Nat
    BY DEF TypeInv, LogType
  <2> QED BY <2>1, <2>2 DEF TypeInv, LogType
<1>2. PICK k \in 0..L : /\ \A i \in 1..L : l[i].lsn <= u => i <= k
                        /\ log' = SubSeq(l, 1, k)
  BY <1>1 DEF Crash
<1>3. PICK l1 \in Seq(Frames) : l1 = log' /\ Len(l1) = k /\ \A i \in 1..k : l1[i] = l[i]
  <2>1. log' \in Seq(Frames)
    BY DEF TypeInv, LogType
  <2> QED BY <1>1, <1>2, <2>1
<1>4. /\ \A i, j \in 1..L : i < j => l[i].lsn < l[j].lsn
      /\ Climbs /\ \A i \in 1..L : l[i].lsn < nextLsn
  BY <1>1 DEF Honest, Climbs
<1>5. \A i \in 1..k : i \in 1..L
  BY <1>1, <1>2
<1>6. \A i, j \in 1..k : i < j => l1[i].lsn < l1[j].lsn
  BY <1>3, <1>4, <1>5
<1>7. PICK d1 : d1 = im \o Climbing(l1, c)
  OBVIOUS
<1>8. d1 = Kept'
  BY <1>1, <1>3, <1>7 DEF Crash, Kept, Disk, DiskWith
<1>9. CASE ckpt
  <2>1. d = im
    BY <1>1, <1>9 DEF Kept
  <2>2. nextLsn = c + 1
    BY <1>1, <1>9, TwoPhaseAssumption DEF Honest, Crash, MemoryInv, TypeInv, LogType
  <2>3. \A i \in 1..k : l1[i].lsn <= c
    <3>1. \A f \in Frames : f.lsn \in Nat
      BY DEF Frames
    <3>2. \A i \in 1..k : l1[i].lsn < c + 1 /\ l1[i].lsn \in Nat
      BY <1>3, <1>4, <1>5, <2>2, <3>1
    <3> QED BY <3>2
  <2>4. d1 = im
    BY <1>3, <1>6, <1>7, <2>3, ImageAlone
  <2>5. \A p \in 1..M : p <= M
    BY <1>1
  <2>6. M \in 0..M
    BY <1>1
  <2> QED BY <1>1, <1>8, <2>1, <2>4, <2>5, <2>6
<1>10. CASE ~ckpt
  <2>1. d = im \o Climbing(l, c)
    BY <1>1, <1>10 DEF Kept, Disk, DiskWith
  <2>2. PICK n \in 0..L : Joined(im, l, c, d, n)
    <3>1. \A i, j \in 1..Len(l) : i < j => l[i].lsn < l[j].lsn
      BY <1>1, <1>4
    <3>2. PICK n \in 0..Len(l) : Joined(im, l, c, im \o Climbing(l, c), n)
      BY <3>1, JoinIs
    <3> QED BY <1>1, <2>1, <3>2
  <2>3. PICK n1 \in 0..k : Joined(im, l1, c, d1, n1)
    <3>1. \A i, j \in 1..Len(l1) : i < j => l1[i].lsn < l1[j].lsn
      BY <1>3, <1>6
    <3>2. PICK n2 \in 0..Len(l1) : Joined(im, l1, c, im \o Climbing(l1, c), n2)
      BY <3>1, JoinIs
    <3> QED BY <1>3, <1>7, <3>2
  <2>4. /\ \A i \in 1..L : l[i].lsn > c <=> i > n
        /\ d \in Seq(Records) /\ Len(d) = M + L - n
        /\ \A p \in 1..M : d[p] = im[p]
        /\ \A i \in (n + 1)..L : d[M + i - n] = l[i].rec
    BY <1>1, <2>2 DEF Joined
  <2>5. /\ \A i \in 1..k : l1[i].lsn > c <=> i > n1
        /\ d1 \in Seq(Records) /\ Len(d1) = M + k - n1
        /\ \A p \in 1..M : d1[p] = im[p]
        /\ \A i \in (n1 + 1)..k : d1[M + i - n1] = l1[i].rec
    BY <1>1, <1>3, <2>3 DEF Joined
  <2>6. \A i \in 1..k : i > n <=> i > n1
    BY <1>3, <1>5, <2>4, <2>5
  <2>7. n1 = n \/ (n1 = k /\ k <= n)
    <3>1. CASE n >= k
      <4>1. ~(n1 < k)
        <5> SUFFICES ASSUME n1 < k PROVE FALSE
          OBVIOUS
        <5>1. k \in 1..k /\ k > n1 /\ ~(k > n)
          BY <3>1
        <5> QED BY <2>6, <5>1
      <4> QED BY <3>1, <4>1
    <3>2. CASE n < k
      <4>1. n1 <= n
        <5> SUFFICES ASSUME n1 > n PROVE FALSE
          OBVIOUS
        <5>1. n1 \in 1..k /\ ~(n1 > n1)
          OBVIOUS
        <5> QED BY <2>6, <5>1
      <4>2. n <= n1
        <5> SUFFICES ASSUME n > n1 PROVE FALSE
          OBVIOUS
        <5>1. n \in 1..k /\ ~(n > n)
          BY <3>2
        <5> QED BY <2>6, <5>1
      <4> QED BY <4>1, <4>2
    <3> QED BY <3>1, <3>2
  <2>8. PICK m \in Nat, D \in Nat : m = M + k - n1 /\ D = M + L - n /\ M <= m /\ m <= D
    BY <2>7
  <2>9. \A p \in 1..m : d1[p] = d[p]
    <3> SUFFICES ASSUME NEW p \in 1..m PROVE d1[p] = d[p]
      OBVIOUS
    <3>1. CASE p \in 1..M
      BY <2>4, <2>5, <3>1
    <3>2. CASE ~(p \in 1..M)
      <4>1. n1 = n
        BY <2>7, <2>8, <3>2
      <4>2. PICK i \in (n + 1)..k : p = M + i - n
        <5>1. p - M + n \in (n + 1)..k /\ p = M + (p - M + n) - n
          BY <2>8, <3>2, <4>1
        <5> QED BY <5>1
      <4>3. i \in (n + 1)..L /\ i \in 1..k
        BY <4>2
      <4>4. d[M + i - n] = l[i].rec /\ d1[M + i - n] = l1[i].rec
        BY <2>4, <2>5, <4>1, <4>2, <4>3
      <4> QED BY <1>3, <4>2, <4>3, <4>4
    <3> QED BY <3>1, <3>2
  <2>10. \A p \in 1..D : Safe(d, p) => p <= m
    <3> SUFFICES ASSUME NEW p \in 1..D, Safe(d, p), p > m PROVE FALSE
      OBVIOUS
    <3>1. p > M
      BY <2>8
    <3>2. Lsn(d, p) = l[L - D + p].lsn
      BY <1>1, <2>4, <2>8 DEF Lsn
    <3>3. l[L - D + p].lsn <= u
      BY <1>1, <3>1, <3>2 DEF Safe
    <3>4. L - D + p \in 1..L
      BY <2>8, <3>1
    <3>5. L - D + p <= k
      BY <1>2, <3>3, <3>4
    <3> QED BY <2>7, <2>8, <3>1, <3>5
  <2>11. m \in 0..D /\ D = Len(d) /\ m = Len(d1)
    BY <2>4, <2>5, <2>8
  <2> QED BY <1>8, <2>5, <2>9, <2>10, <2>11
<1> QED BY <1>9, <1>10

\* What the disk says of a transaction.
Says(d, t) ==
    IF Has(d, t, "prepare") /\ ~Has(d, t, "abort") /\ ~Has(d, t, "commit") /\ ~Has(d, t, "image")
    THEN "prepared"
    ELSE IF t \in folded THEN status[t]
    ELSE IF (Has(d, t, "commit") \/ Has(d, t, "image")) /\ ~Has(d, t, "abort") THEN "committed"
    ELSE IF t < nextTxn THEN "aborted" ELSE "none"

LEMMA OnDiskIs ==
    ASSUME NEW frames, NEW d \in Seq(Records), d = DiskWith(frames), NEW t \in Txn
    PROVE  OnDisk(frames)[t] = Says(d, t)
<1>1. /\ DOMAIN Replay(d, Empty).prepared =
                {u \in Txn : Has(d, u, "prepare") /\ ~Has(d, u, "abort")
                             /\ ~Has(d, u, "commit") /\ ~Has(d, u, "image")}
      /\ \A u \in Txn : u \in Committed(d) <=>
                (Has(d, u, "commit") \/ Has(d, u, "image")) /\ ~Has(d, u, "abort")
  BY ReplayedAre
<1>2. OnDisk(frames) = [u \in Txn |-> IF u \in DOMAIN Replay(d, Empty).prepared THEN "prepared"
                       ELSE IF u \in folded THEN status[u]
                       ELSE IF u \in Committed(d) THEN "committed"
                       ELSE IF u < nextTxn THEN "aborted" ELSE "none"]
  BY DEF OnDisk
<1>3. /\ t \in DOMAIN Replay(d, Empty).prepared <=>
             (Has(d, t, "prepare") /\ ~Has(d, t, "abort") /\ ~Has(d, t, "commit") /\ ~Has(d, t, "image"))
      /\ t \in Committed(d) <=> ((Has(d, t, "commit") \/ Has(d, t, "image")) /\ ~Has(d, t, "abort"))
  BY <1>1
<1> QED BY <1>2, <1>3 DEF Says

\* The disk before and after, and where every transaction then stands.
LEMMA CrashSays ==
    ASSUME TypeInv, TypeInv', Honest, Crash, ~stray
    PROVE  \E d, d1, m :
              /\ d = Kept /\ DiskInv(d)
              /\ d1 = Kept' /\ d1 \in Seq(Records) /\ d \in Seq(Records)
              /\ m \in 0..Len(d) /\ Len(d1) = m
              /\ \A p \in 1..m : d1[p] = d[p]
              /\ \A p \in 1..Len(d) : Safe(d, p) => p <= m
              /\ \A t \in Txn : status'[t] = Says(d1, t)
<1>1. PICK d : d = Kept
  OBVIOUS
<1>2. PICK d1, m : /\ d1 = Kept' /\ d1 \in Seq(Records) /\ m \in 0..Len(d) /\ Len(d1) = m
                   /\ \A p \in 1..m : d1[p] = d[p]
                   /\ \A p \in 1..Len(d) : Safe(d, p) => p <= m
  BY <1>1, CrashCuts
<1>3. DiskInv(d) /\ Climbs
  BY <1>1 DEF Honest
<1>4. d \in Seq(Records)
  BY <1>1, <1>3, KeptIs DEF TypeInv
<1>5. PICK l1 : l1 = log' /\ status' = OnDisk(l1) /\ d1 = DiskWith(l1)
  BY <1>2 DEF Crash, Kept, Disk, DiskWith
<1>6. \A t \in Txn : status'[t] = Says(d1, t)
  BY <1>2, <1>5, OnDiskIs
<1> QED BY <1>1, <1>2, <1>3, <1>4, <1>6

\* A record that is marked and awaited at no position survives a crash.
LEMMA SurvivesCrash ==
    ASSUME TypeInv, NEW d \in Seq(Records), Len(d) <= Len(image) + Len(log),
           NEW m \in 0..Len(d), NEW d1, Len(d1) = m, \A p \in 1..m : d1[p] = d[p],
           \A p \in 1..Len(d) : Safe(d, p) => p <= m,
           NEW t, NEW k, Marked(d, t, k, 0)
    PROVE  Has(d1, t, k)
<1>1. PICK D \in Nat, M \in Nat, L \in Nat :
          D = Len(d) /\ M = Len(image) /\ L = Len(log) /\ D <= M + L
  BY DEF TypeInv, LogType
<1>2. PICK p \in 1..D : Is(d[p], t, k) /\ (Safe(d, p) \/ Lsn(d, p) = 0)
  BY <1>1 DEF Marked
<1>3. Safe(d, p)
  <2>1. CASE p <= M
    BY <1>1, <2>1 DEF Safe
  <2>2. CASE ~(p <= M)
    <3>1. L - D + p \in 1..L
      BY <1>1, <2>2
    <3>2. log[L - D + p] \in Frames
      BY <1>1, <3>1 DEF TypeInv, LogType
    <3>3. Lsn(d, p) # 0
      BY <1>1, <3>2 DEF Lsn, Frames
    <3> QED BY <1>2, <3>3
  <2> QED BY <2>1, <2>2
<1>4. p \in 1..m
  BY <1>1, <1>2, <1>3
<1> QED BY <1>2, <1>4 DEF Has, Is

\* What a crash makes of one transaction, the disk it leaves being d1.
Falls(d1, t) ==
    /\ t \in folded => status'[t] = status[t]
    /\ t \notin folded =>
          /\ status'[t] = IF Has(d1, t, "commit") THEN "committed"
                          ELSE IF Has(d1, t, "prepare") /\ ~Has(d1, t, "abort") THEN "prepared"
                          ELSE IF t < nextTxn THEN "aborted" ELSE "none"
          /\ promised[t] = "prepared" => Has(d1, t, "prepare")
          /\ status[t] = "committed" => Has(d1, t, "commit")
          /\ status[t] = "aborted" => ~Has(d1, t, "prepare") \/ Has(d1, t, "abort")
    /\ Has(d1, t, "prepare") => status[t] \notin {"none", "running", "refused"}
    /\ Has(d1, t, "commit") => status[t] \in {"committing", "committed"} /\ ~Has(d1, t, "abort")
    /\ Has(d1, t, "abort") => status[t] \in {"aborting", "aborted"}

LEMMA CrashKnows ==
    ASSUME TypeInv, TypeInv', Honest, Crash, ~stray
    PROVE  \E d1 : /\ d1 = Kept' /\ d1 \in Seq(Records) /\ Cuts(d1) /\ Folds(d1)
                   /\ \A t \in Txn : Falls(d1, t)
<1>1. PICK d, d1, m :
              /\ d = Kept /\ DiskInv(d)
              /\ d1 = Kept' /\ d1 \in Seq(Records) /\ d \in Seq(Records)
              /\ m \in 0..Len(d) /\ Len(d1) = m
              /\ \A p \in 1..m : d1[p] = d[p]
              /\ \A p \in 1..Len(d) : Safe(d, p) => p <= m
              /\ \A t \in Txn : status'[t] = Says(d1, t)
  BY CrashSays
<1>2. mode = "up" /\ CutInv(d) /\ Kinds(d) /\ Owed(d) /\ PromiseInv /\ MemoryInv /\ Climbs
  BY <1>1 DEF Crash, DiskInv, Honest
<1>3. PICK D \in Nat : D = Len(d) /\ m \in 0..D
  BY <1>1
<1>4. Cuts(d1)
  BY <1>1, <1>2, <1>3, CutsCut DEF CutInv
<1>5. Folds(d1)
  <2>1. \A p \in 1..m : p \in 1..D
    BY <1>3
  <2> QED BY <1>1, <1>2, <1>3, <2>1 DEF CutInv, Folds
<1>6. ASSUME NEW t \in Txn PROVE Falls(d1, t)
  <2>1. \A k : Has(d1, t, k) => Has(d, t, k)
    <3>1. \A p \in 1..m : p \in 1..D
      BY <1>3
    <3> QED BY <1>1, <1>3, <3>1 DEF Has
  <2>2. \A k : Has(d1, t, k) => t < nextTxn /\ (t \in folded <=> k = "image")
    BY <1>5 DEF Folds, Has, Is
  <2>3. ~(Has(d1, t, "commit") /\ Has(d1, t, "abort"))
    BY <1>4 DEF Cuts, OneWay, Has, Is
  <2>4. PromiseOf(t) /\ MemoryOf(t) /\ t \in Nat /\ nextTxn \in Nat
    BY <1>2, TwoPhaseAssumption DEF PromiseInv, MemoryInv, Txn, TypeInv, TxnType
  <2>5. Has(d, t, "prepare") => status[t] # "running"
    BY <1>2 DEF Kinds, KindOk, Has, Is
  <2>6. Has(d, t, "commit") => status[t] \in {"committing", "committed"}
    BY <1>2 DEF Kinds, KindOk, Has, Is
  <2>7. Has(d, t, "abort") => status[t] \in {"aborting", "aborted"}
    BY <1>2 DEF Kinds, KindOk, Has, Is
  <2>8. Has(d1, t, "prepare") => status[t] \notin {"none", "running", "refused"}
    <3>1. t < nextTxn => status[t] # "none"
      BY <2>4 DEF PromiseOf
    <3>2. status[t] # "refused"
      BY <2>4 DEF MemoryOf
    <3> QED BY <2>1, <2>2, <2>5, <3>1, <3>2
  <2>9. t \in folded => status'[t] = status[t]
    BY <1>1, <2>2 DEF Says
  <2>10. t \notin folded =>
            status'[t] = IF Has(d1, t, "commit") THEN "committed"
                          ELSE IF Has(d1, t, "prepare") /\ ~Has(d1, t, "abort") THEN "prepared"
                          ELSE IF t < nextTxn THEN "aborted" ELSE "none"
    BY <1>1, <2>2, <2>3 DEF Says
  <2>11. ASSUME NEW k, Marked(d, t, k, 0) PROVE Has(d1, t, k)
    <3>1. Len(d) <= Len(image) + Len(log)
      BY <1>1, <1>2, KeptIs DEF TypeInv
    <3> QED BY <1>1, <2>11, <3>1, SurvivesCrash
  <2>12. ASSUME t \notin folded
         PROVE  /\ promised[t] = "prepared" => Has(d1, t, "prepare")
                /\ status[t] = "committed" => Has(d1, t, "commit")
                /\ status[t] = "aborted" => ~Has(d1, t, "prepare") \/ Has(d1, t, "abort")
    <3>1. OwedOf(d, t)
      BY <1>2, <2>12 DEF Owed
    <3>2. promised[t] = "prepared" => preparing[t] = 0
      BY <2>4 DEF MemoryOf
    <3>3. promised[t] = "prepared" => Marked(d, t, "prepare", 0)
      BY <3>1, <3>2 DEF OwedOf
    <3>4. status[t] = "committed" => Marked(d, t, "commit", 0)
      BY <3>1 DEF OwedOf
    <3>5. status[t] = "aborted" /\ Has(d, t, "prepare") => Marked(d, t, "abort", 0)
      BY <3>1 DEF OwedOf
    <3> QED BY <2>1, <2>11, <3>3, <3>4, <3>5
  <2> QED BY <2>1, <2>3, <2>6, <2>7, <2>8, <2>9, <2>10, <2>12 DEF Falls
<1> QED BY <1>1, <1>4, <1>5, <1>6

LEMMA CrashStep ==
    ASSUME TypeInv, TypeInv', Honest, Crash, ~stray
    PROVE  Honest'
<1>1. PICK d1 : /\ d1 = Kept' /\ d1 \in Seq(Records) /\ Cuts(d1) /\ Folds(d1)
                /\ \A t \in Txn : Falls(d1, t)
  BY CrashKnows
<1>2. /\ mode' = "down" /\ ~ckpt' /\ ~stray' /\ UNCHANGED <<nextLsn, nextTxn, promised, folded>>
  BY DEF Crash, histVars
<1>3. Climbs'
  <2>1. PICK l \in Seq(Frames), L \in Nat : l = log /\ L = Len(l)
    BY DEF TypeInv, LogType
  <2>2. PICK k \in 0..L : log' = SubSeq(l, 1, k)
    BY <2>1 DEF Crash
  <2>3. Len(log') = k /\ \A i \in 1..k : log'[i] = l[i] /\ i \in 1..L
    BY <2>1, <2>2
  <2>4. /\ \A i, j \in 1..L : i < j => l[i].lsn < l[j].lsn
        /\ \A i \in 1..L : l[i].lsn < nextLsn
    BY <2>1 DEF Honest, Climbs
  <2> QED BY <1>2, <2>3, <2>4 DEF Climbs
<1>4. ASSUME NEW t \in Txn PROVE PromiseOf(t)'
  <2>1. PromiseOf(t) /\ Falls(d1, t) /\ t \in Nat /\ nextTxn \in Nat
    BY <1>1, TwoPhaseAssumption DEF Honest, PromiseInv, Txn, TypeInv, TxnType
  <2>2. \A k : Has(d1, t, k) => t < nextTxn
    BY <1>1 DEF Folds, Has, Is
  <2>3. t < nextTxn <=> ~(t >= nextTxn)
    BY <2>1
  <2> QED BY <1>2, <2>1, <2>2, <2>3 DEF PromiseOf, Falls, Ended
<1>5. CutInv(d1)'
  <2>1. Folds(d1)'
    BY <1>1, <1>2 DEF Folds
  <2> QED BY <1>1, <2>1 DEF CutInv, Cuts, Once, OneWay, Locked, Handed
<1>6. DownInv(d1)'
  <2> SUFFICES ASSUME NEW t \in Txn \ folded
               PROVE  /\ t < nextTxn => status'[t] \in {"prepared", "committed", "aborted"}
                      /\ status'[t] = "prepared" <=> Has(d1, t, "prepare") /\ ~Has(d1, t, "commit")
                                                     /\ ~Has(d1, t, "abort")
                      /\ status'[t] = "committed" <=> Has(d1, t, "commit")
                      /\ promised[t] = "prepared" => Has(d1, t, "prepare")
    BY <1>2 DEF DownInv, Has, Is
  <2> QED BY <1>1 DEF Falls
<1>7. DiskInv(d1)'
  BY <1>2, <1>5, <1>6 DEF DiskInv
<1> QED BY <1>1, <1>2, <1>3, <1>4, <1>7 DEF Honest, PromiseInv

\* What recovery finds: the transactions the table has as prepared, each with the
\* name and the locks of its one record, no two of them sharing any.
Found(d, p) ==
    /\ DOMAIN p = {t \in Txn : status[t] = "prepared"}
    /\ \A t \in DOMAIN p :
          /\ \E i \in 1..Len(d) : /\ Is(d[i], t, "prepare") /\ p[t].gid = d[i].gid
                                  /\ p[t].locks = d[i].locks /\ p[t].seq = i
          /\ p[t].gid \in Gid /\ p[t].locks \subseteq Row
          /\ DOMAIN p[t].sets \subseteq p[t].locks
    /\ \A t, u \in DOMAIN p : p[t].gid = p[u].gid \/ p[t].locks \cap p[u].locks # {} => t = u

LEMMA RecoveredIs ==
    ASSUME TypeInv, Honest, mode = "down"
    PROVE  \E d : /\ d = Kept /\ d \in Seq(Records) /\ CutInv(d) /\ DownInv(d) /\ Climbs
                  /\ Len(d) <= Len(image) + Len(log)
                  /\ Found(d, Recovered.prepared)
<1>1. PICK d : d = Kept
  OBVIOUS
<1>2. Climbs /\ DiskInv(d) /\ ~ckpt /\ PromiseInv
  BY <1>1 DEF Honest
<1>3. CutInv(d) /\ DownInv(d) /\ Cuts(d) /\ Folds(d)
  BY <1>2 DEF DiskInv, CutInv
<1>4. d \in Seq(Records) /\ Len(d) <= Len(image) + Len(log)
  BY <1>1, <1>2, KeptIs DEF TypeInv
<1>5. PICK p : p = Recovered.prepared
  OBVIOUS
<1>6. p = Replay(d, Empty).prepared
  BY <1>1, <1>2, <1>5 DEF Recovered, Kept, Disk
<1>7. /\ DOMAIN p = {t \in Txn : Has(d, t, "prepare") /\ ~Has(d, t, "abort")
                                 /\ ~Has(d, t, "commit") /\ ~Has(d, t, "image")}
      /\ \A t \in DOMAIN p : p[t] = Waiter(d, t)
  BY <1>4, <1>6, ReplayedAre
<1>8. DOMAIN p = {t \in Txn : status[t] = "prepared"}
  <2> SUFFICES ASSUME NEW t \in Txn PROVE t \in DOMAIN p <=> status[t] = "prepared"
    BY <1>7
  <2>1. \A k : Has(d, t, k) => (t \in folded <=> k = "image")
    BY <1>3 DEF Folds, Has, Is
  <2>2. t \in folded => status[t] # "prepared"
    BY <1>2 DEF PromiseInv, PromiseOf, Ended
  <2>3. t \notin folded =>
            (status[t] = "prepared" <=> Has(d, t, "prepare") /\ ~Has(d, t, "commit") /\ ~Has(d, t, "abort"))
    BY <1>3 DEF DownInv
  <2> QED BY <1>7, <2>1, <2>2, <2>3
<1>9. ASSUME NEW t \in DOMAIN p
      PROVE  /\ \E i \in 1..Len(d) : /\ Is(d[i], t, "prepare") /\ p[t].gid = d[i].gid
                                     /\ p[t].locks = d[i].locks /\ p[t].seq = i
             /\ p[t].gid \in Gid /\ p[t].locks \subseteq Row
             /\ DOMAIN p[t].sets \subseteq p[t].locks
  <2>1. t \in Txn /\ Has(d, t, "prepare") /\ p[t] = Waiter(d, t)
    BY <1>7
  <2>2. /\ \E i \in 1..Len(d) : /\ Is(d[i], t, "prepare") /\ p[t].gid = d[i].gid
                                /\ p[t].locks = d[i].locks /\ p[t].seq = i
        /\ \A r \in DOMAIN p[t].sets :
                 \E i \in 1..Len(d) : Is(d[i], t, "op") /\ d[i].row = r
    BY <1>4, <2>1, WaiterIs
  <2>3. PICK i \in 1..Len(d) : /\ Is(d[i], t, "prepare") /\ p[t].gid = d[i].gid
                               /\ p[t].locks = d[i].locks /\ p[t].seq = i
    BY <2>2
  <2>4. d[i] \in Records
    BY <1>4
  <2>5. d[i].gid \in Gid /\ d[i].locks \subseteq Row
    BY <2>3, <2>4 DEF Is, Records
  <2>6. DOMAIN p[t].sets \subseteq d[i].locks
    BY <1>3, <2>2, <2>3 DEF Cuts, Locked, Is
  <2> QED BY <2>2, <2>3, <2>5, <2>6
<1>10. ASSUME NEW i \in 1..Len(d), NEW j \in 1..Len(d), i < j,
              d[i].kind = "prepare", d[j].kind = "prepare",
              d[i].txn \in DOMAIN p, d[i].gid = d[j].gid \/ d[i].locks \cap d[j].locks # {}
       PROVE  FALSE
  <2>1. PICK e \in 1..j : IsEnd(d[e]) /\ d[e].txn = d[i].txn
    BY <1>3, <1>10 DEF Cuts, Handed
  <2>2. e \in 1..Len(d)
    BY <1>4, <2>1
  <2>3. Has(d, d[i].txn, "commit") \/ Has(d, d[i].txn, "abort")
    BY <2>1, <2>2 DEF Has, Is, IsEnd
  <2> QED BY <1>7, <1>10, <2>3
<1>11. ASSUME NEW t \in DOMAIN p, NEW u \in DOMAIN p, t # u,
              p[t].gid = p[u].gid \/ p[t].locks \cap p[u].locks # {}
       PROVE  FALSE
  <2>1. PICK i \in 1..Len(d) : Is(d[i], t, "prepare") /\ p[t].gid = d[i].gid /\ p[t].locks = d[i].locks
    BY <1>9
  <2>2. PICK j \in 1..Len(d) : Is(d[j], u, "prepare") /\ p[u].gid = d[j].gid /\ p[u].locks = d[j].locks
    BY <1>9
  <2>3. i # j /\ i \in Nat /\ j \in Nat
    BY <1>4, <1>11, <2>1, <2>2 DEF Is
  <2>4. CASE i < j
    BY <1>10, <1>11, <2>1, <2>2, <2>4 DEF Is
  <2>5. CASE j < i
    <3>1. p[u].gid = p[t].gid \/ p[u].locks \cap p[t].locks # {}
      BY <1>11
    <3> QED BY <1>10, <2>1, <2>2, <2>5, <3>1 DEF Is
  <2> QED BY <2>3, <2>4, <2>5
<1>12. Found(d, p)
  BY <1>8, <1>9, <1>11 DEF Found
<1> QED BY <1>1, <1>2, <1>3, <1>4, <1>5, <1>12

LEMMA RefuseStep ==
    ASSUME TypeInv, Honest, RefuseClash
    PROVE  FALSE
<1>1. PICK d : Found(d, Recovered.prepared)
  BY RecoveredIs DEF RefuseClash
<1> QED BY <1>1 DEF RefuseClash, LocksClash, Found

\* Recovered transactions are back under their own names and locks.
LEMMA GivenBack ==
    ASSUME NEW d \in Seq(Records), NEW p, Found(d, p), NEW t \in DOMAIN p
    PROVE  /\ \A r \in p[t].locks : LocksBack(p)[r] = t
           /\ LastUnder(p, p[t].gid) = t
<1>1. p[t].locks \subseteq Row /\ \A u \in DOMAIN p : p[u].gid = p[t].gid => u = t
  BY DEF Found
<1>2. ASSUME NEW r \in p[t].locks PROVE LocksBack(p)[r] = t
  <2>1. \A u \in DOMAIN p : r \in p[u].locks => u = t
    BY DEF Found
  <2>2. r \in Row
    BY <1>1
  <2>3. (CHOOSE u \in DOMAIN p : r \in p[u].locks) = t
    BY <2>1
  <2> QED BY <2>2, <2>3 DEF LocksBack
<1>3. p[t].seq \in 1..Len(d)
  BY DEF Found
<1>4. \A u \in DOMAIN p : p[u].gid = p[t].gid => p[u].seq <= p[t].seq
  <2>1. p[t].seq <= p[t].seq
    BY <1>3
  <2> QED BY <1>1, <2>1
<1>5. LastUnder(p, p[t].gid) = t
  BY <1>1, <1>4 DEF LastUnder
<1> QED BY <1>2, <1>5

\* After open everything it read is durable.
LEMMA EverySafe ==
    ASSUME TypeInv, UNCHANGED <<log, image>>, durable' = Top, NEW d \in Seq(Records),
           Len(d) <= Len(image) + Len(log), NEW x \in 1..Len(d)
    PROVE  Safe(d, x)'
<1>1. PICK D \in Nat, M \in Nat, L \in Nat :
          D = Len(d) /\ M = Len(image) /\ L = Len(log) /\ D <= M + L
  BY DEF TypeInv, LogType
<1>2. CASE x <= M
  BY <1>1, <1>2 DEF Safe
<1>3. CASE ~(x <= M)
  <2>1. L - D + x \in 1..L
    BY <1>1, <1>3
  <2>2. log[L - D + x].lsn <= Top
    BY <1>1, <2>1, TopIs DEF TypeInv
  <2>3. Lsn(d, x)' = log[L - D + x].lsn
    BY <1>1 DEF Lsn
  <2>4. Lsn(d, x)' <= durable'
    BY <2>2, <2>3
  <2> QED BY <2>4 DEF Safe
<1> QED BY <1>2, <1>3

LEMMA AllSafe ==
    ASSUME TypeInv, UNCHANGED <<log, image>>, durable' = Top, NEW d \in Seq(Records),
           Len(d) <= Len(image) + Len(log), NEW t, NEW k, NEW n, Has(d, t, k)
    PROVE  Marked(d, t, k, n)'
<1>1. PICK x \in 1..Len(d) : Is(d[x], t, k)
  BY DEF Has
<1>2. Safe(d, x)'
  BY EverySafe
<1> QED BY <1>1, <1>2 DEF Marked, Is

LEMMA RecoverStep ==
    ASSUME TypeInv, TypeInv', Honest, Recover
    PROVE  Honest'
<1>1. PICK d : /\ d = Kept /\ d \in Seq(Records) /\ CutInv(d) /\ DownInv(d) /\ Climbs
               /\ Len(d) <= Len(image) + Len(log)
               /\ Found(d, Recovered.prepared)
  BY RecoveredIs DEF Recover
<1>2. PICK p : p = Recovered.prepared /\ Found(d, p)
  BY <1>1
<1>3. /\ mode = "down" /\ mode' = "up" /\ lock' = LocksBack(p)
      /\ sets' = [t \in Txn |-> IF t \in DOMAIN p THEN p[t].sets ELSE <<>>]
      /\ gids' = [g \in Gid |-> IF \E t \in DOMAIN p : p[t].gid = g
                                THEN LastUnder(p, g) ELSE Nobody]
      /\ nextLsn' = Top + 1 /\ durable' = Top
      /\ preparing' = [t \in Txn |-> 0] /\ finishing' = [t \in Txn |-> 0]
      /\ UNCHANGED <<log, image, covered, ckpt, nextTxn, status, promised, folded, stray>>
  BY <1>2 DEF Recover, Top, boundVars
<1>4. ~stray /\ ~ckpt /\ PromiseInv
  BY <1>3 DEF Honest
<1>5. DOMAIN p = {t \in Txn : status[t] = "prepared"}
  BY <1>2 DEF Found
<1>6. \A t \in Txn : status[t] \in {"none", "prepared", "committed", "aborted"}
  <2> SUFFICES ASSUME NEW t \in Txn PROVE status[t] \in {"none", "prepared", "committed", "aborted"}
    OBVIOUS
  <2>1. PromiseOf(t) /\ (t < nextTxn \/ t >= nextTxn)
    BY <1>4, TwoPhaseAssumption DEF PromiseInv, Txn, TypeInv, TxnType
  <2>2. t \notin folded => (t < nextTxn => status[t] \in {"prepared", "committed", "aborted"})
    BY <1>1 DEF DownInv
  <2> QED BY <2>1, <2>2 DEF PromiseOf, Ended
<1>7. PromiseInv'
  BY <1>3, <1>4 DEF PromiseInv, PromiseOf, Ended
<1>8. ASSUME NEW t \in Txn PROVE MemoryOf(t)'
  <2>1. t # Nobody /\ preparing'[t] = 0 /\ status'[t] = status[t] /\ status[t] # "refused"
    BY <1>3, <1>6, NobodyIs
  <2>2. ASSUME NEW g \in Gid, gids'[g] = t PROVE t \in DOMAIN p /\ p[t].gid = g
    <3>1. PICK u \in DOMAIN p : p[u].gid = g
      BY <1>3, <2>1, <2>2
    <3>2. gids'[g] = LastUnder(p, g)
      BY <1>3, <3>1
    <3>3. LastUnder(p, g) = u
      BY <1>1, <1>2, <3>1, GivenBack
    <3> QED BY <2>2, <3>1, <3>2, <3>3
  <2>3. ASSUME t \in DOMAIN p PROVE \E g \in Gid : gids'[g] = t
    <3>1. p[t].gid \in Gid /\ LastUnder(p, p[t].gid) = t
      <4>1. p[t].gid \in Gid
        BY <1>2, <2>3 DEF Found
      <4> QED BY <1>1, <1>2, <2>3, <4>1, GivenBack
    <3>2. gids'[p[t].gid] = t
      BY <1>3, <2>3, <3>1
    <3> QED BY <3>1, <3>2
  <2>4. \A r \in DOMAIN sets'[t] : lock'[r] = t
    <3>1. CASE t \in DOMAIN p
      <4>1. sets'[t] = p[t].sets /\ DOMAIN p[t].sets \subseteq p[t].locks
        BY <1>2, <1>3, <3>1 DEF Found
      <4>2. \A r \in p[t].locks : LocksBack(p)[r] = t
        BY <1>1, <1>2, <3>1, GivenBack
      <4> QED BY <1>3, <4>1, <4>2
    <3>2. CASE t \notin DOMAIN p
      <4>1. sets'[t] = <<>>
        BY <1>3, <3>2
      <4> QED BY <4>1
    <3> QED BY <3>1, <3>2
  <2>5. t \in DOMAIN p <=> status'[t] = "prepared"
    BY <1>5, <2>1
  <2> QED BY <2>1, <2>2, <2>3, <2>4, <2>5 DEF MemoryOf
<1>9. MemoryInv'
  BY <1>3, <1>4, <1>8 DEF MemoryInv
<1>10. Climbs'
  <2>1. Top \in Nat /\ \A i \in 1..Len(log) : log[i].lsn <= Top
    BY TopIs, TwoPhaseAssumption DEF TypeInv
  <2>2. \A i \in 1..Len(log) : log[i].lsn \in Nat
    <3>1. \A f \in Frames : f.lsn \in Nat
      BY DEF Frames
    <3> QED BY <3>1 DEF TypeInv, LogType
  <2>3. \A i \in 1..Len(log) : log[i].lsn < Top + 1
    BY <2>1, <2>2
  <2> QED BY <1>1, <1>3, <2>3 DEF Climbs
<1>11. CutInv(d)' /\ Folds(d) /\ Cuts(d)
  <2>1. Folds(d)'
    BY <1>1, <1>3 DEF CutInv, Folds
  <2> QED BY <1>1, <2>1 DEF CutInv, Cuts, Once, OneWay, Locked, Handed
<1>12. ASSUME NEW x \in 1..Len(d) PROVE KindOk(d[x])'
  <2>1. PICK rec \in Records : rec = d[x]
    BY <1>1
  <2>2. PICK t \in Txn : t = rec.txn
    BY DEF Records
  <2>3. t < nextTxn /\ (t \in folded <=> rec.kind = "image")
    BY <1>11, <2>1, <2>2 DEF Folds
  <2>4. Has(d, t, rec.kind)
    BY <2>1, <2>2 DEF Has, Is
  <2>5. ~(Has(d, t, "commit") /\ Has(d, t, "abort"))
    BY <1>11 DEF Cuts, OneWay, Has, Is
  <2>6. status[t] # "running"
    BY <1>6
  <2>7. rec.kind = "commit" => status[t] = "committed"
    BY <1>1, <2>3, <2>4 DEF DownInv
  <2>8. rec.kind = "abort" => status[t] = "aborted"
    BY <1>1, <2>3, <2>4, <2>5 DEF DownInv
  <2>9. ASSUME rec.kind = "prepare", status[t] = "prepared"
        PROVE  gids'[rec.gid] = t /\ \A r \in rec.locks : lock'[r] = t
    <3>1. t \in DOMAIN p
      BY <1>5, <2>9
    <3>2. PICK i \in 1..Len(d) : Is(d[i], t, "prepare") /\ p[t].gid = d[i].gid /\ p[t].locks = d[i].locks
      BY <1>2, <3>1 DEF Found
    <3>3. i = x
      BY <1>11, <2>1, <2>2, <2>9, <3>2 DEF Cuts, Once, Is
    <3>4. LastUnder(p, p[t].gid) = t /\ \A r \in p[t].locks : LocksBack(p)[r] = t
      BY <1>1, <1>2, <3>1, GivenBack
    <3>5. p[t].gid = rec.gid /\ p[t].locks = rec.locks /\ rec.gid \in Gid
      BY <1>2, <2>1, <3>1, <3>2, <3>3 DEF Found
    <3>6. gids'[rec.gid] = LastUnder(p, rec.gid)
      BY <1>3, <3>1, <3>5
    <3> QED BY <1>3, <3>4, <3>5, <3>6
  <2>10. KindOk(rec)'
    BY <1>3, <2>2, <2>6, <2>7, <2>8, <2>9 DEF KindOk
  <2> QED BY <2>1, <2>10
<1>13. ASSUME NEW t \in Txn \ folded PROVE OwedOf(d, t)'
  <2>1. \A k, n : Has(d, t, k) => Marked(d, t, k, n)'
    BY <1>1, <1>3, AllSafe
  <2>2. /\ status[t] = "prepared" <=> Has(d, t, "prepare") /\ ~Has(d, t, "commit") /\ ~Has(d, t, "abort")
        /\ status[t] = "committed" <=> Has(d, t, "commit")
        /\ promised[t] = "prepared" => Has(d, t, "prepare")
    BY <1>1 DEF DownInv
  <2>3. status[t] \notin {"committing", "aborting"} /\ preparing'[t] = 0
    BY <1>3, <1>6
  <2>4. Has(d, t, "prepare")' <=> Has(d, t, "prepare")
    BY DEF Has, Is
  <2> QED BY <1>3, <2>1, <2>2, <2>3, <2>4 DEF OwedOf
<1>14. DiskInv(d)'
  <2>1. Kinds(d)' /\ Owed(d)'
    BY <1>3, <1>12, <1>13 DEF Kinds, Owed
  <2> QED BY <1>3, <1>11, <2>1 DEF DiskInv
<1>15. d = Kept'
  BY <1>1, <1>3 DEF Kept, Disk, DiskWith
<1> QED BY <1>3, <1>4, <1>7, <1>9, <1>10, <1>14, <1>15, Closes

-----------------------------------------------------------------------------
(* The invariant                                                           *)

LEMMA Starts == Init => TwoPhaseInv
<1> SUFFICES ASSUME Init PROVE TwoPhaseInv
  OBVIOUS
<1>1. TypeInv
  BY TypeStart
<1>2. ~stray /\ ~ckpt /\ mode = "up"
  BY DEF Init
<1>3. Len(log) = 0 /\ Len(image) = 0
  BY DEF Init
<1>4. Climbs
  BY <1>3 DEF Climbs
<1>5. PICK d : d = Kept
  OBVIOUS
<1>6. Len(d) = 0
  <2>1. Kept \in Seq(Records) /\ Len(Kept) <= Len(image) + Len(log)
    BY <1>1, <1>4, KeptIs DEF TypeInv
  <2>2. Len(d) \in Nat /\ Len(d) <= 0 + 0
    BY <1>3, <1>5, <2>1
  <2> QED BY <2>2
<1>7. \A t \in Txn : /\ status[t] = "none" /\ sets[t] = <<>> /\ preparing[t] = 0
                     /\ promised[t] = "open"
  BY DEF Init
<1>8. \A g \in Gid : gids[g] = Nobody
  BY DEF Init
<1>9. PromiseInv
  <2> SUFFICES ASSUME NEW t \in Txn PROVE PromiseOf(t)
    BY DEF PromiseInv
  <2>1. t >= nextTxn /\ t \notin folded
    BY DEF Init, Txn
  <2> QED BY <1>7, <2>1 DEF PromiseOf
<1>10. MemoryInv
  <2> SUFFICES ASSUME NEW t \in Txn PROVE MemoryOf(t)
    BY <1>2 DEF MemoryInv
  <2>1. t # Nobody
    BY NobodyIs
  <2> QED BY <1>7, <1>8, <2>1 DEF MemoryOf
<1>11. DiskInv(d)
  <2>1. CutInv(d) /\ Kinds(d)
    BY <1>6 DEF CutInv, Cuts, Once, OneWay, Locked, Handed, Folds, Kinds
  <2>2. Owed(d)
    BY <1>7 DEF Owed, OwedOf
  <2> QED BY <1>2, <2>1, <2>2 DEF DiskInv
<1>12. Honest
  BY <1>2, <1>4, <1>5, <1>9, <1>10, <1>11 DEF Honest
<1> QED BY <1>1, <1>12 DEF TwoPhaseInv

\* What was misread once stays misread, and a clean crash reads nothing stray.
LEMMA MisreadStays ==
    ASSUME [Next]_vars
    PROVE  /\ misread => misread'
           /\ Crash /\ ~misread' => ~stray
<1>1. ASSUME NEW t \in Txn, Session(t) PROVE misread' = misread
  <2>1. ASSUME NEW g \in Gid, PrepareAppendFails(t, g) PROVE misread' = misread
    BY <2>1 DEF PrepareAppendFails, LoggedInPart
  <2> QED BY <1>1, <2>1 DEF Session, Begin, Rollback, CommitStage, PrepareRefused, LockRow,
             Write, Unwrite, PrepareTxn, boundVars
<1>2. ASSUME NEW t \in Txn, Engine(t) PROVE misread' = misread
  BY <1>2 DEF Engine, PrepareReturns, PrepareAborted, Committed1, Undo1, boundVars
<1>3. ASSUME NEW g \in Gid, FinishCommit(g) \/ FinishRollback(g) \/ FinishAppendFails(g)
      PROVE  misread' = misread
  BY <1>3 DEF FinishCommit, FinishRollback, FinishAppendFails, LoggedInPart, boundVars
<1>4. ASSUME Fsync \/ Publish \/ Truncate \/ Recover \/ RefuseClash PROVE misread' = misread
  BY <1>4 DEF Fsync, Publish, Truncate, Recover, RefuseClash, boundVars
<1>5. Crash => (misread' <=> misread \/ stray)
  BY DEF Crash
<1>6. CASE UNCHANGED vars
  BY <1>5, <1>6 DEF vars, boundVars
<1> QED BY <1>1, <1>2, <1>3, <1>4, <1>5, <1>6 DEF Next

LEMMA HonestSession ==
    ASSUME TypeInv, TypeInv', Honest, NEW t \in Txn, Session(t) \/ Engine(t)
    PROVE  Honest'
<1>1. ASSUME NEW r \in Row, LockRow(t, r) \/ Write(t, r) \/ Unwrite(t, r) PROVE Honest'
  BY <1>1, LockRowStep, WriteStep
<1>2. ASSUME NEW g \in Gid, PrepareTxn(t, g) \/ PrepareAppendFails(t, g) PROVE Honest'
  BY <1>2, PrepareStep, PrepareFailsStep
<1>3. ASSUME Begin(t) \/ CommitStage(t) PROVE Honest'
  BY <1>3, BeginStep, CommitStageStep
<1>4. ASSUME Rollback(t) \/ PrepareRefused(t) \/ PrepareAborted(t) PROVE Honest'
  BY <1>4, AbortStep
<1>5. ASSUME PrepareReturns(t) \/ Committed1(t) \/ Undo1(t) PROVE Honest'
  BY <1>5, AnswerStep
<1> QED BY <1>1, <1>2, <1>3, <1>4, <1>5 DEF Session, Engine

LEMMA HonestStep ==
    ASSUME TypeInv, TypeInv', Honest, [Next]_vars, ~misread'
    PROVE  Honest'
<1>1. ASSUME NEW t \in Txn, Session(t) \/ Engine(t) PROVE Honest'
  BY <1>1, HonestSession
<1>2. ASSUME NEW g \in Gid, FinishCommit(g) \/ FinishRollback(g) \/ FinishAppendFails(g)
      PROVE  Honest'
  BY <1>2, FinishStep, FinishFailsStep
<1>3. CASE Fsync
  BY <1>3, FsyncStep
<1>4. CASE Publish
  BY <1>4, PublishStep
<1>5. CASE Truncate
  BY <1>5, TruncateStep
<1>6. CASE Crash
  BY <1>6, CrashStep, MisreadStays
<1>7. CASE Recover
  BY <1>7, RecoverStep
<1>8. CASE RefuseClash
  BY <1>8, RefuseStep
<1>9. CASE UNCHANGED vars
  <2>1. PICK d : d = Kept
    OBVIOUS
  <2>2. d = Kept'
    BY <1>9, <2>1 DEF vars, logVars, Kept, Disk, DiskWith
  <2>3. DiskInv(d) => DiskInv(d)'
    BY <1>9 DEF vars, logVars, txnVars, waitVars, histVars, boundVars, DiskInv, CutInv, Cuts, Once,
          OneWay, Locked, Handed, Folds, Kinds, KindOk, Owed, OwedOf, Marked, Safe, Lsn, Has, Is,
          IsEnd, DownInv
  <2>4. PromiseInv => PromiseInv'
    BY <1>9 DEF vars, txnVars, histVars, PromiseInv, PromiseOf, Ended
  <2>5. MemoryInv => MemoryInv'
    BY <1>9 DEF vars, logVars, txnVars, waitVars, histVars, boundVars, MemoryInv, MemoryOf, Running
  <2>6. Climbs => Climbs'
    BY <1>9 DEF vars, logVars, Climbs
  <2>7. UNCHANGED <<mode, stray, ckpt>>
    BY <1>9 DEF vars, logVars, boundVars
  <2> QED BY <2>1, <2>2, <2>3, <2>4, <2>5, <2>6, <2>7 DEF Honest
<1> QED BY <1>1, <1>2, <1>3, <1>4, <1>5, <1>6, <1>7, <1>8, <1>9 DEF Next

LEMMA TwoPhaseStep == TwoPhaseInv /\ [Next]_vars => TwoPhaseInv'
<1> SUFFICES ASSUME TwoPhaseInv, [Next]_vars PROVE TwoPhaseInv'
  OBVIOUS
<1>1. TypeInv /\ TypeInv'
  BY TypeStep DEF TwoPhaseInv
<1>2. ASSUME ~misread' PROVE Honest'
  <2>1. ~misread
    BY <1>2, MisreadStays
  <2>2. Honest
    BY <2>1 DEF TwoPhaseInv
  <2> QED BY <1>1, <1>2, <2>2, HonestStep
<1> QED BY <1>1, <1>2 DEF TwoPhaseInv

\* What clients were told, what the engine remembers and what the disk says fit
\* together in every state, as long as no restart has read the frame of an append
\* that failed (prepared.rs: prepare_txn, finish_prepared, park_prepared,
\* restore_prepared).
THEOREM TwoPhaseInvariant == Spec => []TwoPhaseInv
BY Starts, TwoPhaseStep, PTL DEF Spec

\* A prepared transaction is isolated until it ends, across restarts: it waits under
\* exactly one name and holds every row it wrote (prepare_txn, restore_prepared).
THEOREM TwoPhaseHolds == Spec => []PreparedIsHeld
<1>1. TwoPhaseInv => PreparedIsHeld
  <2> SUFFICES ASSUME TwoPhaseInv, mode = "up", ~misread
               PROVE  /\ Waiting = {t \in Txn : status[t] = "prepared"}
                      /\ \A g, h \in Gid : gids[g] = gids[h] /\ gids[g] # Nobody => g = h
                      /\ \A t \in Waiting : \A r \in DOMAIN sets[t] : lock[r] = t
    BY DEF PreparedIsHeld
  <2>1. \A t \in Txn : MemoryOf(t)
    BY DEF TwoPhaseInv, Honest, MemoryInv
  <2>2. \A g \in Gid : gids[g] # Nobody => gids[g] \in Txn
    BY DEF TwoPhaseInv, TypeInv, TxnType
  <2>3. Waiting = {t \in Txn : status[t] = "prepared"}
    BY <2>1 DEF MemoryOf, Waiting
  <2>4. \A g, h \in Gid : gids[g] = gids[h] /\ gids[g] # Nobody => g = h
    BY <2>1, <2>2 DEF MemoryOf
  <2>5. \A t \in Waiting : \A r \in DOMAIN sets[t] : lock[r] = t
    BY <2>1 DEF MemoryOf, Waiting
  <2> QED BY <2>3, <2>4, <2>5
<1> QED BY <1>1, TwoPhaseInvariant, PTL

\* No two transactions come back holding the same lock, so open never refuses the
\* database for it (restore_prepared).
THEOREM TwoPhaseOpens == Spec => []OpensAgain
<1>1. TwoPhaseInv => OpensAgain
  BY DEF TwoPhaseInv, Honest, OpensAgain
<1> QED BY <1>1, TwoPhaseInvariant, PTL

-----------------------------------------------------------------------------
(* It implements PreparedDecision                                          *)

\* The step's image in PreparedDecision, or a stutter.
Allowed == PD!Next \/ UNCHANGED <<Decision, promised>>

LEMMA DecisionIs ==
    /\ Decision \in [Txn -> PD!Decisions] \/ ~TypeInv
    /\ \A t \in Txn : Decision[t] = Stands(status[t])
<1>1. \A s \in Statuses : Stands(s) \in PD!Decisions
  BY DEF Stands, Statuses, PD!Decisions
<1>2. TypeInv => \A t \in Txn : status[t] \in Statuses
  BY DEF TypeInv, TxnType
<1> QED BY <1>1, <1>2 DEF Decision

LEMMA StandsIs ==
    /\ Stands("none") = "open" /\ Stands("running") = "open" /\ Stands("refused") = "open"
    /\ Stands("prepared") = "prepared"
    /\ Stands("committing") = "committed" /\ Stands("committed") = "committed"
    /\ Stands("aborting") = "aborted" /\ Stands("aborted") = "aborted"
BY DEF Stands

\* One transaction moves.
LEMMA Moves ==
    ASSUME TypeInv, NEW t \in Txn, NEW s, status' = [status EXCEPT ![t] = s]
    PROVE  Decision' = [Decision EXCEPT ![t] = Stands(s)]
<1>1. Decision' = [u \in Txn |-> Stands(status'[u])]
  BY DEF Decision
<1>2. \A u \in Txn : status'[u] = IF u = t THEN s ELSE status[u]
  BY DEF TypeInv, TxnType
<1>3. Decision = [u \in Txn |-> Stands(status[u])]
  BY DEF Decision
<1> QED BY <1>1, <1>2, <1>3

LEMMA Stays ==
    ASSUME TypeInv, NEW t \in Txn, NEW s, status' = [status EXCEPT ![t] = s],
           Stands(s) = Stands(status[t])
    PROVE  Decision' = Decision
<1>1. Decision' = [Decision EXCEPT ![t] = Stands(s)]
  BY Moves
<1>2. Decision = [u \in Txn |-> Stands(status[u])]
  BY DEF Decision
<1> QED BY <1>1, <1>2

LEMMA Forward ==
    ASSUME TypeInv, NEW t \in Txn, NEW s, status' = [status EXCEPT ![t] = s],
           \/ Stands(status[t]) = "open" /\ Stands(s) \in {"prepared", "committed", "aborted"}
           \/ Stands(status[t]) = "prepared" /\ Stands(s) \in {"committed", "aborted"}
    PROVE  /\ UNCHANGED promised => PD!Next
           /\ promised' = [promised EXCEPT ![t] = Stands(s)] => PD!Next
<1>1. Decision' = [Decision EXCEPT ![t] = Stands(s)] /\ Decision[t] = Stands(status[t])
  BY Moves, DecisionIs
<1>2. Stands(s) \in PD!After(Decision[t])
  BY <1>1 DEF PD!After
<1>3. Decision'[t] = Stands(s)
  BY <1>1 DEF Decision
<1>4. ASSUME UNCHANGED promised PROVE PD!Decide(t)
  BY <1>1, <1>2, <1>4 DEF PD!Decide
<1>5. ASSUME promised' = [promised EXCEPT ![t] = Stands(s)] PROVE PD!Report(t)
  BY <1>1, <1>2, <1>3, <1>5 DEF PD!Report
<1> QED BY <1>4, <1>5 DEF PD!Next

LEMMA SessionAllowed ==
    ASSUME TypeInv, Honest, NEW t \in Txn, Session(t)
    PROVE  Allowed
<1>1. CASE Begin(t)
  <2>1. status[t] = "none"
    <3>1. PromiseOf(t) /\ t = nextTxn
      BY <1>1 DEF Honest, PromiseInv, Begin
    <3>2. t >= nextTxn
      BY <3>1 DEF Txn
    <3> QED BY <3>1, <3>2 DEF PromiseOf
  <2>2. status' = [status EXCEPT ![t] = "running"] /\ promised' = promised
    BY <1>1 DEF Begin, histVars
  <2> QED BY <2>1, <2>2, Stays, StandsIs DEF Allowed
<1>2. CASE Rollback(t) \/ PrepareRefused(t)
  <2>1. /\ status[t] = "running" /\ status' = [status EXCEPT ![t] = "aborted"]
        /\ promised' = [promised EXCEPT ![t] = "aborted"]
    BY <1>2 DEF Rollback, PrepareRefused, Undone
  <2> QED BY <2>1, Forward, StandsIs DEF Allowed
<1>3. CASE CommitStage(t)
  <2>1. /\ status[t] = "running" /\ status' = [status EXCEPT ![t] = "committing"]
        /\ promised' = promised
    BY <1>3 DEF CommitStage
  <2> QED BY <2>1, Forward, StandsIs DEF Allowed
<1>4. ASSUME NEW r \in Row, LockRow(t, r) \/ Write(t, r) \/ Unwrite(t, r) PROVE Allowed
  <2>1. status' = status /\ promised' = promised
    BY <1>4 DEF LockRow, Write, Unwrite, histVars
  <2> QED BY <2>1 DEF Allowed, Decision
<1>5. ASSUME NEW g \in Gid, PrepareTxn(t, g) PROVE Allowed
  <2>1. /\ status[t] = "running" /\ status' = [status EXCEPT ![t] = "prepared"]
        /\ promised' = promised
    BY <1>5 DEF PrepareTxn, histVars
  <2> QED BY <2>1, Forward, StandsIs DEF Allowed
<1>6. ASSUME NEW g \in Gid, PrepareAppendFails(t, g) PROVE Allowed
  <2>1. /\ status[t] = "running" /\ status' = [status EXCEPT ![t] = "refused"]
        /\ promised' = promised
    BY <1>6 DEF PrepareAppendFails, histVars
  <2> QED BY <2>1, Stays, StandsIs DEF Allowed
<1> QED BY <1>1, <1>2, <1>3, <1>4, <1>5, <1>6 DEF Session

LEMMA EngineAllowed ==
    ASSUME TypeInv, Honest, NEW t \in Txn, Engine(t)
    PROVE  Allowed
<1>1. /\ PromiseOf(t) /\ (mode = "up" => MemoryOf(t))
      /\ promised \in [Txn -> {"open", "prepared", "committed", "aborted"}]
      /\ status[t] \in Statuses
  BY DEF Honest, PromiseInv, MemoryInv, TypeInv, HistType, TxnType
<1>2. CASE PrepareReturns(t)
  <2>1. mode = "up" /\ preparing[t] # 0 /\ status' = status /\ Told(t, "prepared")
    BY <1>2 DEF PrepareReturns, Up, txnVars
  <2>2. Decision' = Decision
    BY <2>1 DEF Decision
  <2>3. status[t] \notin {"none", "running", "refused"} /\ promised[t] # "prepared"
    BY <1>1, <2>1 DEF MemoryOf
  <2>4. CASE promised[t] \in {"committed", "aborted"}
    <3>1. promised' = promised
      BY <1>1, <2>1, <2>4 DEF Told
    <3> QED BY <2>2, <3>1 DEF Allowed
  <2>5. CASE promised[t] = "open"
    <3>1. promised' = [promised EXCEPT ![t] = "prepared"]
      BY <2>1, <2>5 DEF Told
    <3>2. Decision[t] # "open"
      <4>1. Decision[t] = Stands(status[t])
        BY DecisionIs
      <4> QED BY <1>1, <2>3, <4>1, StandsIs DEF Statuses
    <3>3. PD!Report(t)
      BY <2>2, <2>5, <3>1, <3>2 DEF PD!Report
    <3> QED BY <3>3 DEF Allowed, PD!Next
  <2> QED BY <1>1, <2>3, <2>4, <2>5
<1>3. CASE PrepareAborted(t)
  <2>1. /\ status[t] = "refused" /\ status' = [status EXCEPT ![t] = "aborted"]
        /\ promised' = [promised EXCEPT ![t] = "aborted"]
    BY <1>3 DEF PrepareAborted, Undone
  <2> QED BY <2>1, Forward, StandsIs DEF Allowed
<1>4. CASE Committed1(t) \/ Undo1(t)
  <2>1. PICK e : /\ e \in {"committed", "aborted"} /\ Stands(status[t]) = e /\ Stands(e) = e
                 /\ status' = [status EXCEPT ![t] = e]
                 /\ promised' = [promised EXCEPT ![t] = e]
    <3>1. CASE Committed1(t)
      <4>1. status[t] = "committing" /\ status' = [status EXCEPT ![t] = "committed"] /\ Told(t, "committed")
        BY <3>1 DEF Committed1
      <4>2. promised[t] \notin {"committed", "aborted"}
        BY <1>1, <4>1 DEF PromiseOf
      <4>3. promised' = [promised EXCEPT ![t] = "committed"]
        BY <4>1, <4>2 DEF Told
      <4> QED BY <4>1, <4>3, StandsIs
    <3>2. CASE Undo1(t)
      <4>1. /\ status[t] = "aborting" /\ status' = [status EXCEPT ![t] = "aborted"]
            /\ promised' = [promised EXCEPT ![t] = "aborted"]
        BY <3>2 DEF Undo1, Undone
      <4> QED BY <4>1, StandsIs
    <3> QED BY <1>4, <3>1, <3>2
  <2>2. Decision' = Decision /\ Decision[t] = e
    BY <2>1, Stays, DecisionIs
  <2>3. PD!Report(t)
    BY <2>1, <2>2 DEF PD!Report
  <2> QED BY <2>3 DEF Allowed, PD!Next
<1> QED BY <1>2, <1>3, <1>4 DEF Engine

LEMMA FinishAllowed ==
    ASSUME TypeInv, Honest, NEW g \in Gid,
           FinishCommit(g) \/ FinishRollback(g) \/ FinishAppendFails(g)
    PROVE  Allowed
<1>1. PICK t \in Txn : t = gids[g]
  BY DEF FinishCommit, FinishRollback, FinishAppendFails, TypeInv, TxnType
<1>2. mode = "up"
  BY DEF FinishCommit, FinishRollback, FinishAppendFails, Gated, Up
<1>3. status[t] = "prepared"
  BY <1>1, <1>2 DEF Honest, MemoryInv, MemoryOf
<1>4. promised' = promised
  BY DEF FinishCommit, FinishRollback, FinishAppendFails, histVars
<1>5. CASE FinishCommit(g)
  <2>1. status' = [status EXCEPT ![t] = "committing"]
    BY <1>1, <1>5 DEF FinishCommit
  <2> QED BY <1>3, <1>4, <2>1, Forward, StandsIs DEF Allowed
<1>6. CASE FinishRollback(g)
  <2>1. status' = [status EXCEPT ![t] = "aborting"]
    BY <1>1, <1>6 DEF FinishRollback
  <2> QED BY <1>3, <1>4, <2>1, Forward, StandsIs DEF Allowed
<1>7. CASE FinishAppendFails(g)
  <2>1. status' = status
    BY <1>7 DEF FinishAppendFails, txnVars
  <2> QED BY <1>4, <2>1 DEF Allowed, Decision
<1> QED BY <1>5, <1>6, <1>7

LEMMA CrashAllowed ==
    ASSUME TypeInv, TypeInv', Honest, Crash, ~stray
    PROVE  PD!Next
<1>1. PICK d1 : /\ Folds(d1) /\ \A t \in Txn : Falls(d1, t)
  BY CrashKnows
<1>2. promised' = promised
  BY DEF Crash, histVars
<1>3. Decision' \in [Txn -> PD!Decisions]
  <2>1. \A s \in Statuses : Stands(s) \in PD!Decisions
    BY DEF Stands, Statuses, PD!Decisions
  <2>2. \A t \in Txn : status'[t] \in Statuses
    BY DEF TypeInv, TxnType
  <2>3. Decision' = [t \in Txn |-> Stands(status'[t])]
    BY DEF Decision
  <2> QED BY <2>1, <2>2, <2>3
<1>4. ASSUME NEW t \in Txn
      PROVE  Decision'[t] \in PD!Kept(t) /\ (Decision'[t] = "prepared" => Decision[t] # "open")
  <2>1. PICK s, s1, e, e1, w :
            /\ s \in Statuses /\ s = status[t] /\ s1 = status'[t] /\ e = Decision[t] /\ e1 = Decision'[t]
            /\ w = promised[t] /\ e = Stands(s) /\ e1 = Stands(s1)
            /\ w \in {"open", "prepared", "committed", "aborted"}
    BY DEF Decision, TypeInv, TxnType, HistType
  <2>2. Falls(d1, t) /\ PromiseOf(t) /\ t \in Nat /\ nextTxn \in Nat
    BY <1>1, TwoPhaseAssumption DEF Honest, PromiseInv, Txn, TypeInv, TxnType
  <2>3. \A k : Has(d1, t, k) => t < nextTxn
    BY <1>1 DEF Folds, Has, Is
  <2>4. t < nextTxn <=> s # "none"
    BY <2>1, <2>2 DEF PromiseOf
  <2>5. PICK c, p, a \in BOOLEAN : /\ c = Has(d1, t, "commit") /\ p = Has(d1, t, "prepare")
                                   /\ a = Has(d1, t, "abort")
    BY DEF Has
  <2>6. /\ t \in folded => s1 = s
        /\ t \notin folded =>
              /\ s1 = IF c THEN "committed" ELSE IF p /\ ~a THEN "prepared"
                      ELSE IF s # "none" THEN "aborted" ELSE "none"
              /\ w = "prepared" => p
              /\ s = "committed" => c
              /\ s = "aborted" => ~p \/ a
        /\ p => s \notin {"none", "running", "refused"}
        /\ c => s \in {"committing", "committed"} /\ ~a
        /\ a => s \in {"aborting", "aborted"}
    BY <2>1, <2>2, <2>4, <2>5 DEF Falls
  <2>7. /\ t \in folded => s \in {"committed", "aborted"}
        /\ w = "committed" => s = "committed"
        /\ w = "aborted" => s = "aborted"
        /\ w = "prepared" => s \notin {"none", "running", "refused"}
    BY <2>1, <2>2 DEF PromiseOf, Ended
  <2>8. /\ w \in {"committed", "aborted"} => e1 = w
        /\ w = "prepared" => e1 \in {"prepared", e}
        /\ w = "open" => e1 \in {"aborted", "prepared", e}
        /\ e1 = "prepared" => e # "open"
    BY <2>1, <2>6, <2>7, StandsIs DEF Statuses
  <2> QED BY <2>1, <2>8 DEF PD!Kept
<1>5. PD!Crash
  BY <1>2, <1>3, <1>4 DEF PD!Crash
<1> QED BY <1>5 DEF PD!Next

LEMMA StepAllowed ==
    ASSUME TypeInv, TypeInv', Honest, [Next]_vars, ~misread'
    PROVE  Allowed
<1>1. ASSUME NEW t \in Txn, Session(t) \/ Engine(t) PROVE Allowed
  BY <1>1, SessionAllowed, EngineAllowed
<1>2. ASSUME NEW g \in Gid, FinishCommit(g) \/ FinishRollback(g) \/ FinishAppendFails(g)
      PROVE  Allowed
  BY <1>2, FinishAllowed
<1>3. CASE Fsync \/ Truncate \/ Recover \/ RefuseClash \/ UNCHANGED vars
  <2>1. status' = status /\ promised' = promised
    BY <1>3 DEF Fsync, Truncate, Recover, RefuseClash, vars, txnVars, histVars
  <2> QED BY <2>1 DEF Allowed, Decision
<1>4. CASE Publish
  <2>1. /\ nextTxn \in Txn /\ status' = [status EXCEPT ![nextTxn] = "committed"]
        /\ promised' = promised
    BY <1>4, TwoPhaseAssumption DEF Publish, TypeInv, TxnType, Txn
  <2>2. PICK t \in Txn : t = nextTxn
    BY <2>1
  <2>3. status[t] = "none"
    <3>1. PromiseOf(t) /\ t >= nextTxn
      BY <2>2 DEF Honest, PromiseInv, Txn
    <3> QED BY <3>1 DEF PromiseOf
  <2> QED BY <2>1, <2>2, <2>3, Forward, StandsIs DEF Allowed
<1>5. CASE Crash
  BY <1>5, CrashAllowed, MisreadStays DEF Allowed
<1> QED BY <1>1, <1>2, <1>3, <1>4, <1>5 DEF Next

\* Two-phase commit keeps its promises: whatever crashes, checkpoints and failed
\* appends come in between, every step is one PreparedDecision allows.  A PREPARE
\* that was answered is there until someone finishes it, an answered COMMIT PREPARED
\* or ROLLBACK PREPARED is final, and no transaction takes both ways.
THEOREM TwoPhaseKeepsPromises == Spec => KeepsPromises
<1>1. Init => PD!Init
  BY DEF Init, PD!Init, Decision, Stands
<1>2. TwoPhaseInv /\ [Next]_vars => [~misread' => PD!Next]_<<Decision, promised>>
  <2> SUFFICES ASSUME TwoPhaseInv, [Next]_vars, ~misread' PROVE Allowed
    BY DEF Allowed
  <2>1. ~misread
    BY MisreadStays
  <2>2. TypeInv /\ TypeInv' /\ Honest
    BY <2>1, TypeStep DEF TwoPhaseInv
  <2> QED BY <2>2, StepAllowed
<1> QED BY <1>1, <1>2, TwoPhaseInvariant, PTL DEF Spec, KeepsPromises
-----------------------------------------------------------------------------
(* What recovery rebuilds: the rows and the writes of the prepared.         *)

Unended(t) == status[t] \in {"running", "refused", "prepared", "committing", "aborting"}

WritesTo(d, p, t, r) == d[p].kind = "op" /\ d[p].txn = t /\ d[p].row = r

\* Of a transaction that prepared, the writes of its program count.
Counts(d, p) ==
    Has(d, d[p].txn, "prepare") => \E b \in 1..Len(d) : b < p /\ Is(d[b], d[p].txn, "begin")
LastOf(d, p, t, r) ==
    /\ WritesTo(d, p, t, r) /\ Counts(d, p)
    /\ \A q \in 1..Len(d) : q > p => ~WritesTo(d, q, t, r)

\* An image comes first, and a prepare after what its transaction wrote.
Shape(d) ==
    /\ \A p \in 1..Len(d) : d[p].kind = "image" => p = 1
    /\ \A p, q \in 1..Len(d) :
          d[p].kind = "op" /\ d[q].kind = "prepare" /\ d[p].txn = d[q].txn => p < q

\* What replay gives r, without replay: the value of the last record that acts on it.
Done(d, t) == (Has(d, t, "commit") \/ Has(d, t, "image")) /\ ~Has(d, t, "abort")
Acts(d, p, r) ==
    /\ Done(d, d[p].txn)
    /\ d[p].kind = "image" \/ (d[p].kind = "op" /\ d[p].row = r /\ Counts(d, p))
Gives(rec, r) == IF rec.kind = "image" THEN rec.rows[r] ELSE rec.val
LastActs(d, p, r) == Acts(d, p, r) /\ \A q \in 1..Len(d) : q > p => ~Acts(d, q, r)
Shows(d, r, v) ==
    \/ \E p \in 1..Len(d) : LastActs(d, p, r) /\ v = Gives(d[p], r)
    \/ v = NoValue /\ \A p \in 1..Len(d) : ~Acts(d, p, r)

\* The committed value of r once those who wait for their marker are done.
Pending(r) == lock[r] # Nobody /\ status[lock[r]] = "committing" /\ r \in DOMAIN sets[lock[r]]
Now(r) == IF Pending(r) THEN sets[lock[r]][r] ELSE rows[r]

\* What the disk has of a transaction that has not ended: its rows are written by nobody
\* after it; the last write to a row is its net effect there, or (an ordinary transaction
\* that undid it) the row's old value; a prepare has its locks.
\* (lk: who has which lock; s: its net effect; rw: the rows; st: its status)
Mine(d, t, lk, s, rw, st) ==
    /\ \A p \in 1..Len(d) : d[p].kind = "op" /\ d[p].txn = t =>
          /\ lk[d[p].row] = t
          /\ \A q \in 1..Len(d) : q > p /\ d[q].kind = "op" /\ d[q].row = d[p].row => d[q].txn = t
    /\ \A r \in DOMAIN s : \E p \in 1..Len(d) : LastOf(d, p, t, r) /\ d[p].val = s[r]
    /\ \A p \in 1..Len(d) : \A r \in Row : LastOf(d, p, t, r) /\ r \notin DOMAIN s =>
          ~Has(d, t, "prepare") /\ d[p].val = rw[r]
    /\ \A p \in 1..Len(d) : Is(d[p], t, "prepare") => d[p].locks = {r \in Row : lk[r] = t}
    /\ st = "running" => ~Has(d, t, "begin")
MineOf(d, t) == Mine(d, t, lock, sets[t], rows, status[t])

IsCut(e, d, c) == Len(e) = c /\ \A p \in 1..c : e[p] = d[p]
ShowsCommits(e) == \E n \in 0..Len(order) : \A r \in Row : Shows(e, r, Applied(n)[r])

\* Whatever a crash may leave shows the rows of some point of the commit order.
CutRows(d) == \A c \in 0..Len(d) : \A e \in Seq(Records) :
    IsCut(e, d, c) /\ (\A p \in 1..Len(d) : Safe(d, p) => p <= c) => ShowsCommits(e)

WritesOf(d) ==
    /\ Shape(d)
    /\ \A t \in Txn : Unended(t) => MineOf(d, t)
    /\ mode = "up" => (\A r \in Row : Shows(d, r, Now(r))) /\ CutRows(d)
    /\ mode = "down" => ShowsCommits(d)

Entries == [txn : Txn, sets : Nets]

Rebuilds ==
    /\ order \in Seq(Entries)
    /\ mode = "up" => /\ \A t \in Txn : ~Unended(t) => DOMAIN sets[t] = {}
                      /\ \A r \in Row : Applied(Len(order))[r] = Now(r)
    /\ ~stray \/ ckpt => \A d \in {Kept} : WritesOf(d)

RebuildInv == ~misread => Rebuilds

\* With the prepare behind the writes, the program is what follows its begin.
LEMMA CountsIs ==
    ASSUME NEW d \in Seq(Records), Shape(d), NEW i \in 1..Len(d), d[i].kind = "op"
    PROVE  InProgram(d, i) <=> Counts(d, i)
<1>1. PICK L \in Nat : L = Len(d) /\ i \in 1..L
  OBVIOUS
<1>2. PICK t : t = d[i].txn
  OBVIOUS
<1>3. t \in Named(d, {"prepare"}) <=> Has(d, t, "prepare")
  <2>1. t \in Named(d, {"prepare"}) <=> \E p \in 1..L : d[p].kind \in {"prepare"} /\ d[p].txn = t
    BY <1>1 DEF Named
  <2> QED BY <1>1, <2>1 DEF Has, Is
<1>4. InProgram(d, i) <=>
        (t \in Named(d, {"prepare"}) =>
           \E j \in {x \in 1..L : d[x].txn = t /\ d[x].kind = "begin"} :
              j < i /\ ~\E k \in {x \in 1..L : d[x].txn = t /\ d[x].kind = "prepare"} : j < k /\ k < i)
  BY <1>1, <1>2 DEF InProgram
<1>5. \A k \in 1..L : d[k].txn = t /\ d[k].kind = "prepare" => ~(k < i)
  BY <1>1, <1>2 DEF Shape
<1>6. (\E j \in {x \in 1..L : d[x].txn = t /\ d[x].kind = "begin"} :
              j < i /\ ~\E k \in {x \in 1..L : d[x].txn = t /\ d[x].kind = "prepare"} : j < k /\ k < i)
        <=> \E b \in 1..L : b < i /\ Is(d[b], t, "begin")
  BY <1>5 DEF Is
<1> QED BY <1>1, <1>2, <1>3, <1>4, <1>6 DEF Counts

\* A write that counts has a last one.
LEMMA HasLast ==
    ASSUME NEW d \in Seq(Records), NEW i \in 1..Len(d), NEW t, NEW r, WritesTo(d, i, t, r),
           Counts(d, i)
    PROVE  \E m \in 1..Len(d) : LastOf(d, m, t, r) /\ r \in Row
<1>1. PICK L \in Nat : L = Len(d) /\ i \in 1..L /\ \A p \in 1..L : d[p] \in Records
  OBVIOUS
<1>2. PICK at : at = {j \in 1..L : WritesTo(d, j, t, r) /\ Counts(d, j)}
  OBVIOUS
<1>3. at \in SUBSET (0..L) /\ at \in SUBSET (1..L) /\ i \in at
  BY <1>1, <1>2
<1>4. PICK m \in at : \A j \in at : j <= m
  BY <1>3, HasGreatest
<1>5. m \in 1..L /\ WritesTo(d, m, t, r) /\ Counts(d, m)
  BY <1>2, <1>4
<1>6. ASSUME NEW q \in 1..L, q > m, WritesTo(d, q, t, r) PROVE FALSE
  <2>1. Counts(d, q)
    <3>1. CASE Has(d, t, "prepare")
      <4>1. PICK b \in 1..L : b < m /\ Is(d[b], t, "begin")
        BY <1>1, <1>5, <3>1 DEF Counts, WritesTo
      <4>2. b < q
        BY <1>5, <1>6, <4>1
      <4> QED BY <1>1, <1>6, <4>1, <4>2 DEF Counts, WritesTo
    <3>2. CASE ~Has(d, t, "prepare")
      BY <1>6, <3>2 DEF Counts, WritesTo
    <3> QED BY <3>1, <3>2
  <2>2. q <= m
    BY <1>2, <1>4, <1>6, <2>1
  <2> QED BY <1>5, <1>6, <2>2
<1>7. r \in Row
  <2>1. \A rec \in Records : rec.kind = "op" => rec.row \in Row
    BY DEF Records
  <2> QED BY <1>1, <1>5, <2>1 DEF WritesTo
<1> QED BY <1>1, <1>5, <1>6, <1>7 DEF LastOf

\* Replay gives what the last record that acts on a row gives.
LEMMA ShowsReplay ==
    ASSUME NEW d \in Seq(Records), Shape(d), NEW r \in Row, NEW v, Shows(d, r, v)
    PROVE  Replay(d, Empty).rows[r] = v
<1>1. PICK L \in Nat : L = Len(d) /\ \A p \in 1..L : d[p] \in Records /\ d[p].txn \in Txn
  <2>1. \A rec \in Records : rec.txn \in Txn
    BY DEF Records
  <2> QED BY <2>1
<1>2. PICK es : es = [i \in 1..L |-> Effect(d, <<>>, i)]
  OBVIOUS
<1>3. Replay(d, Empty).rows[r] = LastSet(es, r, NoValue)
  <2>1. Empty.prepared = <<>> /\ Empty.rows = [x \in Row |-> NoValue]
    BY DEF Empty
  <2>2. Replay(d, Empty).rows = [x \in Row |-> LastSet([i \in 1..Len(d) |-> Effect(d, Empty.prepared, i)], x, Empty.rows[x])]
    BY DEF Replay
  <2> QED BY <1>1, <1>2, <2>1, <2>2
<1>4. \A t \in Txn : t \in Committed(d) <=> Done(d, t)
  BY ReplayedAre DEF Done
<1>5. ASSUME NEW i \in 1..L, d[i].kind = "op" PROVE InProgram(d, i) <=> Counts(d, i)
  BY <1>1, <1>5, CountsIs
<1>6. ASSUME NEW i \in 1..L
      PROVE  /\ r \in DOMAIN es[i] <=> Acts(d, i, r)
             /\ Acts(d, i, r) => es[i][r] = Gives(d[i], r)
  <2>1. es[i] = Effect(d, <<>>, i) /\ d[i] \in Records /\ d[i].txn \in Txn
    BY <1>1, <1>2
  <2>2. DOMAIN <<>> = {}
    OBVIOUS
  <2>3. CASE d[i].kind = "image" /\ d[i].txn \in Committed(d)
    <3>1. es[i] = d[i].rows
      BY <2>1, <2>2, <2>3 DEF Effect
    <3>2. \A rec \in Records : rec.kind = "image" => rec.rows \in [Row -> Valued]
      BY DEF Records
    <3>3. DOMAIN es[i] = Row
      BY <2>1, <2>3, <3>1, <3>2
    <3>4. Acts(d, i, r) /\ Gives(d[i], r) = d[i].rows[r]
      BY <1>4, <2>1, <2>3 DEF Acts, Gives
    <3> QED BY <3>1, <3>3, <3>4
  <2>4. CASE d[i].kind = "op" /\ d[i].txn \in Committed(d) /\ InProgram(d, i)
    <3>1. es[i] = With(<<>>, d[i].row, d[i].val)
      BY <2>1, <2>2, <2>4 DEF Effect
    <3>2. With(<<>>, d[i].row, d[i].val) = [y \in {d[i].row} |-> d[i].val]
      BY DEF With
    <3>3. r \in DOMAIN es[i] <=> d[i].row = r
      BY <3>1, <3>2
    <3>4. Acts(d, i, r) <=> d[i].row = r
      BY <1>4, <1>5, <2>1, <2>4 DEF Acts
    <3>5. d[i].row = r => es[i][r] = d[i].val
      BY <3>1, <3>2
    <3>6. Gives(d[i], r) = d[i].val
      BY <2>4 DEF Gives
    <3> QED BY <3>3, <3>4, <3>5, <3>6
  <2>5. CASE /\ ~(d[i].kind = "image" /\ d[i].txn \in Committed(d))
             /\ ~(d[i].kind = "op" /\ d[i].txn \in Committed(d) /\ InProgram(d, i))
    <3>1. es[i] = <<>>
      BY <2>1, <2>2, <2>5 DEF Effect
    <3>2. ~Acts(d, i, r)
      BY <1>4, <1>5, <2>1, <2>5 DEF Acts
    <3>3. r \notin DOMAIN es[i]
      BY <3>1
    <3> QED BY <3>2, <3>3
  <2> QED BY <2>3, <2>4, <2>5
<1>7. PICK at : at = {i \in 1..Len(es) : r \in DOMAIN es[i]}
  OBVIOUS
<1>8. Len(es) = L /\ at = {i \in 1..L : Acts(d, i, r)}
  <2>1. Len(es) = L
    BY <1>2
  <2> QED BY <1>6, <1>7, <2>1
<1>9. CASE at = {}
  <2>1. LastSet(es, r, NoValue) = NoValue
    BY <1>7, <1>9 DEF LastSet
  <2>2. v = NoValue
    BY <1>1, <1>8, <1>9 DEF Shows, LastActs
  <2> QED BY <1>3, <2>1, <2>2
<1>10. CASE at # {}
  <2>1. at \in SUBSET (0..L) /\ at \in SUBSET (1..L)
    BY <1>8
  <2>2. PICK m : m = (CHOOSE i \in at : \A j \in at : j <= i) /\ m \in at /\ \A j \in at : j <= m
    BY <1>10, <2>1, HasGreatest
  <2>3. LastSet(es, r, NoValue) = es[m][r]
    BY <1>7, <1>10, <2>2 DEF LastSet
  <2>4. m \in 1..L /\ Acts(d, m, r)
    BY <1>8, <2>2
  <2>5. PICK p \in 1..L : LastActs(d, p, r) /\ v = Gives(d[p], r)
    BY <1>1, <2>4 DEF Shows
  <2>6. p = m
    <3>1. p \in at
      BY <1>8, <2>5 DEF LastActs
    <3>2. p <= m /\ ~(m > p)
      BY <1>1, <2>2, <2>4, <2>5, <3>1 DEF LastActs
    <3> QED BY <2>4, <3>2
  <2> QED BY <1>3, <1>6, <2>3, <2>4, <2>5, <2>6
<1> QED BY <1>9, <1>10

\* The writes of a waiting transaction, the last one on each row being its net effect.
LEMMA WaiterSets ==
    ASSUME NEW d \in Seq(Records), Shape(d), NEW t \in Txn, Has(d, t, "prepare"), NEW s \in Nets,
           \A r \in DOMAIN s : \E p \in 1..Len(d) : LastOf(d, p, t, r) /\ d[p].val = s[r],
           \A p \in 1..Len(d) : \A r \in Row : LastOf(d, p, t, r) => r \in DOMAIN s
    PROVE  Waiter(d, t).sets = s
<1>1. PICK L \in Nat : L = Len(d) /\ \A p \in 1..L : d[p] \in Records
  OBVIOUS
<1>2. PICK prog : prog = [i \in 1..L |->
                             IF d[i].kind = "op" /\ d[i].txn = t /\ InProgram(d, i)
                             THEN With(<<>>, d[i].row, d[i].val) ELSE <<>>]
  OBVIOUS
<1>3. PICK written : written = UNION {DOMAIN prog[i] : i \in 1..L}
  OBVIOUS
<1>4. Waiter(d, t).sets = [r \in written |-> LastSet(prog, r, NoValue)]
  BY <1>1, <1>2, <1>3 DEF Waiter
<1>5. ASSUME NEW i \in 1..L, d[i].kind = "op", d[i].txn = t PROVE InProgram(d, i) <=> Counts(d, i)
  BY <1>1, <1>5, CountsIs
<1>6. ASSUME NEW i \in 1..L, NEW r
      PROVE  /\ r \in DOMAIN prog[i] <=> WritesTo(d, i, t, r) /\ Counts(d, i)
             /\ r \in DOMAIN prog[i] => prog[i][r] = d[i].val
  <2>1. CASE d[i].kind = "op" /\ d[i].txn = t /\ InProgram(d, i)
    <3>1. prog[i] = With(<<>>, d[i].row, d[i].val)
      BY <1>2, <2>1
    <3>2. With(<<>>, d[i].row, d[i].val) = [y \in {d[i].row} |-> d[i].val]
      BY DEF With
    <3>3. r \in DOMAIN prog[i] <=> d[i].row = r
      BY <3>1, <3>2
    <3>4. d[i].row = r => prog[i][r] = d[i].val
      BY <3>1, <3>2
    <3>5. WritesTo(d, i, t, r) /\ Counts(d, i) <=> d[i].row = r
      BY <1>5, <2>1 DEF WritesTo
    <3> QED BY <3>3, <3>4, <3>5
  <2>2. CASE ~(d[i].kind = "op" /\ d[i].txn = t /\ InProgram(d, i))
    <3>1. prog[i] = <<>>
      BY <1>2, <2>2
    <3>2. r \notin DOMAIN prog[i]
      BY <3>1
    <3>3. ~(WritesTo(d, i, t, r) /\ Counts(d, i))
      BY <1>5, <2>2 DEF WritesTo
    <3> QED BY <3>2, <3>3
  <2> QED BY <2>1, <2>2
<1>7. ASSUME NEW i \in 1..L, NEW r, WritesTo(d, i, t, r), Counts(d, i)
      PROVE  \E m \in 1..L : LastOf(d, m, t, r) /\ r \in Row
  BY <1>1, <1>7, HasLast
<1>8. written = DOMAIN s
  <2>1. ASSUME NEW r \in written PROVE r \in DOMAIN s
    <3>1. PICK i \in 1..L : r \in DOMAIN prog[i]
      BY <1>3, <2>1
    <3>2. WritesTo(d, i, t, r) /\ Counts(d, i)
      BY <1>6, <3>1
    <3>3. PICK m \in 1..L : LastOf(d, m, t, r) /\ r \in Row
      BY <1>7, <3>2
    <3> QED BY <1>1, <3>3
  <2>2. ASSUME NEW r \in DOMAIN s PROVE r \in written
    <3>1. PICK p \in 1..L : LastOf(d, p, t, r)
      BY <1>1, <2>2
    <3>2. r \in DOMAIN prog[p]
      BY <1>6, <3>1 DEF LastOf
    <3> QED BY <1>3, <3>2
  <2> QED BY <2>1, <2>2
<1>9. ASSUME NEW r \in DOMAIN s PROVE LastSet(prog, r, NoValue) = s[r]
  <2>1. PICK p \in 1..L : LastOf(d, p, t, r) /\ d[p].val = s[r]
    BY <1>1, <1>9
  <2>2. PICK at : at = {i \in 1..Len(prog) : r \in DOMAIN prog[i]}
    OBVIOUS
  <2>3. Len(prog) = L
    BY <1>2
  <2>4. p \in at /\ at \in SUBSET (1..L) /\ at \in SUBSET (0..L)
    BY <1>6, <2>1, <2>2, <2>3 DEF LastOf
  <2>5. PICK m : m = (CHOOSE i \in at : \A j \in at : j <= i) /\ m \in at /\ \A j \in at : j <= m
    BY <2>4, HasGreatest
  <2>6. LastSet(prog, r, NoValue) = prog[m][r]
    BY <2>2, <2>4, <2>5 DEF LastSet
  <2>7. m \in 1..L /\ WritesTo(d, m, t, r) /\ r \in DOMAIN prog[m]
    BY <1>6, <2>2, <2>4, <2>5
  <2>8. m = p
    <3>1. p <= m /\ ~(m > p)
      BY <1>1, <2>1, <2>4, <2>5, <2>7 DEF LastOf
    <3> QED BY <2>7, <3>1
  <2> QED BY <1>6, <2>1, <2>6, <2>7, <2>8
<1>10. s = [r \in DOMAIN s |-> s[r]]
  BY DEF Nets
<1> QED BY <1>4, <1>8, <1>9, <1>10

\* e is d and more.
Longer(e, d) ==
    /\ d \in Seq(Records) /\ e \in Seq(Records) /\ Len(d) <= Len(e)
    /\ \A p \in 1..Len(d) : e[p] = d[p]

\* What e has beyond d is t's.
Beyond(e, d, t) == \A p \in 1..Len(e) : p > Len(d) => e[p].txn = t

\* Records of t change nothing for the others.
LEMMA OthersSame ==
    ASSUME NEW d, NEW e, Longer(e, d), NEW t, Beyond(e, d, t),
           NEW u, u # t
    PROVE  /\ \A k : Has(e, u, k) <=> Has(d, u, k)
           /\ \A p \in 1..Len(d) : d[p].txn = u => (Counts(e, p) <=> Counts(d, p))
           /\ Done(e, u) <=> Done(d, u)
<1>1. PICK D \in Nat, E \in Nat : D = Len(d) /\ E = Len(e) /\ D <= E /\ \A p \in 1..D : e[p] = d[p]
  BY DEF Longer
<1>2. \A p \in 1..E : e[p].txn = u => p \in 1..D
  BY <1>1 DEF Beyond
<1>3. \A p \in 1..D : p \in 1..E
  BY <1>1
<1>4. \A k : Has(e, u, k) <=> Has(d, u, k)
  BY <1>1, <1>2, <1>3 DEF Has, Is
<1>5. ASSUME NEW p \in 1..D, d[p].txn = u PROVE Counts(e, p) <=> Counts(d, p)
  <2>1. e[p] = d[p] /\ e[p].txn = u
    BY <1>1, <1>5
  <2>2. (\E b \in 1..E : b < p /\ Is(e[b], u, "begin")) <=> (\E b \in 1..D : b < p /\ Is(d[b], u, "begin"))
    BY <1>1, <1>2, <1>3 DEF Is
  <2> QED BY <1>1, <1>4, <1>5, <2>1, <2>2 DEF Counts
<1> QED BY <1>1, <1>4, <1>5 DEF Done

\* Records of a transaction that has not committed show nothing.
LEMMA ShowsKeeps ==
    ASSUME NEW d, NEW e, Longer(e, d), NEW t, ~Has(d, t, "commit"), ~Has(d, t, "image"),
           \A p \in 1..Len(e) : p > Len(d) => e[p].txn = t /\ e[p].kind \notin {"commit", "image"},
           NEW r, NEW v, Shows(d, r, v)
    PROVE  Shows(e, r, v)
<1>1. PICK D \in Nat, E \in Nat : D = Len(d) /\ E = Len(e) /\ D <= E /\ \A p \in 1..D : e[p] = d[p]
  BY DEF Longer
<1>2. ~Done(e, t) /\ ~Done(d, t)
  BY <1>1 DEF Done, Has, Is
<1>o. Beyond(e, d, t)
  BY DEF Beyond
<1>3. ASSUME NEW p \in 1..D PROVE Acts(e, p, r) <=> Acts(d, p, r)
  <2>1. e[p] = d[p]
    BY <1>1
  <2>2. CASE d[p].txn = t
    BY <1>2, <2>1, <2>2 DEF Acts
  <2>3. CASE d[p].txn # t
    <3>1. PICK u : u = d[p].txn /\ u # t
      BY <2>3
    <3>2. /\ Done(e, u) <=> Done(d, u)
          /\ \A x \in 1..Len(d) : d[x].txn = u => (Counts(e, x) <=> Counts(d, x))
      BY ONLY <1>o, <3>1, Longer(e, d), OthersSame
    <3>3. Counts(e, p) <=> Counts(d, p)
      BY <1>1, <3>1, <3>2
    <3> QED BY <2>1, <3>1, <3>2, <3>3 DEF Acts
  <2> QED BY <2>2, <2>3
<1>4. \A p \in 1..E : ~(p \in 1..D) => ~Acts(e, p, r)
  BY <1>1, <1>2 DEF Acts
<1>5. \A p \in 1..D : p \in 1..E
  BY <1>1
<1>6. CASE \E p \in 1..D : LastActs(d, p, r) /\ v = Gives(d[p], r)
  <2>1. PICK p \in 1..D : LastActs(d, p, r) /\ v = Gives(d[p], r)
    BY <1>6
  <2>2. Acts(e, p, r) /\ \A q \in 1..E : q > p => ~Acts(e, q, r)
    BY <1>1, <1>3, <1>4, <2>1 DEF LastActs
  <2>3. v = Gives(e[p], r) /\ LastActs(e, p, r) /\ p \in 1..E
    BY <1>1, <1>5, <2>1, <2>2 DEF LastActs
  <2> QED BY <1>1, <2>3 DEF Shows
<1>7. CASE v = NoValue /\ \A p \in 1..D : ~Acts(d, p, r)
  BY <1>1, <1>3, <1>4, <1>7 DEF Shows
<1> QED BY <1>1, <1>6, <1>7 DEF Shows

\* The marker of t lets its writes be seen: its net effect on the rows it wrote, no
\* change of the others (a write it undid gave its row the old value, w).
LEMMA ShowsCommit ==
    ASSUME NEW d, NEW e, Longer(e, d), Shape(d), NEW t, NEW s,
           ~Has(d, t, "commit"), ~Has(d, t, "image"), ~Has(d, t, "abort"),
           \A p \in 1..Len(e) : p > Len(d) => e[p].txn = t /\ e[p].kind = "commit",
           Len(d) < Len(e),
           \A p, q \in 1..Len(d) : d[p].kind = "op" /\ d[p].txn = t
                                   /\ q > p /\ d[q].kind = "op" /\ d[q].row = d[p].row => d[q].txn = t,
           NEW r \in Row, NEW v, NEW x, Shows(d, r, v),
           r \in DOMAIN s => x = s[r], r \notin DOMAIN s => x = v,
           r \in DOMAIN s => \E p \in 1..Len(d) : LastOf(d, p, t, r) /\ d[p].val = s[r],
           \A p \in 1..Len(d) : LastOf(d, p, t, r) /\ r \notin DOMAIN s => d[p].val = v
    PROVE  Shows(e, r, x)
<1>1. PICK D \in Nat, E \in Nat : D = Len(d) /\ E = Len(e) /\ D < E /\ \A p \in 1..D : e[p] = d[p]
  BY DEF Longer
<1>2. Done(e, t) /\ ~Done(d, t)
  <2>1. \A k : k # "commit" => (Has(e, t, k) <=> Has(d, t, k))
    <3>1. \A p \in 1..E : ~(p \in 1..D) => e[p].kind = "commit"
      BY <1>1
    <3>2. \A p \in 1..D : p \in 1..E
      BY <1>1
    <3> QED BY <1>1, <3>1, <3>2 DEF Has, Is
  <2>2. E \in 1..E /\ E > D
    BY <1>1
  <2>3. Has(e, t, "commit")
    BY <1>1, <2>2 DEF Has, Is
  <2> QED BY <2>1, <2>3 DEF Done
<1>3. ASSUME NEW p \in 1..D
      PROVE  Acts(e, p, r) <=> Acts(d, p, r) \/ (WritesTo(d, p, t, r) /\ Counts(d, p))
  <2>1. e[p] = d[p]
    BY <1>1
  <2>2. CASE d[p].txn = t
    <3>1. Counts(e, p) <=> Counts(d, p)
      <4>1. Has(e, t, "prepare") <=> Has(d, t, "prepare")
        <5>1. \A q \in 1..E : ~(q \in 1..D) => e[q].kind = "commit"
          BY <1>1
        <5>2. \A q \in 1..D : q \in 1..E
          BY <1>1
        <5> QED BY <1>1, <5>1, <5>2 DEF Has, Is
      <4>2. \A b \in 1..E : b < p => b \in 1..D
        BY <1>1
      <4>3. \A q \in 1..D : q \in 1..E
        BY <1>1
      <4> QED BY <1>1, <2>1, <2>2, <4>1, <4>2, <4>3 DEF Counts, Is
    <3>2. d[p].kind # "image"
      BY <1>1, <2>2 DEF Has, Is
    <3> QED BY <1>2, <2>1, <2>2, <3>1, <3>2 DEF Acts, WritesTo
  <2>3. CASE d[p].txn # t
    <3>o. Beyond(e, d, t)
      BY DEF Beyond
    <3>u. PICK u : u = d[p].txn /\ u # t
      BY <2>3
    <3>1. /\ Done(e, u) <=> Done(d, u)
          /\ \A x1 \in 1..Len(d) : d[x1].txn = u => (Counts(e, x1) <=> Counts(d, x1))
      BY ONLY Longer(e, d), <3>o, <3>u, OthersSame
    <3>2. /\ Done(e, d[p].txn) <=> Done(d, d[p].txn)
          /\ Counts(e, p) <=> Counts(d, p)
      BY <1>1, <3>u, <3>1
    <3> QED BY <2>1, <2>3, <3>2 DEF Acts, WritesTo
  <2> QED BY <2>2, <2>3
<1>4. \A p \in 1..E : ~(p \in 1..D) => ~Acts(e, p, r)
  BY <1>1 DEF Acts
<1>5. \A p \in 1..D : p \in 1..E
  BY <1>1
\* t's last write acts last.
<1>6. ASSUME NEW p \in 1..D, LastOf(d, p, t, r) PROVE Shows(e, r, d[p].val)
  <2>1. WritesTo(d, p, t, r) /\ Counts(d, p) /\ e[p] = d[p]
    BY <1>1, <1>6 DEF LastOf
  <2>2. Acts(e, p, r) /\ Gives(e[p], r) = d[p].val
    BY <1>3, <2>1 DEF Gives, WritesTo
  <2>3. ASSUME NEW q \in 1..E, q > p, Acts(e, q, r) PROVE FALSE
    <3>1. q \in 1..D
      BY <1>4, <2>3
    <3>2. e[q] = d[q] /\ d[q].kind # "image"
      BY <1>1, <2>3, <3>1 DEF Shape
    <3>3. d[q].kind = "op" /\ d[q].row = r
      BY <2>3, <3>2 DEF Acts
    <3>4. d[q].txn = t
      BY <1>1, <2>1, <2>3, <3>1, <3>3 DEF WritesTo
    <3>5. WritesTo(d, q, t, r)
      BY <3>3, <3>4 DEF WritesTo
    <3> QED BY <1>1, <1>6, <2>3, <3>1, <3>5 DEF LastOf
  <2>4. LastActs(e, p, r) /\ p \in 1..E
    BY <1>1, <1>5, <2>2, <2>3 DEF LastActs
  <2> QED BY <1>1, <2>2, <2>4 DEF Shows
<1>7. CASE r \in DOMAIN s
  <2>1. PICK p \in 1..D : LastOf(d, p, t, r) /\ d[p].val = s[r]
    BY <1>1, <1>7
  <2> QED BY <1>6, <1>7, <2>1
<1>8. CASE r \notin DOMAIN s /\ \E p \in 1..D : LastOf(d, p, t, r)
  <2>1. PICK p \in 1..D : LastOf(d, p, t, r)
    BY <1>8
  <2>2. d[p].val = v
    BY <1>1, <1>8, <2>1
  <2> QED BY <1>6, <1>8, <2>1, <2>2
<1>9. CASE r \notin DOMAIN s /\ ~\E p \in 1..D : LastOf(d, p, t, r)
  <2>1. \A p \in 1..D : ~(WritesTo(d, p, t, r) /\ Counts(d, p))
    BY <1>1, <1>9, HasLast DEF Longer
  <2>2. \A p \in 1..D : Acts(e, p, r) <=> Acts(d, p, r)
    BY <1>3, <2>1
  <2>3. x = v
    BY <1>9
  <2>4. CASE \E p \in 1..D : LastActs(d, p, r) /\ v = Gives(d[p], r)
    <3>1. PICK p \in 1..D : LastActs(d, p, r) /\ v = Gives(d[p], r)
      BY <2>4
    <3>2. Acts(e, p, r) /\ \A q \in 1..E : q > p => ~Acts(e, q, r)
      BY <1>1, <1>4, <2>2, <3>1 DEF LastActs
    <3>3. v = Gives(e[p], r) /\ LastActs(e, p, r) /\ p \in 1..E
      BY <1>1, <1>5, <3>1, <3>2 DEF LastActs
    <3> QED BY <1>1, <2>3, <3>3 DEF Shows
  <2>5. CASE v = NoValue /\ \A p \in 1..D : ~Acts(d, p, r)
    BY <1>1, <1>4, <2>2, <2>3, <2>5 DEF Shows
  <2> QED BY <1>1, <2>4, <2>5 DEF Shows
<1> QED BY <1>7, <1>8, <1>9

-----------------------------------------------------------------------------
(* The commit order                                                        *)

\* One more entry.
LEMMA AppliedNext ==
    ASSUME order \in Seq(Entries), NEW x \in Entries, order' = Append(order, x), base' = base,
           NEW r \in Row, NEW L \in Nat, L = Len(order), NEW K \in Nat, K = L + 1
    PROVE  /\ order' \in Seq(Entries) /\ Len(order') = K
           /\ \A n \in 0..L : Applied(n)'[r] = Applied(n)[r]
           /\ r \in DOMAIN x.sets => Applied(K)'[r] = x.sets[r]
           /\ r \notin DOMAIN x.sets => Applied(K)'[r] = Applied(L)[r]
<1>2. /\ order' \in Seq(Entries) /\ Len(order') = L + 1 /\ order'[L + 1] = x
      /\ \A i \in 1..L : order'[i] = order[i]
  OBVIOUS
<1>3. ASSUME NEW n \in 0..L PROVE Applied(n)'[r] = Applied(n)[r]
  <2>1. \A i \in 1..n : order'[i] = order[i]
    BY <1>2
  <2>2. PICK at : at = {i \in 1..n : r \in DOMAIN order[i].sets}
    OBVIOUS
  <2>3. at = {i \in 1..n : r \in DOMAIN order'[i].sets}
    BY <2>1, <2>2
  <2>4. Applied(n)[r] = IF at = {} THEN base[r] ELSE order[Highest(at)].sets[r]
    BY <2>2 DEF Applied
  <2>5. Applied(n)'[r] = IF at = {} THEN base[r] ELSE order'[Highest(at)].sets[r]
    BY <2>3 DEF Applied
  <2>6. at # {} => Highest(at) \in 1..n
    <3>1. at \in SUBSET (0..n) /\ n \in Nat
      BY <2>2
    <3>2. at # {} => Highest(at) \in at
      BY <3>1, HasGreatest DEF Highest
    <3> QED BY <2>2, <3>2
  <2> QED BY <2>1, <2>4, <2>5, <2>6
<1>k. K \in 1..K
  OBVIOUS
<1>4. PICK at : at = {i \in 1..K : r \in DOMAIN order'[i].sets}
  OBVIOUS
<1>5. Applied(K)'[r] = IF at = {} THEN base[r] ELSE order'[Highest(at)].sets[r]
  BY <1>4 DEF Applied
<1>6. CASE r \in DOMAIN x.sets
  <2>1. K \in at /\ \A i \in at : i <= K
    BY <1>2, <1>k, <1>4, <1>6
  <2>2. at \in SUBSET (0..K) /\ at # {}
    <3>1. \A i \in 1..K : i \in 0..K
      OBVIOUS
    <3> QED BY <1>4, <2>1, <3>1
  <2>3. Highest(at) \in at /\ \A j \in at : j <= Highest(at)
    BY <1>k, <2>2, HasGreatest DEF Highest
  <2>4. Highest(at) = K
    <3>1. PICK h \in 1..K : h = Highest(at)
      BY <1>4, <2>3
    <3>2. K <= h
      BY <2>1, <2>3, <3>1
    <3> QED BY <3>1, <3>2
  <2>5. Applied(K)'[r] = x.sets[r]
    BY <1>2, <1>k, <1>5, <2>2, <2>4
  <2> QED BY <1>2, <1>k, <1>3, <1>6, <2>5
<1>7. CASE r \notin DOMAIN x.sets
  <2>1. at = {i \in 1..L : r \in DOMAIN order[i].sets}
    <3>1. \A i \in 1..K : i \in 1..L \/ i = K
      BY <1>k
    <3>2. \A i \in 1..L : i \in 1..K
      BY <1>k
    <3> QED BY <1>2, <1>k, <1>4, <1>7, <3>1, <3>2
  <2>2. Applied(L)[r] = IF at = {} THEN base[r] ELSE order[Highest(at)].sets[r]
    BY <2>1 DEF Applied
  <2>3. at # {} => Highest(at) \in 1..L
    <3>1. at \in SUBSET (0..L)
      BY <2>1
    <3>2. at # {} => Highest(at) \in at
      BY <3>1, HasGreatest DEF Highest
    <3> QED BY <2>1, <3>2
  <2>4. Applied(K)'[r] = Applied(L)[r]
    BY <1>2, <1>5, <2>2, <2>3
  <2> QED BY <1>2, <1>k, <1>3, <1>7, <2>4
<1> QED BY <1>2, <1>3, <1>6, <1>7

-----------------------------------------------------------------------------
(* A step of one transaction                                               *)

LEMMA MinePrimed ==
    ASSUME NEW e, NEW u, NEW lk, NEW s, NEW rw, NEW st, lk = lock', s = sets'[u], rw = rows',
           st = status'[u], Mine(e, u, lk, s, rw, st)
    PROVE  MineOf(e, u)'
BY DEF MineOf, Mine, LastOf, WritesTo, Counts, Has, Is

LEMMA ShowsPrimed ==
    ASSUME NEW e, NEW r, NEW v, v = Now(r)', Shows(e, r, v)
    PROVE  Shows(e, r, Now(r))'
BY DEF Shows, LastActs, Acts, Done, Counts, Gives, Has, Is

LEMMA CommitsPrimed ==
    ASSUME NEW e, NEW n, n \in 0..Len(order'), NEW f, f = Applied(n)',
           \A r \in Row : Shows(e, r, f[r])
    PROVE  ShowsCommits(e)'
<1>1. ASSUME NEW r \in Row PROVE Shows(e, r, Applied(n)[r])'
  <2>1. PICK v : v = f[r] /\ v = Applied(n)'[r] /\ Shows(e, r, v)
    OBVIOUS
  <2> QED BY <2>1 DEF Shows, LastActs, Acts, Done, Counts, Gives, Has, Is
<1> QED BY <1>1 DEF ShowsCommits

LEMMA ShapePrimed ==
    ASSUME NEW e, Shape(e)
    PROVE  Shape(e)'
BY DEF Shape

LEMMA ShapeLonger ==
    ASSUME NEW d, NEW e, Longer(e, d), Shape(d), NEW t,
           \A p \in 1..Len(e) : p > Len(d) => e[p].txn = t /\ e[p].kind # "image",
           \A p, q \in 1..Len(e) : p > Len(d) /\ e[p].kind = "op" /\ Is(e[q], t, "prepare") => p < q
    PROVE  Shape(e)
<1>1. PICK D \in Nat, E \in Nat : D = Len(d) /\ E = Len(e) /\ D <= E /\ \A p \in 1..D : e[p] = d[p]
  BY DEF Longer
<1>2. ASSUME NEW p \in 1..E, e[p].kind = "image" PROVE p = 1
  BY <1>1, <1>2 DEF Shape
<1>3. ASSUME NEW p \in 1..E, NEW q \in 1..E, e[p].kind = "op", e[q].kind = "prepare",
             e[p].txn = e[q].txn
      PROVE  p < q
  <2>1. CASE p \in 1..D /\ q \in 1..D
    BY <1>1, <1>3, <2>1 DEF Shape
  <2>2. CASE p \in 1..D /\ ~(q \in 1..D)
    BY <1>1, <2>2
  <2>3. CASE ~(p \in 1..D)
    <3>1. p > D /\ e[p].txn = t
      BY <1>1, <2>3
    <3> QED BY <1>1, <1>3, <3>1 DEF Is
  <2> QED BY <2>1, <2>2, <2>3
<1> QED BY <1>1, <1>2, <1>3 DEF Shape

\* The others' last writes.
LEMMA LastSame ==
    ASSUME NEW d, NEW e, Longer(e, d), NEW t, Beyond(e, d, t),
           NEW u, u # t, NEW p \in 1..Len(e), NEW r
    PROVE  LastOf(e, p, u, r) <=> p \in 1..Len(d) /\ LastOf(d, p, u, r)
<1>1. PICK D \in Nat, E \in Nat : D = Len(d) /\ E = Len(e) /\ D <= E /\ \A x \in 1..D : e[x] = d[x]
  BY DEF Longer
<1>2. \A x \in 1..E : e[x].txn = u => x \in 1..D
  BY <1>1 DEF Beyond
<1>3. \A x \in 1..D : x \in 1..E
  BY <1>1
<1>4. \A x \in 1..Len(d) : d[x].txn = u => (Counts(e, x) <=> Counts(d, x))
  BY ONLY Longer(e, d), Beyond(e, d, t), u # t, OthersSame
<1>5. \A x \in 1..E : WritesTo(e, x, u, r) <=> x \in 1..D /\ WritesTo(d, x, u, r)
  BY <1>1, <1>2 DEF WritesTo
<1>6. p \in 1..D /\ WritesTo(d, p, u, r) => (Counts(e, p) <=> Counts(d, p))
  BY <1>1, <1>4 DEF WritesTo
<1>7. (\A q \in 1..E : q > p => ~WritesTo(e, q, u, r)) <=> (\A q \in 1..D : q > p => ~WritesTo(d, q, u, r))
  BY <1>3, <1>5
<1> QED BY <1>1, <1>5, <1>6, <1>7 DEF LastOf

\* The same, its writes under t's locks.
Writes(e, d, t, lk) ==
    /\ Beyond(e, d, t)
    /\ \A p \in 1..Len(e) : p > Len(d) /\ e[p].kind = "op" => lk[e[p].row] = t

\* The locks of u and the rows under them stay.
SameFor(u, lk, lk1, rw, rw1) ==
    /\ \A r \in Row : lk1[r] = u <=> lk[r] = u
    /\ \A r \in Row : lk[r] = u => rw1[r] = rw[r]

\* What t does leaves alone what the others have.
LEMMA MineKeeps ==
    ASSUME NEW d, NEW e, Longer(e, d), NEW t, NEW u, u # t, NEW lk, NEW lk1, NEW s, NEW rw, NEW rw1,
           NEW st,
           Writes(e, d, t, lk1), SameFor(u, lk, lk1, rw, rw1), Mine(d, u, lk, s, rw, st)
    PROVE  Mine(e, u, lk1, s, rw1, st)
<1>a. /\ Beyond(e, d, t) /\ \A p \in 1..Len(e) : p > Len(d) => e[p].txn = t
      /\ \A p \in 1..Len(e) : p > Len(d) /\ e[p].kind = "op" => lk1[e[p].row] = t
  BY DEF Writes, Beyond
<1>b. /\ \A r \in Row : lk1[r] = u <=> lk[r] = u
      /\ \A r \in Row : lk[r] = u => rw1[r] = rw[r]
  BY DEF SameFor
<1>1. PICK D \in Nat, E \in Nat :
          /\ D = Len(d) /\ E = Len(e) /\ D <= E /\ \A x \in 1..D : e[x] = d[x]
          /\ \A x \in 1..E : e[x] \in Records
  BY DEF Longer
<1>2. \A x \in 1..E : e[x].txn = u => x \in 1..D
  BY <1>a, <1>1
<1>3. \A x \in 1..D : x \in 1..E
  BY <1>1
<1>r. \A x \in 1..E : e[x].kind = "op" => e[x].row \in Row
  <2>1. \A rec \in Records : rec.kind = "op" => rec.row \in Row
    BY DEF Records
  <2> QED BY <1>1, <2>1
<1>h. \A k : Has(e, u, k) <=> Has(d, u, k)
  BY ONLY Longer(e, d), <1>a, u # t, OthersSame
<1>l. \A p \in 1..Len(e) : \A r : LastOf(e, p, u, r) <=> p \in 1..Len(d) /\ LastOf(d, p, u, r)
  BY ONLY Longer(e, d), <1>a, u # t, LastSame
<1>4. ASSUME NEW p \in 1..E, e[p].kind = "op", e[p].txn = u
      PROVE  /\ lk1[e[p].row] = u /\ lk[e[p].row] = u
             /\ \A q \in 1..E : q > p /\ e[q].kind = "op" /\ e[q].row = e[p].row => e[q].txn = u
  <2>1. p \in 1..D /\ e[p] = d[p]
    BY <1>1, <1>2, <1>4
  <2>2. lk[d[p].row] = u /\ \A q \in 1..D : q > p /\ d[q].kind = "op" /\ d[q].row = d[p].row => d[q].txn = u
    BY <1>1, <1>4, <2>1 DEF Mine
  <2>3. e[p].row \in Row /\ lk1[e[p].row] = u
    BY <1>b, <1>r, <1>4, <2>1, <2>2
  <2>4. ASSUME NEW q \in 1..E, q > p, e[q].kind = "op", e[q].row = e[p].row PROVE e[q].txn = u
    <3>1. CASE q \in 1..D
      BY <1>1, <2>1, <2>2, <2>4, <3>1
    <3>2. CASE ~(q \in 1..D)
      <4>1. lk1[e[q].row] = t
        BY <1>a, <1>1, <2>4, <3>2
      <4> QED BY <2>3, <2>4, <4>1
    <3> QED BY <3>1, <3>2
  <2> QED BY <2>1, <2>2, <2>3, <2>4
<1>5. ASSUME NEW r \in DOMAIN s PROVE \E p \in 1..E : LastOf(e, p, u, r) /\ e[p].val = s[r]
  <2>1. PICK p \in 1..D : LastOf(d, p, u, r) /\ d[p].val = s[r]
    BY <1>1, <1>5 DEF Mine
  <2> QED BY <1>1, <1>3, <1>l, <2>1
<1>6. ASSUME NEW p \in 1..E, NEW r \in Row, LastOf(e, p, u, r), r \notin DOMAIN s
      PROVE  ~Has(e, u, "prepare") /\ e[p].val = rw1[r]
  <2>1. p \in 1..D /\ LastOf(d, p, u, r) /\ e[p] = d[p]
    BY <1>1, <1>l, <1>6
  <2>2. ~Has(d, u, "prepare") /\ d[p].val = rw[r]
    BY <1>1, <1>6, <2>1 DEF Mine
  <2>3. lk[r] = u
    <3>1. e[p].kind = "op" /\ e[p].txn = u /\ e[p].row = r
      BY <1>6 DEF LastOf, WritesTo
    <3> QED BY <1>4, <3>1
  <2> QED BY <1>b, <1>h, <2>1, <2>2, <2>3
<1>7. ASSUME NEW p \in 1..E, Is(e[p], u, "prepare") PROVE e[p].locks = {r \in Row : lk1[r] = u}
  <2>1. p \in 1..D /\ e[p] = d[p]
    BY <1>1, <1>2, <1>7 DEF Is
  <2>2. d[p].locks = {r \in Row : lk[r] = u}
    BY <1>1, <1>7, <2>1 DEF Mine
  <2>3. {r \in Row : lk[r] = u} = {r \in Row : lk1[r] = u}
    BY <1>b
  <2> QED BY <2>1, <2>2, <2>3
<1>8. st = "running" => ~Has(e, u, "begin")
  BY <1>h DEF Mine
<1> QED BY <1>1, <1>4, <1>5, <1>6, <1>7, <1>8 DEF Mine

\* What a step of t leaves alone.
Lone(t) ==
    /\ mode = "up" /\ mode' = "up" /\ ~ckpt /\ ~ckpt' /\ (stray => stray')
    /\ \A u \in Txn \ {t} : /\ status'[u] = status[u] /\ sets'[u] = sets[u]
                            /\ \A r \in Row : lock'[r] = u <=> lock[r] = u
                            /\ \A r \in Row : lock[r] = u => rows'[r] = rows[r]

\* It appends records of its own to the disk, and writes rows it has locked.
Adds(t, d, d1) ==
    /\ d = Kept /\ d1 = Kept' /\ Longer(d1, d)
    /\ \A p \in 1..Len(d) : Safe(d, p) => Safe(d1, p)'
    /\ \A p \in 1..Len(d1) : p > Len(d) =>
          /\ d1[p].txn = t /\ d1[p].kind # "image"
          /\ d1[p].kind = "op" => lock'[d1[p].row] = t
    /\ \A p, q \in 1..Len(d1) :
          p > Len(d) /\ d1[p].kind = "op" /\ Is(d1[q], t, "prepare") => p < q
    /\ Unended(t)' => MineOf(d1, t)'

LEMMA FrameWrites ==
    ASSUME NEW t \in Txn, Lone(t), NEW d, NEW d1, Adds(t, d, d1), WritesOf(d)
    PROVE  Shape(d1)' /\ \A u \in Txn : Unended(u)' => MineOf(d1, u)'
<1>1. /\ Longer(d1, d) /\ Shape(d)
      /\ \A p \in 1..Len(d1) : p > Len(d) => d1[p].txn = t /\ d1[p].kind # "image"
      /\ \A p \in 1..Len(d1) : p > Len(d) => d1[p].txn = t
      /\ \A p, q \in 1..Len(d1) :
            p > Len(d) /\ d1[p].kind = "op" /\ Is(d1[q], t, "prepare") => p < q
  BY DEF Adds, WritesOf
<1>2. Shape(d1)
  BY ONLY <1>1, ShapeLonger
<1>3. ASSUME NEW u \in Txn, u # t, Unended(u)' PROVE MineOf(d1, u)'
  <2>1. PICK lk, lk1, s, rw, rw1, st :
            /\ lk = lock /\ lk1 = lock' /\ s = sets[u] /\ rw = rows /\ rw1 = rows' /\ st = status[u]
            /\ s = sets'[u] /\ st = status'[u]
    BY <1>3 DEF Lone
  <2>2. SameFor(u, lk, lk1, rw, rw1)
    BY <1>3, <2>1 DEF Lone, SameFor
  <2>3. Writes(d1, d, t, lk1)
    BY <2>1 DEF Adds, Writes, Beyond
  <2>4. Mine(d, u, lk, s, rw, st)
    <3>1. Unended(u)
      BY <1>3 DEF Unended, Lone
    <3> QED BY <2>1, <3>1 DEF WritesOf, MineOf
  <2>5. Mine(d1, u, lk1, s, rw1, st)
    <3>1. Longer(d1, d) /\ u # t
      BY <1>1, <1>3
    <3> QED BY ONLY <2>2, <2>3, <2>4, <3>1, MineKeeps
  <2> QED BY <2>1, <2>5, MinePrimed
<1> QED BY <1>2, <1>3, ShapePrimed DEF Adds

\* What a crash may leave of the longer disk.
LEMMA GrowCuts ==
    ASSUME NEW d, NEW d1, Longer(d1, d), CutRows(d),
           \A p \in 1..Len(d) : Safe(d, p) => Safe(d1, p)',
           \A e \in Seq(Records) : ShowsCommits(e) => ShowsCommits(e)',
           \A e \in Seq(Records) : /\ Longer(e, d) /\ Len(e) > Len(d) /\ Len(e) <= Len(d1)
                                   /\ \A p \in 1..Len(e) : e[p] = d1[p]
                                   => ShowsCommits(e)'
    PROVE  CutRows(d1)'
<1>1. PICK D \in Nat, D1 \in Nat : /\ D = Len(d) /\ D1 = Len(d1) /\ D <= D1 /\ \A p \in 1..D : d1[p] = d[p]
                                   /\ d \in Seq(Records)
  BY DEF Longer
<1>2. ASSUME NEW c \in 0..D1, NEW e \in Seq(Records), IsCut(e, d1, c),
             \A p \in 1..D1 : Safe(d1, p)' => p <= c
      PROVE  ShowsCommits(e)'
  <2>1. Len(e) = c /\ \A p \in 1..c : e[p] = d1[p]
    BY <1>2 DEF IsCut
  <2>2. CASE c <= D
    <3>1. IsCut(e, d, c)
      <4>1. \A p \in 1..c : p \in 1..D
        BY <2>2
      <4> QED BY <1>1, <2>1, <4>1 DEF IsCut
    <3>2. \A p \in 1..D : Safe(d, p) => p <= c
      <4>1. \A p \in 1..D : p \in 1..D1
        BY <1>1
      <4> QED BY <1>1, <1>2, <4>1
    <3>3. c \in 0..Len(d)
      BY <1>1, <2>2
    <3>4. ShowsCommits(e)
      BY <1>1, <3>1, <3>2, <3>3 DEF CutRows
    <3> QED BY <3>4
  <2>3. CASE c > D
    <3>1. \A p \in 1..D : p \in 1..c
      BY <2>3
    <3>2. Longer(e, d)
      BY <1>1, <2>1, <2>3, <3>1 DEF Longer
    <3> QED BY <1>1, <2>1, <2>3, <3>2
  <2> QED BY <1>1, <2>2, <2>3
<1> QED BY <1>1, <1>2 DEF CutRows, IsCut

\* The disk before a step of a clean engine.
LEMMA BeforeStep ==
    ASSUME Rebuilds, mode = "up", ~stray
    PROVE  \A d : d = Kept => /\ WritesOf(d) /\ Shape(d) /\ CutRows(d)
                              /\ \A r \in Row : Shows(d, r, Now(r))
                              /\ \A t \in Txn : Unended(t) => MineOf(d, t)
BY DEF Rebuilds, WritesOf

\* A step that logs no commit marker.
LEMMA StepKeeps ==
    ASSUME Rebuilds, NEW t \in Txn, Lone(t), UNCHANGED <<order, base>>,
           \A r \in Row : Now(r)' = Now(r),
           Unended(t)' \/ DOMAIN sets'[t] = {},
           ~stray' => \E d, d1 : /\ Adds(t, d, d1)
                                 /\ d1 = d \/ (~Has(d, t, "commit") /\ ~Has(d, t, "image"))
                                 /\ \A p \in 1..Len(d1) : p > Len(d) => d1[p].kind # "commit"
    PROVE  Rebuilds'
<1>1. mode = "up" /\ mode' = "up" /\ ~ckpt /\ ~ckpt' /\ (stray => stray')
  BY DEF Lone
<1>2. order' \in Seq(Entries) /\ order' = order /\ base' = base
  BY DEF Rebuilds
<1>3. \A u \in Txn : ~Unended(u)' => DOMAIN sets'[u] = {}
  <2> SUFFICES ASSUME NEW u \in Txn, u # t, ~Unended(u)' PROVE DOMAIN sets'[u] = {}
    OBVIOUS
  <2>1. ~Unended(u) /\ sets'[u] = sets[u]
    BY DEF Unended, Lone
  <2> QED BY <1>1, <2>1 DEF Rebuilds
<1>4. \A n : Applied(n)' = Applied(n)
  BY <1>2 DEF Applied
<1>5. PICK L \in Nat : L = Len(order) /\ L = Len(order')
  BY <1>2
<1>6. \A r \in Row : Applied(L)[r] = Now(r)
  BY <1>1, <1>5 DEF Rebuilds
<1>7. \A r \in Row : (Applied(Len(order))[r] = Now(r))'
  <2> SUFFICES ASSUME NEW r \in Row PROVE (Applied(Len(order))[r] = Now(r))'
    OBVIOUS
  <2>1. Applied(Len(order))' = Applied(L)'
    BY <1>5
  <2>2. Applied(L)'[r] = Now(r)'
    BY <1>4, <1>6
  <2> QED BY <2>1, <2>2
<1>8. ASSUME NEW e \in Seq(Records), ShowsCommits(e) PROVE ShowsCommits(e)'
  <2>1. PICK n \in 0..L : \A r \in Row : Shows(e, r, Applied(n)[r])
    BY <1>5, <1>8 DEF ShowsCommits
  <2>2. PICK f : f = Applied(n)' /\ \A r \in Row : Shows(e, r, f[r])
    BY <1>4, <2>1
  <2>3. n \in 0..Len(order')
    BY <1>5
  <2> QED BY <2>2, <2>3, CommitsPrimed
<1>9. ASSUME ~stray' PROVE \A d1 \in {Kept'} : WritesOf(d1)'
  <2>1. PICK d, d1 : /\ Adds(t, d, d1)
                     /\ d1 = d \/ (~Has(d, t, "commit") /\ ~Has(d, t, "image"))
                     /\ \A p \in 1..Len(d1) : p > Len(d) => d1[p].kind # "commit"
    BY <1>9
  <2>2. WritesOf(d) /\ CutRows(d) /\ \A r \in Row : Shows(d, r, Now(r))
    BY <1>1, <1>9, <2>1, BeforeStep DEF Adds
  <2>3. Shape(d1)' /\ \A u \in Txn : Unended(u)' => MineOf(d1, u)'
    BY <2>1, <2>2, FrameWrites
  <2>4. /\ Longer(d1, d) /\ d1 = Kept' /\ d1 \in Seq(Records)
        /\ \A p \in 1..Len(d1) : p > Len(d) => d1[p].txn = t /\ d1[p].kind \notin {"commit", "image"}
        /\ \A p \in 1..Len(d) : Safe(d, p) => Safe(d1, p)'
    BY <2>1 DEF Adds, Longer
  <2>5. ASSUME NEW e, Longer(e, d), Len(e) <= Len(d1), \A p \in 1..Len(e) : e[p] = d1[p],
               NEW r \in Row
        PROVE  Shows(e, r, Now(r))
    <3>1. \A p \in 1..Len(e) : p > Len(d) => e[p].txn = t /\ e[p].kind \notin {"commit", "image"}
      <4>1. \A p \in 1..Len(e) : p \in 1..Len(d1)
        BY <2>4, <2>5 DEF Longer
      <4> QED BY <2>4, <2>5, <4>1
    <3>2. PICK v : v = Now(r) /\ Shows(d, r, v)
      BY <2>2
    <3>3. Longer(e, d)
      BY <2>5
    <3>4. CASE d1 = d
      <4>1. /\ d \in Seq(Records) /\ e \in Seq(Records) /\ Len(e) = Len(d)
            /\ \A p \in 1..Len(d) : e[p] = d[p]
        BY <2>5, <3>4 DEF Longer
      <4>2. e = d
        BY <4>1
      <4> QED BY <3>2, <4>2
    <3>5. CASE ~Has(d, t, "commit") /\ ~Has(d, t, "image")
      <4>1. Shows(e, r, v)
        BY ONLY <3>1, <3>2, <3>3, <3>5, ShowsKeeps
      <4> QED BY <3>2, <4>1
    <3> QED BY <2>1, <3>4, <3>5
  <2>6. ASSUME NEW r \in Row PROVE Shows(d1, r, Now(r))'
    <3>1. Len(d1) <= Len(d1) /\ \A p \in 1..Len(d1) : d1[p] = d1[p]
      BY <2>4
    <3>2. Shows(d1, r, Now(r))
      BY <2>4, <2>5, <3>1
    <3>3. PICK v : v = Now(r) /\ v = Now(r)' /\ Shows(d1, r, v)
      BY <3>2
    <3> QED BY <3>3, ShowsPrimed
  <2>7. ASSUME NEW e \in Seq(Records), Longer(e, d), Len(e) > Len(d), Len(e) <= Len(d1),
               \A p \in 1..Len(e) : e[p] = d1[p]
        PROVE  ShowsCommits(e)'
    <3>1. \A r \in Row : Shows(e, r, Now(r))
      BY <2>5, <2>7
    <3>2. PICK f : f = Applied(L)' /\ \A r \in Row : f[r] = Now(r)
      BY <1>4, <1>6
    <3>3. \A r \in Row : Shows(e, r, f[r])
      BY <3>1, <3>2
    <3>4. L \in 0..Len(order')
      BY <1>5
    <3> QED BY <3>2, <3>3, <3>4, CommitsPrimed
  <2>8. CutRows(d1)'
    BY <1>8, <2>2, <2>4, <2>7, GrowCuts
  <2> QED BY <1>1, <2>3, <2>4, <2>6, <2>8 DEF WritesOf
<1> QED BY <1>1, <1>2, <1>3, <1>7, <1>9 DEF Rebuilds

\* A marker adds nothing to what its transaction wrote.
LEMMA MineMarked ==
    ASSUME NEW d, NEW e, Longer(e, d), NEW t, NEW lk, NEW s, NEW rw, NEW st, NEW st1,
           \A p \in 1..Len(e) : p > Len(d) => e[p].kind \in {"commit", "abort"},
           st1 = "running" => st = "running",
           Mine(d, t, lk, s, rw, st)
    PROVE  Mine(e, t, lk, s, rw, st1)
<1>1. PICK D \in Nat, E \in Nat : D = Len(d) /\ E = Len(e) /\ D <= E /\ \A p \in 1..D : e[p] = d[p]
  BY DEF Longer
<1>2. \A p \in 1..E : e[p].kind \notin {"commit", "abort"} => p \in 1..D
  BY <1>1
<1>3. \A p \in 1..D : p \in 1..E
  BY <1>1
<1>4. \A k \in {"begin", "prepare"} : \A u : Has(e, u, k) <=> Has(d, u, k)
  BY <1>1, <1>2, <1>3 DEF Has, Is
<1>5. ASSUME NEW p \in 1..D PROVE Counts(e, p) <=> Counts(d, p)
  <2>1. e[p] = d[p]
    BY <1>1
  <2>2. (\E b \in 1..E : b < p /\ Is(e[b], d[p].txn, "begin"))
          <=> (\E b \in 1..D : b < p /\ Is(d[b], d[p].txn, "begin"))
    BY <1>1, <1>2, <1>3 DEF Is
  <2> QED BY <1>1, <1>4, <2>1, <2>2 DEF Counts
<1>6. \A p \in 1..E : \A r : WritesTo(e, p, t, r) <=> p \in 1..D /\ WritesTo(d, p, t, r)
  BY <1>1, <1>2 DEF WritesTo
<1>7. \A p \in 1..E : \A r : LastOf(e, p, t, r) <=> p \in 1..D /\ LastOf(d, p, t, r)
  BY <1>1, <1>3, <1>5, <1>6 DEF LastOf
<1>8. ASSUME NEW p \in 1..E, e[p].kind = "op", e[p].txn = t
      PROVE  /\ lk[e[p].row] = t
             /\ \A q \in 1..E : q > p /\ e[q].kind = "op" /\ e[q].row = e[p].row => e[q].txn = t
  <2>1. p \in 1..D /\ e[p] = d[p]
    BY <1>1, <1>2, <1>8
  <2>2. \A q \in 1..E : e[q].kind = "op" => q \in 1..D /\ e[q] = d[q]
    BY <1>1, <1>2
  <2> QED BY <1>1, <1>8, <2>1, <2>2 DEF Mine
<1>9. ASSUME NEW r \in DOMAIN s PROVE \E p \in 1..E : LastOf(e, p, t, r) /\ e[p].val = s[r]
  <2>1. PICK p \in 1..D : LastOf(d, p, t, r) /\ d[p].val = s[r]
    BY <1>1, <1>9 DEF Mine
  <2> QED BY <1>1, <1>3, <1>7, <2>1
<1>10. ASSUME NEW p \in 1..E, NEW r \in Row, LastOf(e, p, t, r), r \notin DOMAIN s
       PROVE  ~Has(e, t, "prepare") /\ e[p].val = rw[r]
  <2>1. p \in 1..D /\ LastOf(d, p, t, r) /\ e[p] = d[p]
    BY <1>1, <1>7, <1>10
  <2>2. ~Has(d, t, "prepare") /\ d[p].val = rw[r]
    BY <1>1, <1>10, <2>1 DEF Mine
  <2> QED BY <1>4, <2>1, <2>2
<1>11. ASSUME NEW p \in 1..E, Is(e[p], t, "prepare") PROVE e[p].locks = {r \in Row : lk[r] = t}
  <2>1. p \in 1..D /\ e[p] = d[p]
    BY <1>1, <1>2, <1>11 DEF Is
  <2> QED BY <1>1, <1>11, <2>1 DEF Mine
<1>12. st1 = "running" => ~Has(e, t, "begin")
  BY <1>4 DEF Mine
<1> QED BY <1>1, <1>8, <1>9, <1>10, <1>11, <1>12 DEF Mine

\* The committed rows once t waits for its marker.
LEMMA NowCommits ==
    ASSUME NEW t \in Txn, Nobody \notin Txn, Lone(t), UNCHANGED <<sets, lock, rows>>,
           status[t] # "committing", status'[t] = "committing",
           \A r \in DOMAIN sets[t] : lock[r] = t, lock \in [Row -> Txn \cup {Nobody}],
           NEW r \in Row
    PROVE  /\ r \in DOMAIN sets[t] => Now(r)' = sets[t][r]
           /\ r \notin DOMAIN sets[t] => Now(r)' = Now(r)
           /\ lock[r] = t => Now(r) = rows[r]
<1>1. CASE lock[r] = t
  BY <1>1 DEF Now, Pending
<1>2. CASE lock[r] = Nobody
  BY <1>2 DEF Now, Pending
<1>3. CASE lock[r] \in Txn \ {t}
  <2>1. status'[lock[r]] = status[lock[r]]
    BY <1>3 DEF Lone
  <2> QED BY <1>3, <2>1 DEF Now, Pending
<1> QED BY <1>1, <1>2, <1>3

\* A step that logs the commit marker of t.
LEMMA StepCommits ==
    ASSUME Rebuilds, NEW t \in Txn, Nobody \notin Txn, Lone(t), UNCHANGED <<sets, lock, rows, base>>,
           sets \in [Txn -> Nets], lock \in [Row -> Txn \cup {Nobody}],
           status[t] \in {"running", "prepared"}, status'[t] = "committing",
           \A r \in DOMAIN sets[t] : lock[r] = t,
           order' = Append(order, [txn |-> t, sets |-> sets[t]]),
           ~stray' => \E d, d1 : /\ Adds(t, d, d1) /\ Len(d1) = Len(d) + 1
                                 /\ ~Has(d, t, "commit") /\ ~Has(d, t, "image") /\ ~Has(d, t, "abort")
                                 /\ \A p \in 1..Len(d1) : p > Len(d) => d1[p].kind = "commit"
    PROVE  Rebuilds'
<1>1. mode = "up" /\ mode' = "up" /\ ~ckpt /\ ~ckpt' /\ (stray => stray')
  BY DEF Lone
<1>2. PICK x : x = [txn |-> t, sets |-> sets[t]] /\ x \in Entries /\ x.sets = sets[t]
  BY DEF Entries
<1>3. PICK L \in Nat, K \in Nat : L = Len(order) /\ K = L + 1 /\ order \in Seq(Entries)
  BY DEF Rebuilds
<1>4. ASSUME NEW r \in Row
      PROVE  /\ order' \in Seq(Entries) /\ Len(order') = K
             /\ \A n \in 0..L : Applied(n)'[r] = Applied(n)[r]
             /\ r \in DOMAIN sets[t] => Applied(K)'[r] = sets[t][r]
             /\ r \notin DOMAIN sets[t] => Applied(K)'[r] = Applied(L)[r]
  BY <1>2, <1>3, AppliedNext
<1>5. order' \in Seq(Entries) /\ Len(order') = K
  BY <1>2, <1>3
<1>6. ASSUME NEW r \in Row
      PROVE  /\ r \in DOMAIN sets[t] => Now(r)' = sets[t][r]
             /\ r \notin DOMAIN sets[t] => Now(r)' = Now(r)
             /\ lock[r] = t => Now(r) = rows[r]
  BY NowCommits
<1>7. \A u \in Txn : ~Unended(u)' => DOMAIN sets'[u] = {}
  <2> SUFFICES ASSUME NEW u \in Txn, ~Unended(u)' PROVE DOMAIN sets'[u] = {}
    OBVIOUS
  <2>1. u # t
    BY DEF Unended
  <2>2. ~Unended(u) /\ sets'[u] = sets[u]
    BY <2>1 DEF Unended, Lone
  <2> QED BY <1>1, <2>2 DEF Rebuilds
<1>8. ASSUME NEW r \in Row PROVE Applied(K)'[r] = Now(r)'
  <2>1. Applied(L)[r] = Now(r)
    BY <1>1, <1>3 DEF Rebuilds
  <2> QED BY <1>4, <1>6, <2>1
<1>9. \A r \in Row : (Applied(Len(order))[r] = Now(r))'
  <2> SUFFICES ASSUME NEW r \in Row PROVE (Applied(Len(order))[r] = Now(r))'
    OBVIOUS
  <2>1. Applied(Len(order))' = Applied(K)'
    BY <1>5
  <2> QED BY <1>8, <2>1
<1>10. ASSUME NEW e \in Seq(Records), ShowsCommits(e) PROVE ShowsCommits(e)'
  <2>1. PICK n \in 0..L : \A r \in Row : Shows(e, r, Applied(n)[r])
    BY <1>3, <1>10 DEF ShowsCommits
  <2>2. PICK f : f = Applied(n)'
    OBVIOUS
  <2>3. \A r \in Row : f[r] = Applied(n)[r]
    BY <1>4, <2>2
  <2>4. \A r \in Row : Shows(e, r, f[r])
    BY <2>1, <2>3
  <2>5. n \in 0..Len(order')
    BY <1>3, <1>5
  <2> QED BY <2>2, <2>4, <2>5, CommitsPrimed
<1>11. ASSUME ~stray' PROVE \A d1 \in {Kept'} : WritesOf(d1)'
  <2>1. PICK d, d1 : /\ Adds(t, d, d1) /\ Len(d1) = Len(d) + 1
                     /\ ~Has(d, t, "commit") /\ ~Has(d, t, "image") /\ ~Has(d, t, "abort")
                     /\ \A p \in 1..Len(d1) : p > Len(d) => d1[p].kind = "commit"
    BY <1>11
  <2>2. WritesOf(d) /\ CutRows(d) /\ Shape(d) /\ \A r \in Row : Shows(d, r, Now(r))
    BY <1>1, <1>11, <2>1, BeforeStep DEF Adds
  <2>3. Shape(d1)' /\ \A u \in Txn : Unended(u)' => MineOf(d1, u)'
    BY <2>1, <2>2, FrameWrites
  <2>4. /\ Longer(d1, d) /\ d1 = Kept' /\ d1 \in Seq(Records) /\ d \in Seq(Records)
        /\ \A p \in 1..Len(d1) : p > Len(d) => d1[p].txn = t /\ d1[p].kind = "commit"
        /\ \A p \in 1..Len(d) : Safe(d, p) => Safe(d1, p)'
    BY <2>1 DEF Adds, Longer
  <2>m. Mine(d, t, lock, sets[t], rows, status[t])
    BY <2>2 DEF WritesOf, Unended, MineOf
  <2>5. ASSUME NEW r \in Row, NEW x1, x1 = Now(r)' PROVE Shows(d1, r, x1)
    <3>1. PICK v, s, rw : v = Now(r) /\ s = sets[t] /\ rw = rows[r]
      OBVIOUS
    <3>2. /\ Shows(d, r, v) /\ (r \in DOMAIN s => x1 = s[r]) /\ (r \notin DOMAIN s => x1 = v)
          /\ lock[r] = t => v = rw
      BY <1>6, <2>2, <2>5, <3>1
    <3>3. \A p, q \in 1..Len(d) : d[p].kind = "op" /\ d[p].txn = t
                                  /\ q > p /\ d[q].kind = "op" /\ d[q].row = d[p].row => d[q].txn = t
      <4>1. \A p \in 1..Len(d) : d[p].kind = "op" /\ d[p].txn = t =>
                \A q \in 1..Len(d) : q > p /\ d[q].kind = "op" /\ d[q].row = d[p].row => d[q].txn = t
        BY <2>m, Zenon DEF Mine
      <4> QED BY ONLY <4>1
    <3>4. r \in DOMAIN s => \E p \in 1..Len(d) : LastOf(d, p, t, r) /\ d[p].val = s[r]
      BY <2>m, <3>1 DEF Mine
    <3>5. ASSUME NEW p \in 1..Len(d), LastOf(d, p, t, r), r \notin DOMAIN s PROVE d[p].val = v
      <4>1. d[p].val = rw
        BY <2>m, <3>1, <3>5 DEF Mine
      <4>2. lock[r] = t
        <5>1. d[p].kind = "op" /\ d[p].txn = t /\ d[p].row = r
          BY <3>5 DEF LastOf, WritesTo
        <5> QED BY <2>m, <5>1 DEF Mine
      <4> QED BY <3>2, <4>1, <4>2
    <3>6. Len(d) < Len(d1)
      BY <2>1, <2>4
    <3> QED BY ONLY <2>1, <2>2, <2>4, <2>5, <3>2, <3>3, <3>4, <3>5, <3>6, ShowsCommit
  <2>6. ASSUME NEW r \in Row PROVE Shows(d1, r, Now(r))'
    <3>1. PICK v : v = Now(r)' /\ Shows(d1, r, v)
      BY <2>5
    <3> QED BY <3>1, ShowsPrimed
  <2>7. ASSUME NEW e \in Seq(Records), Longer(e, d), Len(e) > Len(d), Len(e) <= Len(d1),
               \A p \in 1..Len(e) : e[p] = d1[p]
        PROVE  ShowsCommits(e)'
    <3>1. Len(e) = Len(d1)
      BY <2>1, <2>4, <2>7
    <3>2. e = d1
      BY <2>4, <2>7, <3>1
    <3>3. PICK f : f = Applied(K)' /\ \A r \in Row : f[r] = Now(r)'
      BY <1>8
    <3>4. \A r \in Row : Shows(e, r, f[r])
      BY <2>5, <3>2, <3>3
    <3>5. K \in 0..Len(order')
      BY <1>5
    <3> QED BY <3>3, <3>4, <3>5, CommitsPrimed
  <2>8. CutRows(d1)'
    BY <1>10, <2>2, <2>4, <2>7, GrowCuts
  <2> QED BY <1>1, <2>3, <2>4, <2>6, <2>8 DEF WritesOf
<1> QED BY <1>1, <1>5, <1>7, <1>9, <1>11 DEF Rebuilds

-----------------------------------------------------------------------------
(* What a clean engine has on disk                                         *)

CleanDisk(d) == d = Kept /\ d \in Seq(Records) /\ Cuts(d) /\ Folds(d) /\ Kinds(d) /\ Owed(d)

LEMMA CleanIs ==
    ASSUME TypeInv, Honest, Up, ~stray
    PROVE  \E d : /\ CleanDisk(d) /\ Climbs
                  /\ Len(d) <= Len(image) + Len(log) /\ Len(image) <= Len(d)
<1>1. PICK d : d = Kept
  OBVIOUS
<1>2. Climbs /\ ~ckpt /\ DiskInv(d) /\ mode = "up"
  BY <1>1 DEF Honest, Up
<1>3. LogType
  BY DEF TypeInv
<1>4. Cuts(d) /\ Folds(d) /\ Kinds(d) /\ Owed(d)
  BY <1>2 DEF DiskInv, CutInv
<1>5. d \in Seq(Records) /\ Len(d) <= Len(image) + Len(log) /\ Len(image) <= Len(d)
  BY <1>1, <1>2, <1>3, KeptIs
<1> QED BY <1>1, <1>2, <1>4, <1>5 DEF CleanDisk

\* Logging leaves safe what was.
LEMMA LoggedSafe ==
    ASSUME TypeInv, Honest, Up, ~stray, NEW recs \in Seq(Records), Logged(recs)
    PROVE  \E d, d1 : /\ CleanDisk(d) /\ d1 = Kept' /\ Extends(d1, d, recs) /\ Longer(d1, d)
                      /\ \A p \in 1..Len(d) : Safe(d, p) => Safe(d1, p)'
<1>1. PICK d : /\ CleanDisk(d) /\ Climbs
               /\ Len(d) <= Len(image) + Len(log) /\ Len(image) <= Len(d)
  BY CleanIs
<1>2. LogType /\ ~ckpt
  BY DEF TypeInv, Up
<1>3. PICK a \in Nat : a = nextLsn
  BY <1>2, TwoPhaseAssumption DEF LogType
<1>4. PICK d1 \in Seq(Records) :
                 /\ d1 = Kept' /\ Len(d1) = Len(d) + Len(recs) /\ d \in Seq(Records)
                 /\ \A p \in 1..Len(d) : d1[p] = d[p]
                 /\ \A i \in 1..Len(recs) : d1[Len(d) + i] = recs[i]
  BY <1>1, <1>2, <1>3, Grow DEF CleanDisk
<1>5. Extends(d1, d, recs)
  BY <1>4 DEF Extends
<1>6. PICK D \in Nat, D1 \in Nat, m \in Nat : D = Len(d) /\ D1 = Len(d1) /\ m = Len(recs) /\ D1 = D + m
  BY <1>4
<1>7. Longer(d1, d)
  BY <1>4, <1>6 DEF Longer
<1>8. PICK l \in Seq(Frames), L \in Nat, I \in Nat, u \in Nat :
            l = log /\ L = Len(l) /\ I = Len(image) /\ u = durable /\ D <= I + L /\ I <= D
  <2>1. log \in Seq(Frames) /\ image \in Seq(Records) /\ durable \in Nat
    BY <1>2, TwoPhaseAssumption DEF LogType
  <2> QED BY <1>1, <1>6, <2>1
<1>9. PICK l1 : l1 = log' /\ Len(l1) = L + m /\ \A i \in 1..L : l1[i] = l[i]
  <2>1. Framed(recs) \in Seq(Frames) /\ Len(Framed(recs)) = Len(recs)
    BY <1>2, FramedIs DEF Logged
  <2>2. log' = l \o Framed(recs)
    BY <1>8 DEF Logged
  <2>3. /\ Len(l \o Framed(recs)) = Len(l) + Len(Framed(recs))
        /\ \A p \in 1..Len(l) : (l \o Framed(recs))[p] = l[p]
    BY <2>1, Appended
  <2> QED BY <1>6, <1>8, <2>1, <2>2, <2>3
<1>10. ASSUME NEW p \in 1..D, Safe(d, p) PROVE Safe(d1, p)'
  <2>1. image' = image /\ durable' = durable
    BY DEF Logged
  <2>2. CASE p <= I
    BY <1>8, <2>1, <2>2 DEF Safe
  <2>3. CASE p > I
    <3>1. L - D + p \in 1..L /\ (L + m) - (D + m) + p = L - D + p
      BY <1>8, <2>3
    <3>2. l[L - D + p].lsn <= u
      BY <1>6, <1>8, <1>10, <2>3 DEF Safe, Lsn
    <3>3. l1[(L + m) - (D + m) + p].lsn <= u
      BY <1>9, <3>1, <3>2
    <3>4. Lsn(d1, p)' = l1[(L + m) - (D + m) + p].lsn
      BY <1>6, <1>9 DEF Lsn
    <3> QED BY <1>8, <2>1, <3>3, <3>4 DEF Safe
  <2> QED BY <1>8, <2>2, <2>3
<1> QED BY <1>1, <1>4, <1>5, <1>6, <1>7, <1>10

\* So does a log that stays and gets more durable.
LEMMA QuietSafe ==
    ASSUME TypeInv, TypeInv', Honest, Up, ~stray, UNCHANGED <<log, nextLsn, image, covered, ckpt>>,
           durable <= durable'
    PROVE  \E d : /\ CleanDisk(d) /\ d = Kept' /\ Longer(d, d)
                  /\ \A p \in 1..Len(d) : Safe(d, p) => Safe(d, p)'
<1>1. PICK d : /\ CleanDisk(d) /\ Climbs
               /\ Len(d) <= Len(image) + Len(log) /\ Len(image) <= Len(d)
  BY CleanIs
<1>2. LogType /\ LogType'
  BY DEF TypeInv
<1>3. d = Kept'
  BY <1>1 DEF CleanDisk, Kept, Disk, DiskWith
<1>4. Longer(d, d)
  BY <1>1 DEF Longer, CleanDisk
<1>5. PICK l \in Seq(Frames), L \in Nat, D \in Nat, I \in Nat, u \in Nat, u1 \in Nat :
            /\ l = log /\ L = Len(l) /\ D = Len(d) /\ I = Len(image) /\ u = durable /\ u1 = durable'
            /\ D <= I + L /\ I <= D /\ u <= u1
  <2>1. log \in Seq(Frames) /\ image \in Seq(Records) /\ durable \in Nat /\ durable' \in Nat
    BY <1>2, TwoPhaseAssumption DEF LogType
  <2> QED BY <1>1, <2>1 DEF CleanDisk
<1>6. ASSUME NEW p \in 1..D, Safe(d, p) PROVE Safe(d, p)'
  <2>1. CASE p <= I
    BY <1>5, <2>1 DEF Safe
  <2>2. CASE p > I
    <3>1. L - D + p \in 1..L
      BY <1>5, <2>2
    <3>2. l[L - D + p].lsn \in Nat
      <4>1. \A f \in Frames : f.lsn \in Nat
        BY DEF Frames
      <4> QED BY <1>5, <3>1, <4>1
    <3>3. l[L - D + p].lsn <= u
      BY <1>5, <1>6, <2>2 DEF Safe, Lsn
    <3>4. l[L - D + p].lsn <= u1
      BY <1>5, <3>2, <3>3
    <3>5. Lsn(d, p)' = l[L - D + p].lsn
      BY <1>5 DEF Lsn
    <3> QED BY <1>5, <3>4, <3>5 DEF Safe
  <2> QED BY <1>5, <2>1, <2>2
<1> QED BY <1>1, <1>3, <1>4, <1>5, <1>6

-----------------------------------------------------------------------------
(* Steps that log nothing                                                  *)

LEMMA OpRows ==
    ASSUME NEW d \in Seq(Records)
    PROVE  \A p \in 1..Len(d) : d[p].kind = "op" => d[p].row \in Row
<1>1. \A rec \in Records : rec.kind = "op" => rec.row \in Row
  BY DEF Records
<1> QED BY <1>1

LEMMA MineNone ==
    ASSUME NEW d, NEW t, \A p \in 1..Len(d) : d[p].txn # t, NEW lk, NEW s, DOMAIN s = {}, NEW rw,
           NEW st
    PROVE  Mine(d, t, lk, s, rw, st)
<1>1. ~Has(d, t, "begin") /\ ~Has(d, t, "prepare")
  BY DEF Has, Is
<1>2. \A p \in 1..Len(d) : \A r : ~LastOf(d, p, t, r)
  BY DEF LastOf, WritesTo
<1>3. \A p \in 1..Len(d) : ~Is(d[p], t, "prepare") /\ d[p].txn # t
  BY DEF Is
<1> QED BY <1>1, <1>2, <1>3 DEF Mine

LEMMA NowKeeps ==
    ASSUME NEW t \in Txn, Lone(t), lock \in [Row -> Txn \cup {Nobody}], lock' \in [Row -> Txn \cup {Nobody}],
           NEW r \in Row, lock[r] = Nobody /\ lock'[r] = Nobody => rows'[r] = rows[r],
           lock[r] = t \/ lock'[r] = t => Now(r)' = Now(r)
    PROVE  Now(r)' = Now(r)
<1>1. CASE lock[r] = t \/ lock'[r] = t
  BY <1>1
<1>2. CASE lock[r] \in Txn \ {t}
  BY <1>2 DEF Lone, Now, Pending
<1>3. CASE lock'[r] \in Txn \ {t}
  BY <1>3 DEF Lone, Now, Pending
<1>4. CASE lock[r] = Nobody /\ lock'[r] = Nobody
  BY <1>4 DEF Now, Pending
<1> QED BY <1>1, <1>2, <1>3, <1>4

LEMMA QuietKeeps ==
    ASSUME TypeInv, TypeInv', Honest, Rebuilds, Up, NEW t \in Txn, Lone(t), stray' = stray,
           UNCHANGED <<log, nextLsn, image, covered, ckpt, order, base>>, durable <= durable',
           \A r \in Row : Now(r)' = Now(r), Unended(t)' \/ DOMAIN sets'[t] = {},
           \A d : CleanDisk(d) /\ WritesOf(d) /\ Unended(t)' => MineOf(d, t)'
    PROVE  Rebuilds'
<1>1. ASSUME ~stray'
      PROVE  \E d, d1 : /\ Adds(t, d, d1)
                        /\ d1 = d \/ (~Has(d, t, "commit") /\ ~Has(d, t, "image"))
                        /\ \A p \in 1..Len(d1) : p > Len(d) => d1[p].kind # "commit"
  <2>1. PICK d : /\ CleanDisk(d) /\ d = Kept' /\ Longer(d, d)
                 /\ \A p \in 1..Len(d) : Safe(d, p) => Safe(d, p)'
    BY <1>1, QuietSafe
  <2>2. WritesOf(d)
    BY <1>1, <2>1, BeforeStep DEF CleanDisk, Up
  <2>3. \A p \in 1..Len(d) : ~(p > Len(d))
    BY <2>1 DEF CleanDisk
  <2>4. Adds(t, d, d)
    BY <2>1, <2>2, <2>3 DEF Adds, CleanDisk
  <2> QED BY <2>3, <2>4
<1> QED BY <1>1, StepKeeps

LEMMA BeginRebuilds ==
    ASSUME TypeInv, TypeInv', Honest, Rebuilds, NEW t \in Txn, Begin(t)
    PROVE  Rebuilds'
<1>1. /\ Up /\ t = nextTxn /\ UNCHANGED <<mode, log, nextLsn, durable, image, covered, ckpt, sets, lock, rows,
                                          order, base, stray>>
      /\ status' = [status EXCEPT ![t] = "running"]
  BY DEF Begin, logVars, histVars, boundVars
<1>2. /\ status \in [Txn -> Statuses] /\ durable \in Nat /\ nextTxn \in Nat
      /\ lock \in [Row -> Txn \cup {Nobody}] /\ lock' \in [Row -> Txn \cup {Nobody}]
  BY TwoPhaseAssumption DEF TypeInv, TxnType, LogType
<1>3. Lone(t)
  BY <1>1, <1>2 DEF Lone, Up
<1>4. status[t] = "none"
  BY <1>1, <1>2 DEF Honest, PromiseInv, PromiseOf
<1>5. \A r \in Row : Now(r)' = Now(r)
  <2> SUFFICES ASSUME NEW r \in Row PROVE Now(r)' = Now(r)
    OBVIOUS
  <2>1. lock[r] = t => Now(r)' = Now(r)
    BY <1>1, <1>2, <1>4 DEF Now, Pending
  <2> QED BY <1>1, <1>2, <1>3, <2>1, NowKeeps
<1>6. Unended(t)' /\ DOMAIN sets[t] = {}
  <2>1. status'[t] = "running"
    BY <1>1, <1>2
  <2> QED BY <1>1, <1>4, <2>1 DEF Unended, Rebuilds, Up
<1>7. ASSUME NEW d, CleanDisk(d) PROVE MineOf(d, t)'
  <2>1. \A p \in 1..Len(d) : d[p].txn # t
    <3>1. \A p \in 1..Len(d) : d[p].txn < nextTxn
      BY <1>7 DEF CleanDisk, Folds
    <3> QED BY <1>1, <1>2, <3>1
  <2>2. PICK lk, s, rw, st : lk = lock' /\ s = sets'[t] /\ rw = rows' /\ st = status'[t] /\ DOMAIN s = {}
    BY <1>1, <1>6
  <2>3. Mine(d, t, lk, s, rw, st)
    BY ONLY <2>1, <2>2, MineNone
  <2> QED BY <2>2, <2>3, MinePrimed
<1>8. durable <= durable'
  BY <1>1, <1>2
<1> QED BY <1>1, <1>3, <1>5, <1>6, <1>7, <1>8, QuietKeeps

LEMMA LockRowRebuilds ==
    ASSUME TypeInv, TypeInv', Honest, Rebuilds, NEW t \in Txn, NEW r \in Row, LockRow(t, r)
    PROVE  Rebuilds'
<1>1. /\ Up /\ UNCHANGED <<mode, log, nextLsn, durable, image, covered, ckpt, sets, status, rows,
                           order, base, stray>>
      /\ status[t] = "running" /\ lock[r] = Nobody /\ lock' = [lock EXCEPT ![r] = t]
  BY DEF LockRow, logVars, histVars, boundVars
<1>2. /\ durable \in Nat
      /\ lock \in [Row -> Txn \cup {Nobody}] /\ lock' \in [Row -> Txn \cup {Nobody}]
  BY TwoPhaseAssumption DEF TypeInv, TxnType, LogType
<1>3. Lone(t)
  BY <1>1, <1>2, NobodyIs DEF Lone, Up
<1>5. \A x \in Row : Now(x)' = Now(x)
  <2> SUFFICES ASSUME NEW x \in Row PROVE Now(x)' = Now(x)
    OBVIOUS
  <2>1. lock[x] = t \/ lock'[x] = t => Now(x)' = Now(x)
    BY <1>1, <1>2 DEF Now, Pending
  <2> QED BY <1>1, <1>2, <1>3, <2>1, NowKeeps
<1>6. Unended(t)' /\ Unended(t)
  BY <1>1 DEF Unended
<1>7. ASSUME NEW d, CleanDisk(d), WritesOf(d) PROVE MineOf(d, t)'
  <2>1. ~Has(d, t, "prepare")
    BY <1>1, <1>7, RunningHas DEF CleanDisk
  <2>2. PICK lk, lk1, s, rw, st : /\ lk = lock /\ lk1 = lock' /\ s = sets[t] /\ rw = rows /\ st = status[t]
                                  /\ s = sets'[t] /\ rw = rows' /\ st = status'[t]
    BY <1>1
  <2>3. Mine(d, t, lk, s, rw, st)
    BY <1>6, <1>7, <2>2 DEF WritesOf, MineOf
  <2>4. \A x \in Row : lk[x] = t => lk1[x] = t
    BY <1>1, <1>2, <2>2
  <2>r. \A p \in 1..Len(d) : d[p].kind = "op" => d[p].row \in Row
    BY <1>7, OpRows DEF CleanDisk
  <2>5. \A p \in 1..Len(d) : ~Is(d[p], t, "prepare")
    BY <2>1 DEF Has
  <2>6. Mine(d, t, lk1, s, rw, st)
    BY <2>3, <2>4, <2>5, <2>r DEF Mine
  <2> QED BY <2>2, <2>6, MinePrimed
<1>8. durable <= durable'
  BY <1>1, <1>2
<1> QED BY <1>1, <1>3, <1>5, <1>6, <1>7, <1>8, QuietKeeps

\* A PREPARE is answered; the group's fsync.
LEMMA QuietRebuilds ==
    ASSUME TypeInv, TypeInv', Honest, Rebuilds, Up, NEW t \in Txn, durable <= durable',
           UNCHANGED <<mode, log, nextLsn, image, covered, ckpt, status, sets, lock, rows, order, base, stray>>
    PROVE  Rebuilds'
<1>1. Lone(t)
  BY DEF Lone, Up
<1>2. \A x \in Row : Now(x)' = Now(x)
  BY DEF Now, Pending
<1>3. Unended(t)' \/ DOMAIN sets'[t] = {}
  BY DEF Unended, Rebuilds, Up
<1>4. ASSUME NEW d, WritesOf(d), Unended(t)' PROVE MineOf(d, t)'
  <2>1. PICK lk, s, rw, st : /\ lk = lock' /\ s = sets'[t] /\ rw = rows' /\ st = status'[t]
                             /\ lk = lock /\ s = sets[t] /\ rw = rows /\ st = status[t]
    OBVIOUS
  <2>2. Mine(d, t, lk, s, rw, st)
    BY <1>4, <2>1 DEF WritesOf, MineOf, Unended
  <2> QED BY <2>1, <2>2, MinePrimed
<1> QED BY <1>1, <1>2, <1>3, <1>4, QuietKeeps

LEMMA PrepareReturnsRebuilds ==
    ASSUME TypeInv, TypeInv', Honest, Rebuilds, NEW t \in Txn, PrepareReturns(t)
    PROVE  Rebuilds'
<1>1. /\ Up /\ durable' = durable
      /\ UNCHANGED <<mode, log, nextLsn, image, covered, ckpt, status, sets, lock, rows, order, base, stray>>
  BY DEF PrepareReturns, logVars, txnVars, boundVars
<1>2. durable \in Nat
  BY TwoPhaseAssumption DEF TypeInv, LogType
<1> QED BY <1>1, <1>2, QuietRebuilds

LEMMA FsyncRebuilds ==
    ASSUME TypeInv, TypeInv', Honest, Rebuilds, Fsync
    PROVE  Rebuilds'
<1>1. PICK t \in Txn : TRUE
  BY DEF Fsync
<1>2. /\ Up /\ durable' = nextLsn - 1
      /\ UNCHANGED <<mode, log, nextLsn, image, covered, ckpt, status, sets, lock, rows, order, base, stray>>
  BY DEF Fsync, txnVars, histVars, boundVars
<1>3. durable <= durable'
  BY <1>2, TwoPhaseAssumption DEF TypeInv, LogType
<1> QED BY <1>1, <1>2, <1>3, QuietRebuilds

\* A commit becomes visible.
LEMMA Committed1Rebuilds ==
    ASSUME TypeInv, TypeInv', Honest, Rebuilds, NEW t \in Txn, Committed1(t)
    PROVE  Rebuilds'
<1>1. /\ Up /\ UNCHANGED <<mode, log, nextLsn, durable, image, covered, ckpt, order, base, stray>>
      /\ status[t] = "committing" /\ status' = [status EXCEPT ![t] = "committed"]
      /\ sets' = [sets EXCEPT ![t] = <<>>] /\ lock' = Unlocked(t) /\ rows' = Overlay(sets[t], rows)
  BY DEF Committed1, logVars, boundVars
<1>2. /\ durable \in Nat /\ status \in [Txn -> Statuses] /\ sets \in [Txn -> Nets]
      /\ lock \in [Row -> Txn \cup {Nobody}] /\ lock' \in [Row -> Txn \cup {Nobody}]
      /\ rows \in [Row -> Valued]
  BY TwoPhaseAssumption DEF TypeInv, TxnType, LogType
<1>3. \A r \in DOMAIN sets[t] : lock[r] = t
  BY <1>1 DEF Honest, MemoryInv, MemoryOf, Up
<1>4. \A r \in Row : lock'[r] = IF lock[r] = t THEN Nobody ELSE lock[r]
  BY <1>1 DEF Unlocked
<1>5. \A r \in Row : rows'[r] = IF r \in DOMAIN sets[t] THEN sets[t][r] ELSE rows[r]
  BY <1>1, <1>2 DEF Overlay
<1>6. Lone(t)
  BY <1>1, <1>2, <1>3, <1>4, <1>5, NobodyIs DEF Lone, Up
<1>7. ASSUME NEW r \in Row PROVE Now(r)' = Now(r)
  <2>1. lock'[r] # t
    BY <1>4, NobodyIs
  <2>2. lock[r] = t => Now(r)' = Now(r)
    BY <1>1, <1>4, <1>5, NobodyIs DEF Now, Pending
  <2>3. lock[r] = Nobody => rows'[r] = rows[r]
    BY <1>3, <1>5, NobodyIs
  <2> QED BY <1>2, <1>6, <2>1, <2>2, <2>3, NowKeeps
<1>8. DOMAIN sets'[t] = {} /\ ~Unended(t)'
  <2>1. sets'[t] = <<>> /\ status'[t] = "committed"
    BY <1>1, <1>2
  <2> QED BY <2>1 DEF Unended
<1>9. durable <= durable'
  BY <1>1, <1>2
<1> QED BY <1>1, <1>6, <1>7, <1>8, <1>9, QuietKeeps

\* What a rollback does in memory.
LEMMA UndoneIs ==
    ASSUME TypeInv, TypeInv', Up, NEW t \in Txn, Undone(t), UNCHANGED <<mode, rows, stray>>, ~ckpt',
           status[t] # "committing"
    PROVE  /\ Lone(t) /\ (\A r \in Row : Now(r)' = Now(r)) /\ DOMAIN sets'[t] = {} /\ ~Unended(t)'
<1>1. /\ status' = [status EXCEPT ![t] = "aborted"] /\ sets' = [sets EXCEPT ![t] = <<>>]
      /\ lock' = Unlocked(t)
  BY DEF Undone
<1>2. /\ status \in [Txn -> Statuses] /\ sets \in [Txn -> Nets]
      /\ lock \in [Row -> Txn \cup {Nobody}] /\ lock' \in [Row -> Txn \cup {Nobody}]
  BY DEF TypeInv, TxnType
<1>3. \A r \in Row : lock'[r] = IF lock[r] = t THEN Nobody ELSE lock[r]
  BY <1>1 DEF Unlocked
<1>4. Lone(t)
  BY <1>1, <1>2, <1>3, NobodyIs DEF Lone, Up
<1>5. ASSUME NEW r \in Row PROVE Now(r)' = Now(r)
  <2>1. lock'[r] # t
    BY <1>3, NobodyIs
  <2>2. lock[r] = t => Now(r)' = Now(r)
    BY <1>3, NobodyIs DEF Now, Pending
  <2> QED BY <1>2, <1>4, <2>1, <2>2, NowKeeps
<1>6. DOMAIN sets'[t] = {} /\ ~Unended(t)'
  <2>1. sets'[t] = <<>> /\ status'[t] = "aborted"
    BY <1>1, <1>2
  <2> QED BY <2>1 DEF Unended
<1> QED BY <1>4, <1>5, <1>6

LEMMA Undo1Rebuilds ==
    ASSUME TypeInv, TypeInv', Honest, Rebuilds, NEW t \in Txn, Undo1(t)
    PROVE  Rebuilds'
<1>1. /\ Up /\ UNCHANGED <<mode, log, nextLsn, durable, image, covered, ckpt, order, base, stray, rows>>
      /\ status[t] = "aborting" /\ Undone(t)
  BY DEF Undo1, logVars, boundVars
<1>2. ~ckpt' /\ status[t] # "committing"
  BY <1>1 DEF Up
<1>3. /\ Lone(t) /\ (\A r \in Row : Now(r)' = Now(r)) /\ DOMAIN sets'[t] = {} /\ ~Unended(t)'
  BY <1>1, <1>2, UndoneIs
<1>4. durable <= durable'
  BY <1>1, TwoPhaseAssumption DEF TypeInv, LogType
<1> QED BY <1>1, <1>3, <1>4, QuietKeeps

\* An append that fails.
LEMMA PrepareFailsRebuilds ==
    ASSUME TypeInv, TypeInv', Honest, Rebuilds, NEW t \in Txn, NEW g \in Gid, PrepareAppendFails(t, g)
    PROVE  Rebuilds'
<1>1. /\ Up /\ UNCHANGED <<mode, ckpt, order, base, sets, lock, rows>> /\ stray' = TRUE
      /\ status[t] = "running" /\ status' = [status EXCEPT ![t] = "refused"]
  BY DEF PrepareAppendFails, LoggedInPart, histVars, Gated, Up
<1>2. /\ status \in [Txn -> Statuses]
      /\ lock \in [Row -> Txn \cup {Nobody}] /\ lock' \in [Row -> Txn \cup {Nobody}]
  BY DEF TypeInv, TxnType
<1>3. Lone(t)
  BY <1>1, <1>2 DEF Lone, Up
<1>4. ASSUME NEW r \in Row PROVE Now(r)' = Now(r)
  <2>1. lock[r] = t => Now(r)' = Now(r)
    BY <1>1, <1>2 DEF Now, Pending
  <2> QED BY <1>1, <1>2, <1>3, <2>1, NowKeeps
<1>5. Unended(t)'
  <2>1. status'[t] = "refused"
    BY <1>1, <1>2
  <2> QED BY <2>1 DEF Unended
<1> QED BY <1>1, <1>3, <1>4, <1>5, StepKeeps

LEMMA FinishFailsRebuilds ==
    ASSUME TypeInv, TypeInv', Honest, Rebuilds, NEW g \in Gid, FinishAppendFails(g)
    PROVE  Rebuilds'
<1>1. /\ Up /\ UNCHANGED <<mode, ckpt, order, base, status, sets, lock, rows>> /\ stray' = TRUE
      /\ gids[g] # Nobody
  BY DEF FinishAppendFails, LoggedInPart, histVars, txnVars, Gated, Up
<1>2. PICK t \in Txn : t = gids[g]
  BY <1>1 DEF TypeInv, TxnType
<1>3. Lone(t)
  BY <1>1 DEF Lone, Up
<1>4. \A x \in Row : Now(x)' = Now(x)
  BY <1>1 DEF Now, Pending
<1>5. Unended(t)' \/ DOMAIN sets'[t] = {}
  BY <1>1 DEF Unended, Rebuilds, Up
<1> QED BY <1>1, <1>3, <1>4, <1>5, StepKeeps

-----------------------------------------------------------------------------
(* Markers                                                                 *)

LEMMA MarkerAdds ==
    ASSUME TypeInv, Honest, Rebuilds, Up, ~stray, NEW t \in Txn, NEW rec \in Records, rec.txn = t,
           rec.kind \in {"commit", "abort"}, Logged(<<rec>>),
           Unended(t)' => Unended(t) /\ UNCHANGED <<sets, lock, rows>> /\ status'[t] # "running"
    PROVE  \E d, d1 : /\ Adds(t, d, d1) /\ CleanDisk(d) /\ Len(d1) = Len(d) + 1
                      /\ \A p \in 1..Len(d1) : p > Len(d) => d1[p] = rec
<1>1. PICK recs \in Seq(Records) : recs = <<rec>> /\ Len(recs) = 1 /\ recs[1] = rec
  BY OneRecord
<1>2. Logged(recs)
  BY <1>1
<1>3. PICK d, d1 : /\ CleanDisk(d) /\ d1 = Kept' /\ Extends(d1, d, recs) /\ Longer(d1, d)
                   /\ \A p \in 1..Len(d) : Safe(d, p) => Safe(d1, p)'
  BY <1>2, LoggedSafe
<1>4. WritesOf(d)
  BY <1>3, BeforeStep DEF CleanDisk, Up
<1>5. PICK D \in Nat : D = Len(d) /\ Len(d1) = D + 1 /\ d1[D + 1] = rec
  <2>1. Len(d) \in Nat /\ 1 \in 1..Len(recs)
    BY <1>1, <1>3 DEF CleanDisk
  <2> QED BY <1>1, <1>3, <2>1 DEF Extends
<1>6. \A p \in 1..Len(d1) : p > Len(d) => d1[p] = rec
  BY <1>5
<1>7. ASSUME Unended(t)' PROVE MineOf(d1, t)'
  <2>1. PICK lk, s, rw, st, st1 : /\ lk = lock' /\ s = sets'[t] /\ rw = rows' /\ st1 = status'[t]
                                  /\ lk = lock /\ s = sets[t] /\ rw = rows /\ st = status[t]
    BY <1>7
  <2>2. Mine(d, t, lk, s, rw, st)
    BY <1>4, <1>7, <2>1 DEF WritesOf, MineOf
  <2>3. /\ st1 # "running" /\ Longer(d1, d)
        /\ \A p \in 1..Len(d1) : p > Len(d) => d1[p].kind \in {"commit", "abort"}
    BY <1>3, <1>6, <1>7, <2>1
  <2>4. Mine(d1, t, lk, s, rw, st1)
    BY ONLY <2>2, <2>3, MineMarked
  <2> QED BY <2>1, <2>4, MinePrimed
<1>8. Adds(t, d, d1)
  BY <1>3, <1>6, <1>7 DEF Adds, CleanDisk
<1> QED BY <1>3, <1>5, <1>6, <1>8

\* A transaction that may still commit has no marker on the disk, and no image is its.
LEMMA OpenHas ==
    ASSUME TypeInv, Honest, NEW d, CleanDisk(d), NEW t \in Txn, status[t] \in {"running", "prepared"}
    PROVE  ~Has(d, t, "commit") /\ ~Has(d, t, "image") /\ ~Has(d, t, "abort")
<1>1. t \notin folded
  BY DEF Honest, PromiseInv, PromiseOf, Ended
<1>2. ~Has(d, t, "image")
  BY <1>1 DEF CleanDisk, Folds, Has, Is
<1>3. ~Has(d, t, "commit") /\ ~Has(d, t, "abort")
  BY DEF CleanDisk, Kinds, KindOk, Has, Is
<1> QED BY <1>2, <1>3

LEMMA AbortRebuilds ==
    ASSUME TypeInv, TypeInv', Honest, Rebuilds, NEW t \in Txn,
           Rollback(t) \/ PrepareRefused(t) \/ PrepareAborted(t)
    PROVE  Rebuilds'
<1>1. /\ Up /\ UNCHANGED <<mode, order, base, stray, rows, ckpt>> /\ Undone(t) /\ Logged(<<AbortTxn(t)>>)
      /\ status[t] = "running" \/ status[t] = "refused"
  <2>1. CASE Rollback(t)
    BY <2>1 DEF Rollback, boundVars, Logged
  <2>2. CASE PrepareRefused(t)
    BY <2>2 DEF PrepareRefused, boundVars, Gated, Logged
  <2>3. CASE PrepareAborted(t)
    BY <2>3 DEF PrepareAborted, boundVars, Logged
  <2> QED BY <2>1, <2>2, <2>3
<1>2. ~ckpt' /\ status[t] # "committing"
  BY <1>1 DEF Up
<1>3. /\ Lone(t) /\ (\A r \in Row : Now(r)' = Now(r)) /\ DOMAIN sets'[t] = {} /\ ~Unended(t)'
  BY <1>1, <1>2, UndoneIs
<1>4. ASSUME ~stray'
      PROVE  \E d, d1 : /\ Adds(t, d, d1)
                        /\ d1 = d \/ (~Has(d, t, "commit") /\ ~Has(d, t, "image"))
                        /\ \A p \in 1..Len(d1) : p > Len(d) => d1[p].kind # "commit"
  <2>1. ~stray /\ status[t] = "running"
    BY <1>1, <1>4, RunningIs
  <2>2. PICK rec \in Records : rec = AbortTxn(t) /\ rec.txn = t /\ rec.kind = "abort"
    BY RecordsAre
  <2>3. Logged(<<rec>>) /\ rec.kind \in {"commit", "abort"}
    BY <1>1, <2>2
  <2>4. PICK d, d1 : /\ Adds(t, d, d1) /\ CleanDisk(d)
                     /\ \A p \in 1..Len(d1) : p > Len(d) => d1[p] = rec
    BY <1>1, <1>3, <2>1, <2>2, <2>3, MarkerAdds
  <2>5. ~Has(d, t, "commit") /\ ~Has(d, t, "image")
    BY <2>1, <2>4, OpenHas
  <2>6. \A p \in 1..Len(d1) : p > Len(d) => d1[p].kind # "commit"
    BY <2>2, <2>4
  <2> QED BY <2>4, <2>5, <2>6
<1> QED BY <1>1, <1>3, <1>4, StepKeeps

\* The name g is t's.
LEMMA NamedIs ==
    ASSUME TypeInv, Honest, Up, NEW g \in Gid, NEW t \in Txn, gids[g] = t
    PROVE  status[t] = "prepared" /\ \A r \in DOMAIN sets[t] : lock[r] = t
BY DEF Honest, MemoryInv, MemoryOf, Up

LEMMA CommitRebuilds ==
    ASSUME TypeInv, TypeInv', Honest, Rebuilds, NEW t \in Txn, Up, status[t] \in {"running", "prepared"},
           Logged(<<CommitTxn(t)>>), status' = [status EXCEPT ![t] = "committing"],
           order' = Append(order, [txn |-> t, sets |-> sets[t]]),
           UNCHANGED <<mode, sets, lock, rows, base, stray>>
    PROVE  Rebuilds'
<1>1. /\ status \in [Txn -> Statuses] /\ sets \in [Txn -> Nets] /\ lock \in [Row -> Txn \cup {Nobody}]
      /\ ckpt' = ckpt
  BY DEF TypeInv, TxnType, Logged
<1>2. Lone(t)
  BY <1>1 DEF Lone, Up
<1>3. \A r \in DOMAIN sets[t] : lock[r] = t
  BY DEF Honest, MemoryInv, MemoryOf, Up
<1>4. status'[t] = "committing"
  BY <1>1
<1>5. ASSUME ~stray'
      PROVE  \E d, d1 : /\ Adds(t, d, d1) /\ Len(d1) = Len(d) + 1
                        /\ ~Has(d, t, "commit") /\ ~Has(d, t, "image") /\ ~Has(d, t, "abort")
                        /\ \A p \in 1..Len(d1) : p > Len(d) => d1[p].kind = "commit"
  <2>1. PICK rec \in Records : rec = CommitTxn(t) /\ rec.txn = t /\ rec.kind = "commit"
    BY RecordsAre
  <2>2. Logged(<<rec>>) /\ rec.kind \in {"commit", "abort"} /\ ~stray
    BY <1>5, <2>1
  <2>3. Unended(t) /\ status'[t] # "running"
    BY <1>4 DEF Unended
  <2>4. PICK d, d1 : /\ Adds(t, d, d1) /\ CleanDisk(d) /\ Len(d1) = Len(d) + 1
                     /\ \A p \in 1..Len(d1) : p > Len(d) => d1[p] = rec
    BY <2>1, <2>2, <2>3, MarkerAdds
  <2>5. ~Has(d, t, "commit") /\ ~Has(d, t, "image") /\ ~Has(d, t, "abort")
    BY <2>4, OpenHas
  <2> QED BY <2>1, <2>4, <2>5
<1> QED BY <1>1, <1>2, <1>3, <1>4, <1>5, NobodyIs, StepCommits

LEMMA CommitStageRebuilds ==
    ASSUME TypeInv, TypeInv', Honest, Rebuilds, NEW t \in Txn, CommitStage(t)
    PROVE  Rebuilds'
<1>1. /\ Up /\ status[t] = "running" /\ Logged(<<CommitTxn(t)>>)
      /\ status' = [status EXCEPT ![t] = "committing"]
      /\ order' = Append(order, [txn |-> t, sets |-> sets[t]])
      /\ UNCHANGED <<mode, sets, lock, rows, base, stray>>
  BY DEF CommitStage, Gated, boundVars
<1> QED BY <1>1, CommitRebuilds

LEMMA FinishRebuilds ==
    ASSUME TypeInv, TypeInv', Honest, Rebuilds, NEW g \in Gid, FinishCommit(g) \/ FinishRollback(g)
    PROVE  Rebuilds'
<1>1. Up /\ gids[g] # Nobody
  BY DEF FinishCommit, FinishRollback, Gated
<1>2. PICK t \in Txn : t = gids[g]
  BY <1>1 DEF TypeInv, TxnType
<1>3. status[t] = "prepared"
  BY <1>1, <1>2, NamedIs
<1>4. CASE FinishCommit(g)
  <2>1. /\ Logged(<<CommitTxn(t)>>)
        /\ status' = [status EXCEPT ![t] = "committing"]
        /\ order' = Append(order, [txn |-> t, sets |-> sets[t]])
        /\ UNCHANGED <<mode, sets, lock, rows, base, stray>>
    BY <1>2, <1>4 DEF FinishCommit, boundVars
  <2> QED BY <1>1, <1>3, <2>1, CommitRebuilds
<1>5. CASE FinishRollback(g)
  <2>1. /\ Logged(<<AbortTxn(t)>>)
        /\ status' = [status EXCEPT ![t] = "aborting"]
        /\ UNCHANGED <<mode, sets, lock, rows, base, stray, order>>
    BY <1>2, <1>5 DEF FinishRollback, boundVars, histVars
  <2>2. /\ status \in [Txn -> Statuses] /\ lock \in [Row -> Txn \cup {Nobody}] /\ ckpt' = ckpt
    BY <2>1 DEF TypeInv, TxnType, Logged
  <2>3. Lone(t) /\ status'[t] = "aborting"
    BY <1>1, <2>1, <2>2 DEF Lone, Up
  <2>4. ASSUME NEW r \in Row PROVE Now(r)' = Now(r)
    <3>1. lock[r] = t => Now(r)' = Now(r)
      BY <1>3, <2>1, <2>3 DEF Now, Pending
    <3>2. lock' \in [Row -> Txn \cup {Nobody}]
      BY <2>1, <2>2
    <3> QED BY <2>1, <2>2, <2>3, <3>1, <3>2, NowKeeps
  <2>5. Unended(t)' /\ Unended(t)
    BY <1>3, <2>3 DEF Unended
  <2>6. ASSUME ~stray'
        PROVE  \E d, d1 : /\ Adds(t, d, d1)
                          /\ d1 = d \/ (~Has(d, t, "commit") /\ ~Has(d, t, "image"))
                          /\ \A p \in 1..Len(d1) : p > Len(d) => d1[p].kind # "commit"
    <3>1. PICK rec \in Records : rec = AbortTxn(t) /\ rec.txn = t /\ rec.kind = "abort"
      BY RecordsAre
    <3>2. Logged(<<rec>>) /\ rec.kind \in {"commit", "abort"} /\ ~stray
      BY <2>1, <2>6, <3>1
    <3>3. status'[t] # "running"
      BY <2>3
    <3>4. PICK d, d1 : /\ Adds(t, d, d1) /\ CleanDisk(d)
                       /\ \A p \in 1..Len(d1) : p > Len(d) => d1[p] = rec
      BY <1>1, <2>1, <2>5, <3>1, <3>2, <3>3, MarkerAdds
    <3>5. ~Has(d, t, "commit") /\ ~Has(d, t, "image")
      BY <1>3, <3>4, OpenHas
    <3>6. \A p \in 1..Len(d1) : p > Len(d) => d1[p].kind # "commit"
      BY <3>1, <3>4
    <3> QED BY <3>4, <3>5, <3>6
  <2> QED BY <2>1, <2>3, <2>4, <2>5, <2>6, StepKeeps
<1> QED BY <1>4, <1>5

-----------------------------------------------------------------------------
(* Writes                                                                  *)

OneMore(e, d, rec) == Longer(e, d) /\ Len(e) = Len(d) + 1 /\ e[Len(d) + 1] = rec

\* t takes row r, and keeps what it has.
Takes(lk, lk1, t, r) == lk1[r] = t /\ \A x \in Row : lk[x] = t => lk1[x] = t

\* A write of v to r makes net effect s1 of s: v there, or none if v is the old value.
NetOp(s, s1, r, v, rw) ==
    /\ \A x \in DOMAIN s1 : x # r => x \in DOMAIN s /\ s1[x] = s[x]
    /\ \A x \in DOMAIN s : x # r => x \in DOMAIN s1
    /\ r \in DOMAIN s1 => v = s1[r]
    /\ r \notin DOMAIN s1 => v = rw[r]

\* One more write of a transaction that has not prepared.
LEMMA MineOp ==
    ASSUME NEW d, NEW e, NEW rec, OneMore(e, d, rec), NEW t, NEW r \in Row,
           rec.kind = "op", rec.txn = t, rec.row = r, ~Has(d, t, "prepare"),
           NEW lk, NEW lk1, NEW s, NEW s1, NEW rw, NEW st, NEW v, v = rec.val,
           Takes(lk, lk1, t, r), NetOp(s, s1, r, v, rw), Mine(d, t, lk, s, rw, st)
    PROVE  Mine(e, t, lk1, s1, rw, st)
<1>a. lk1[r] = t /\ \A x \in Row : lk[x] = t => lk1[x] = t
  BY DEF Takes
<1>b. /\ \A x \in DOMAIN s1 : x # r => x \in DOMAIN s /\ s1[x] = s[x]
      /\ \A x \in DOMAIN s : x # r => x \in DOMAIN s1
      /\ r \in DOMAIN s1 => rec.val = s1[r]
      /\ r \notin DOMAIN s1 => rec.val = rw[r]
  BY DEF NetOp
<1>1. PICK D \in Nat, E \in Nat : /\ D = Len(d) /\ E = D + 1 /\ E = Len(e) /\ \A p \in 1..D : e[p] = d[p]
                                  /\ e[E] = rec /\ E \in 1..E /\ d \in Seq(Records)
  BY DEF Longer, OneMore
<1>2. \A p \in 1..E : p \in 1..D \/ p = E
  BY <1>1
<1>3. \A p \in 1..D : p \in 1..E /\ p < E
  BY <1>1
<1>4. ~Has(e, t, "prepare") /\ (Has(e, t, "begin") => Has(d, t, "begin"))
  BY <1>1, <1>2 DEF Has, Is
<1>5. /\ \A p \in 1..D : d[p].txn = t => Counts(d, p)
      /\ \A p \in 1..E : e[p].txn = t => Counts(e, p)
  BY <1>4 DEF Counts
<1>6. \A p \in 1..D : \A x : WritesTo(e, p, t, x) <=> WritesTo(d, p, t, x)
  BY <1>1 DEF WritesTo
<1>7. \A x : WritesTo(e, E, t, x) <=> x = r
  BY <1>1 DEF WritesTo
<1>8. \A p \in 1..E : \A x : WritesTo(e, p, t, x) => e[p].txn = t
  BY DEF WritesTo
<1>9. LastOf(e, E, t, r)
  <2>1. \A q \in 1..E : ~(q > E)
    BY <1>1
  <2> QED BY <1>1, <1>5, <1>7, <1>8, <2>1 DEF LastOf
<1>10. ASSUME NEW p \in 1..E, NEW x, x # r PROVE LastOf(e, p, t, x) <=> p \in 1..D /\ LastOf(d, p, t, x)
  <2>1. LastOf(e, p, t, x) => p \in 1..D /\ LastOf(d, p, t, x)
    <3> SUFFICES ASSUME LastOf(e, p, t, x) PROVE p \in 1..D /\ LastOf(d, p, t, x)
      OBVIOUS
    <3>1. WritesTo(e, p, t, x) /\ p # E
      BY <1>7, <1>10 DEF LastOf
    <3>2. p \in 1..D /\ WritesTo(d, p, t, x) /\ Counts(d, p)
      BY <1>1, <1>2, <1>5, <1>6, <3>1 DEF WritesTo
    <3> QED BY <1>1, <1>3, <1>6, <3>2 DEF LastOf
  <2>2. ASSUME p \in 1..D, LastOf(d, p, t, x) PROVE LastOf(e, p, t, x)
    <3>1. WritesTo(e, p, t, x) /\ Counts(e, p)
      BY <1>1, <1>5, <1>6, <1>8, <2>2 DEF LastOf
    <3>2. \A q \in 1..E : q > p => ~WritesTo(e, q, t, x)
      BY <1>1, <1>2, <1>6, <1>7, <1>10, <2>2 DEF LastOf
    <3> QED BY <1>1, <3>1, <3>2 DEF LastOf
  <2> QED BY <2>1, <2>2
<1>11. ASSUME NEW p \in 1..E, LastOf(e, p, t, r) PROVE p = E
  <2>1. ~(E > p)
    BY <1>1, <1>7, <1>11 DEF LastOf
  <2> QED BY <1>1, <2>1
<1>12. ASSUME NEW p \in 1..E, e[p].kind = "op", e[p].txn = t
       PROVE  /\ lk1[e[p].row] = t
              /\ \A q \in 1..E : q > p /\ e[q].kind = "op" /\ e[q].row = e[p].row => e[q].txn = t
  <2>1. CASE p = E
    <3>1. \A q \in 1..E : ~(q > E)
      BY <1>1
    <3> QED BY <1>a, <1>1, <2>1, <3>1
  <2>2. CASE p \in 1..D
    <3>1. /\ lk[d[p].row] = t
          /\ \A q \in 1..D : q > p /\ d[q].kind = "op" /\ d[q].row = d[p].row => d[q].txn = t
      BY <1>1, <1>12, <2>2 DEF Mine
    <3>2. d[p].row \in Row
      BY <1>1, <1>12, <2>2, OpRows
    <3> QED BY <1>a, <1>1, <1>2, <2>2, <3>1, <3>2
  <2> QED BY <1>2, <2>1, <2>2
<1>13. ASSUME NEW x \in DOMAIN s1 PROVE \E p \in 1..E : LastOf(e, p, t, x) /\ e[p].val = s1[x]
  <2>1. CASE x = r
    BY <1>b, <1>1, <1>9, <1>13, <2>1
  <2>2. CASE x # r
    <3>1. x \in DOMAIN s /\ s1[x] = s[x]
      BY <1>b, <1>13, <2>2
    <3>2. PICK p \in 1..D : LastOf(d, p, t, x) /\ d[p].val = s[x]
      BY <1>1, <3>1 DEF Mine
    <3> QED BY <1>1, <1>3, <1>10, <2>2, <3>1, <3>2
  <2> QED BY <2>1, <2>2
<1>14. ASSUME NEW p \in 1..E, NEW x \in Row, LastOf(e, p, t, x), x \notin DOMAIN s1
       PROVE  e[p].val = rw[x]
  <2>1. CASE x = r
    BY <1>b, <1>1, <1>11, <1>14, <2>1
  <2>2. CASE x # r
    <3>1. p \in 1..D /\ LastOf(d, p, t, x) /\ x \notin DOMAIN s
      BY <1>b, <1>10, <1>14, <2>2
    <3>2. d[p].val = rw[x]
      BY <1>1, <3>1 DEF Mine
    <3> QED BY <1>1, <3>1, <3>2
  <2> QED BY <2>1, <2>2
<1>15. \A p \in 1..E : ~Is(e[p], t, "prepare")
  BY <1>1, <1>4 DEF Has
<1>16. st = "running" => ~Has(e, t, "begin")
  BY <1>4 DEF Mine
<1> QED BY <1>1, <1>4, <1>12, <1>13, <1>14, <1>15, <1>16 DEF Mine

LEMMA OpRebuilds ==
    ASSUME TypeInv, TypeInv', Honest, Rebuilds, NEW t \in Txn, NEW r \in Row, NEW v \in Valued,
           Up, status[t] = "running", lock[r] \in {Nobody, t}, lock' = [lock EXCEPT ![r] = t],
           \A u \in Txn \ {t} : sets'[u] = sets[u], Logged(<<Op(t, r, v)>>),
           UNCHANGED <<mode, status, rows, order, base, stray>>, NEW s1, s1 = sets'[t],
           NEW s, s = sets[t], NEW rw, rw = rows, NetOp(s, s1, r, v, rw)
    PROVE  Rebuilds'
<1>1. /\ lock \in [Row -> Txn \cup {Nobody}] /\ lock' \in [Row -> Txn \cup {Nobody}] /\ ckpt' = ckpt
  BY DEF TypeInv, TxnType, Logged
<1>2. Lone(t)
  BY <1>1, NobodyIs DEF Lone, Up
<1>3. ASSUME NEW x \in Row PROVE Now(x)' = Now(x)
  <2>1. lock[x] = t \/ lock'[x] = t => Now(x)' = Now(x)
    BY <1>1 DEF Now, Pending
  <2> QED BY <1>1, <1>2, <2>1, NowKeeps
<1>4. Unended(t)' /\ Unended(t)
  BY DEF Unended
<1>5. ASSUME ~stray'
      PROVE  \E d, d1 : /\ Adds(t, d, d1)
                        /\ d1 = d \/ (~Has(d, t, "commit") /\ ~Has(d, t, "image"))
                        /\ \A p \in 1..Len(d1) : p > Len(d) => d1[p].kind # "commit"
  <2>1. PICK rec \in Records : /\ rec = Op(t, r, v) /\ rec.txn = t /\ rec.kind = "op" /\ rec.row = r
                               /\ rec.val = v
    BY RecordsAre
  <2>2. PICK recs \in Seq(Records) : recs = <<rec>> /\ Len(recs) = 1 /\ recs[1] = rec
    BY OneRecord
  <2>3. Logged(recs) /\ ~stray
    BY <1>5, <2>1, <2>2
  <2>4. PICK d, d1 : /\ CleanDisk(d) /\ d1 = Kept' /\ Extends(d1, d, recs) /\ Longer(d1, d)
                     /\ \A p \in 1..Len(d) : Safe(d, p) => Safe(d1, p)'
    BY <2>3, LoggedSafe
  <2>5. WritesOf(d)
    BY <2>3, <2>4, BeforeStep DEF CleanDisk, Up
  <2>6. PICK D \in Nat : D = Len(d) /\ Len(d1) = D + 1 /\ d1[D + 1] = rec
    <3>1. Len(d) \in Nat /\ 1 \in 1..Len(recs)
      BY <2>2, <2>4 DEF CleanDisk
    <3> QED BY <2>2, <2>4, <3>1 DEF Extends
  <2>7. \A p \in 1..Len(d1) : p > Len(d) => d1[p] = rec
    BY <2>6
  <2>8. ~Has(d, t, "prepare")
    BY <2>4, RunningHas DEF CleanDisk
  <2>9. PICK lk, lk1, st : /\ lk1 = lock' /\ s1 = sets'[t] /\ rw = rows' /\ st = status'[t]
                                  /\ lk = lock /\ s = sets[t] /\ rw = rows /\ st = status[t]
    OBVIOUS
  <2>10. Mine(d, t, lk, s, rw, st)
    BY <1>4, <2>5, <2>9 DEF WritesOf, MineOf
  <2>11. Takes(lk, lk1, t, r)
    BY <1>1, <2>9 DEF Takes
  <2>12. NetOp(s, s1, r, v, rw)
    OBVIOUS
  <2>13. OneMore(d1, d, rec)
    BY <2>4, <2>6 DEF OneMore
  <2>14. Mine(d1, t, lk1, s1, rw, st)
    BY ONLY r \in Row, <2>1, <2>8, <2>10, <2>11, <2>12, <2>13, MineOp
  <2>15. MineOf(d1, t)'
    BY <2>9, <2>14, MinePrimed
  <2>16. \A q \in 1..Len(d1) : ~Is(d1[q], t, "prepare")
    <3>1. \A q \in 1..D : ~Is(d[q], t, "prepare") /\ d1[q] = d[q]
      BY <2>4, <2>6, <2>8 DEF Has, Extends
    <3>2. \A q \in 1..(D + 1) : q \in 1..D \/ q = D + 1
      BY <2>6
    <3> QED BY <2>1, <2>6, <3>1, <3>2 DEF Is
  <2>17. lock'[r] = t
    BY <1>1
  <2>18. Adds(t, d, d1)
    BY <2>1, <2>4, <2>7, <2>15, <2>16, <2>17 DEF Adds, CleanDisk
  <2>19. ~Has(d, t, "commit") /\ ~Has(d, t, "image")
    BY <2>4, OpenHas
  <2> QED BY <2>1, <2>7, <2>18, <2>19
<1> QED BY <1>2, <1>3, <1>4, <1>5, StepKeeps

LEMMA WriteRebuilds ==
    ASSUME TypeInv, TypeInv', Honest, Rebuilds, NEW t \in Txn, NEW r \in Row, Write(t, r) \/ Unwrite(t, r)
    PROVE  Rebuilds'
<1>1. /\ Up /\ status[t] = "running" /\ UNCHANGED <<mode, status, rows, order, base, stray>>
  BY DEF Write, Unwrite, histVars, boundVars
<1>2. /\ sets \in [Txn -> Nets] /\ lock \in [Row -> Txn \cup {Nobody}] /\ rows \in [Row -> Valued]
  BY DEF TypeInv, TxnType
<1>3. CASE Write(t, r)
  <2>1. PICK s1 : s1 = With(sets[t], r, t) /\ s1 = sets'[t] /\ \A u \in Txn \ {t} : sets'[u] = sets[u]
    BY <1>2, <1>3 DEF Write
  <2>2. DOMAIN s1 = DOMAIN sets[t] \cup {r} /\ s1[r] = t /\ \A x \in DOMAIN sets[t] : x # r => s1[x] = sets[t][x]
    BY <2>1 DEF With
  <2>3. lock[r] \in {Nobody, t} /\ lock' = [lock EXCEPT ![r] = t] /\ Logged(<<Op(t, r, t)>>)
    BY <1>3 DEF Write
  <2>4. PICK v, s, rw : v \in Valued /\ v = t /\ s = sets[t] /\ rw = rows
    BY DEF Valued
  <2>5. NetOp(s, s1, r, v, rw)
    BY <2>2, <2>4 DEF NetOp
  <2>6. Logged(<<Op(t, r, v)>>)
    BY <2>3, <2>4
  <2> QED BY <1>1, <2>1, <2>3, <2>4, <2>5, <2>6, OpRebuilds
<1>4. CASE Unwrite(t, r)
  <2>1. PICK s1 : s1 = Without(sets[t], {r}) /\ s1 = sets'[t] /\ \A u \in Txn \ {t} : sets'[u] = sets[u]
    BY <1>2, <1>4 DEF Unwrite
  <2>2. DOMAIN s1 = DOMAIN sets[t] \ {r} /\ \A x \in DOMAIN sets[t] : x # r => s1[x] = sets[t][x]
    BY <2>1 DEF Without
  <2>3. lock[r] = t /\ lock' = lock /\ Logged(<<Op(t, r, rows[r])>>)
    <3>1. \A x \in DOMAIN sets[t] : lock[x] = t
      BY <1>1, RunningIs
    <3> QED BY <1>4, <3>1 DEF Unwrite
  <2>4. rows[r] \in Valued /\ lock' = [lock EXCEPT ![r] = t] /\ lock[r] \in {Nobody, t}
    BY <1>2, <2>3
  <2>5. PICK v, s, rw : v \in Valued /\ v = rows[r] /\ s = sets[t] /\ rw = rows
    BY <2>4
  <2>6. Logged(<<Op(t, r, v)>>) /\ NetOp(s, s1, r, v, rw)
    BY <2>2, <2>3, <2>5 DEF NetOp
  <2> QED BY <1>1, <2>1, <2>4, <2>5, <2>6, OpRebuilds
<1> QED BY <1>3, <1>4

\* The records of its prepare: from here on they are what counts.
LEMMA MineProgram ==
    ASSUME NEW d, NEW e, Longer(e, d), NEW rs, Extends(e, d, rs), NEW t \in Txn, NEW g, NEW lk, NEW s, NEW rw,
           NEW ls, ls = {r \in Row : lk[r] = t}, IsProgram(rs, t, g, ls, s), s \in Nets, g \in Gid,
           ~Has(d, t, "prepare"), \A r \in DOMAIN s : lk[r] = t, Mine(d, t, lk, s, rw, "running")
    PROVE  Mine(e, t, lk, s, rw, "prepared")
<1>1. PICK D \in Nat, E \in Nat, m \in Nat :
            /\ D = Len(d) /\ E = Len(e) /\ m = Len(rs) /\ m >= 2 /\ E = D + m
            /\ \A p \in 1..D : e[p] = d[p]
            /\ \A i \in 1..m : e[D + i] = rs[i]
            /\ d \in Seq(Records) /\ e \in Seq(Records)
  <2>1. /\ d \in Seq(Records) /\ rs \in Seq(Records) /\ e \in Seq(Records)
        /\ Len(e) = Len(d) + Len(rs) /\ Len(rs) >= 2
        /\ \A p \in 1..Len(d) : e[p] = d[p]
        /\ \A i \in 1..Len(rs) : e[Len(d) + i] = rs[i]
    BY DEF Extends, IsProgram
  <2>2. Len(d) \in Nat /\ Len(e) \in Nat /\ Len(rs) \in Nat
    BY <2>1
  <2> QED BY <2>1, <2>2
<1>2. /\ rs[1].kind = "begin" /\ rs[1].txn = t
      /\ rs[m].kind = "prepare" /\ rs[m].txn = t /\ rs[m].locks = ls
  <2>1. ls \in SUBSET Row
    OBVIOUS
  <2> QED BY <1>1, <2>1, RecordsAre DEF IsProgram
<1>3. \A x \in DOMAIN s : /\ x \in Row /\ Op(t, x, s[x]).kind = "op" /\ Op(t, x, s[x]).txn = t
                          /\ Op(t, x, s[x]).row = x /\ Op(t, x, s[x]).val = s[x]
  BY RecordsAre, NetsAre
<1>4. \A i \in 2..(m - 1) : /\ rs[i].kind = "op" /\ rs[i].txn = t /\ rs[i].row \in DOMAIN s
                            /\ rs[i].val = s[rs[i].row]
  <2> SUFFICES ASSUME NEW i \in 2..(m - 1)
               PROVE  /\ rs[i].kind = "op" /\ rs[i].txn = t /\ rs[i].row \in DOMAIN s
                      /\ rs[i].val = s[rs[i].row]
    OBVIOUS
  <2>1. PICK x \in DOMAIN s : rs[i] = Op(t, x, s[x])
    BY <1>1 DEF IsProgram
  <2> QED BY <1>3, <2>1
<1>5. ASSUME NEW p \in 1..E, ~(p \in 1..D)
      PROVE  /\ e[p].txn = t
             /\ e[p].kind = "begin" \/ e[p].kind = "op" \/ e[p].kind = "prepare"
             /\ e[p].kind = "op" => e[p].row \in DOMAIN s /\ e[p].val = s[e[p].row]
             /\ e[p].kind = "prepare" => e[p].locks = ls
  <2>1. PICK i \in 1..m : p = D + i /\ e[p] = rs[i] /\ (i = 1 \/ i = m \/ i \in 2..(m - 1))
    <3>1. p - D \in 1..m /\ D + (p - D) = p /\ (p - D = 1 \/ p - D = m \/ p - D \in 2..(m - 1))
      BY <1>1, <1>5
    <3> QED BY <1>1, <3>1
  <2>2. CASE i = 1
    BY <1>2, <2>1, <2>2
  <2>3. CASE i = m
    BY <1>2, <2>1, <2>3
  <2>4. CASE i \in 2..(m - 1)
    BY <1>4, <2>1, <2>4
  <2> QED BY <2>1, <2>2, <2>3, <2>4
<1>6. \A p \in 1..D : p \in 1..E
  BY <1>1
<1>7. D + 1 \in 1..E /\ Is(e[D + 1], t, "begin") /\ ~(D + 1 \in 1..D)
  BY <1>1, <1>2 DEF Is
<1>8. ASSUME NEW p \in 1..E, e[p].kind = "op", e[p].txn = t
      PROVE  /\ lk[e[p].row] = t
             /\ \A q \in 1..E : q > p /\ e[q].kind = "op" /\ e[q].row = e[p].row => e[q].txn = t
  <2>1. CASE p \in 1..D
    <3>1. /\ lk[d[p].row] = t
          /\ \A q \in 1..D : q > p /\ d[q].kind = "op" /\ d[q].row = d[p].row => d[q].txn = t
      BY <1>1, <1>8, <2>1 DEF Mine
    <3>2. ASSUME NEW q \in 1..E, q > p, e[q].kind = "op", e[q].row = e[p].row PROVE e[q].txn = t
      <4>1. CASE q \in 1..D
        BY <1>1, <2>1, <3>1, <3>2, <4>1
      <4>2. CASE ~(q \in 1..D)
        BY <1>5, <4>2
      <4> QED BY <4>1, <4>2
    <3> QED BY <1>1, <2>1, <3>1, <3>2
  <2>2. CASE ~(p \in 1..D)
    <3>1. \A q \in 1..E : q > p => ~(q \in 1..D)
      BY <1>1, <2>2
    <3> QED BY <1>5, <1>8, <2>2, <3>1
  <2> QED BY <2>1, <2>2
<1>9. ASSUME NEW r \in DOMAIN s PROVE \E p \in 1..E : LastOf(e, p, t, r) /\ e[p].val = s[r]
  <2>1. PICK i \in 2..(m - 1) : rs[i] = Op(t, r, s[r])
    BY <1>1, <1>9 DEF IsProgram
  <2>2. D + i \in 1..E /\ D + 1 < D + i /\ e[D + i] = rs[i] /\ i \in 1..m
    <3>1. i \in 1..m /\ i \in Nat /\ i > 1
      BY <1>1, <2>1
    <3> QED BY <1>1, <3>1
  <2>3. WritesTo(e, D + i, t, r)
    BY <1>3, <1>9, <2>1, <2>2 DEF WritesTo
  <2>4. Counts(e, D + i)
    <3>1. e[D + i].txn = t
      BY <2>3 DEF WritesTo
    <3> QED BY <1>1, <1>7, <2>2, <3>1 DEF Counts
  <2>5. PICK p \in 1..E : LastOf(e, p, t, r)
    BY <1>1, <2>2, <2>3, <2>4, HasLast
  <2>6. ~(p \in 1..D)
    <3> SUFFICES ASSUME p \in 1..D PROVE FALSE
      OBVIOUS
    <3>1. D + i > p
      BY <1>1, <2>1
    <3> QED BY <1>1, <2>2, <2>3, <2>5, <3>1 DEF LastOf
  <2>7. e[p].kind = "op" /\ e[p].row = r
    BY <2>5 DEF LastOf, WritesTo
  <2> QED BY <1>5, <2>5, <2>6, <2>7
<1>10. ASSUME NEW p \in 1..E, NEW r \in Row, LastOf(e, p, t, r) PROVE r \in DOMAIN s
  <2>1. WritesTo(e, p, t, r) /\ Counts(e, p) /\ e[p].kind = "op" /\ e[p].txn = t /\ e[p].row = r
    BY <1>10 DEF LastOf, WritesTo
  <2>2. Has(e, t, "prepare")
    <3>1. D + m \in 1..E /\ e[D + m] = rs[m]
      <4>1. m \in 1..m
        BY <1>1
      <4> QED BY <1>1, <4>1
    <3> QED BY <1>1, <1>2, <3>1 DEF Has, Is
  <2>3. PICK b \in 1..E : b < p /\ Is(e[b], t, "begin")
    BY <1>1, <2>1, <2>2 DEF Counts
  <2>4. ~(b \in 1..D)
    <3>1. ~Has(d, t, "begin")
      BY DEF Mine
    <3> QED BY <1>1, <2>3, <3>1 DEF Has
  <2>5. ~(p \in 1..D)
    BY <1>1, <2>3, <2>4
  <2> QED BY <1>5, <2>1, <2>5
<1>11. ASSUME NEW p \in 1..E, Is(e[p], t, "prepare") PROVE e[p].locks = ls
  <2>1. ~(p \in 1..D)
    BY <1>1, <1>11 DEF Has
  <2> QED BY <1>5, <1>11, <2>1 DEF Is
<1> QED BY <1>1, <1>8, <1>9, <1>10, <1>11 DEF Mine

\* Its records, for the disk: t's own, the prepare last.
LEMMA ProgramTail ==
    ASSUME NEW d, NEW e, NEW rs, Extends(e, d, rs), NEW t \in Txn, NEW g \in Gid, NEW ls \in SUBSET Row, NEW s \in Nets,
           IsProgram(rs, t, g, ls, s), ~Has(d, t, "prepare")
    PROVE  /\ \A p \in 1..Len(e) : p > Len(d) =>
                 /\ e[p].txn = t /\ e[p].kind \in {"begin", "op", "prepare"}
                 /\ e[p].kind = "op" => e[p].row \in DOMAIN s
           /\ \A p, q \in 1..Len(e) : p > Len(d) /\ e[p].kind = "op" /\ Is(e[q], t, "prepare") => p < q
<1>1. PICK D \in Nat, E \in Nat, m \in Nat :
            /\ D = Len(d) /\ E = Len(e) /\ m = Len(rs) /\ m >= 2 /\ E = D + m
            /\ \A p \in 1..D : e[p] = d[p]
            /\ \A i \in 1..m : e[D + i] = rs[i]
  <2>1. /\ d \in Seq(Records) /\ rs \in Seq(Records) /\ e \in Seq(Records)
        /\ Len(e) = Len(d) + Len(rs) /\ Len(rs) >= 2
        /\ \A p \in 1..Len(d) : e[p] = d[p]
        /\ \A i \in 1..Len(rs) : e[Len(d) + i] = rs[i]
    BY DEF Extends, IsProgram
  <2>2. Len(d) \in Nat /\ Len(e) \in Nat /\ Len(rs) \in Nat
    BY <2>1
  <2> QED BY <2>1, <2>2
<1>2. /\ rs[1].kind = "begin" /\ rs[1].txn = t
      /\ rs[m].kind = "prepare" /\ rs[m].txn = t
  BY <1>1, RecordsAre DEF IsProgram
<1>3. \A i \in 2..(m - 1) : rs[i].kind = "op" /\ rs[i].txn = t /\ rs[i].row \in DOMAIN s
  <2> SUFFICES ASSUME NEW i \in 2..(m - 1) PROVE rs[i].kind = "op" /\ rs[i].txn = t /\ rs[i].row \in DOMAIN s
    OBVIOUS
  <2>1. PICK x \in DOMAIN s : rs[i] = Op(t, x, s[x])
    BY <1>1 DEF IsProgram
  <2> QED BY <2>1, RecordsAre, NetsAre
<1>4. ASSUME NEW p \in 1..E, p > D
      PROVE  /\ e[p].txn = t /\ e[p].kind \in {"begin", "op", "prepare"}
             /\ e[p].kind = "op" => e[p].row \in DOMAIN s
             /\ e[p].kind = "op" => p < E
             /\ e[p].kind = "prepare" => p = E
  <2>1. PICK i \in 1..m : p = D + i /\ e[p] = rs[i] /\ (i = 1 \/ i = m \/ i \in 2..(m - 1))
    <3>1. p - D \in 1..m /\ D + (p - D) = p /\ (p - D = 1 \/ p - D = m \/ p - D \in 2..(m - 1))
      BY <1>1, <1>4
    <3> QED BY <1>1, <3>1
  <2>2. CASE i = 1
    BY <1>2, <2>1, <2>2
  <2>3. CASE i = m
    BY <1>1, <1>2, <2>1, <2>3
  <2>4. CASE i \in 2..(m - 1)
    <3>1. p < E
      BY <1>1, <2>1, <2>4
    <3> QED BY <1>3, <2>1, <2>4, <3>1
  <2> QED BY <2>1, <2>2, <2>3, <2>4
<1>5. ASSUME NEW p \in 1..E, NEW q \in 1..E, p > D, e[p].kind = "op", Is(e[q], t, "prepare") PROVE p < q
  <2>1. q > D
    <3>1. ~(q \in 1..D)
      BY <1>1, <1>5 DEF Has, Is
    <3> QED BY <1>1, <3>1
  <2> QED BY <1>4, <1>5, <2>1 DEF Is
<1> QED BY <1>1, <1>4, <1>5

LEMMA PrepareRebuilds ==
    ASSUME TypeInv, TypeInv', Honest, Rebuilds, NEW t \in Txn, NEW g \in Gid, PrepareTxn(t, g)
    PROVE  Rebuilds'
<1>1. /\ Up /\ UNCHANGED <<mode, order, base, sets, lock, rows, stray>>
      /\ status[t] = "running" /\ status' = [status EXCEPT ![t] = "prepared"]
      /\ Logged(Prepared(t, g))
  BY DEF PrepareTxn, histVars, boundVars, Gated
<1>2. /\ status \in [Txn -> Statuses] /\ sets \in [Txn -> Nets] /\ TxnType /\ ckpt' = ckpt
      /\ lock \in [Row -> Txn \cup {Nobody}] /\ lock' \in [Row -> Txn \cup {Nobody}]
  BY <1>1 DEF TypeInv, TxnType, Logged
<1>3. Lone(t) /\ status'[t] = "prepared"
  BY <1>1, <1>2 DEF Lone, Up
<1>4. ASSUME NEW r \in Row PROVE Now(r)' = Now(r)
  <2>1. lock[r] = t => Now(r)' = Now(r)
    BY <1>1, <1>3 DEF Now, Pending
  <2> QED BY <1>1, <1>2, <1>3, <2>1, NowKeeps
<1>5. Unended(t)' /\ Unended(t)
  BY <1>1, <1>3 DEF Unended
<1>6. ASSUME ~stray'
      PROVE  \E d, d1 : /\ Adds(t, d, d1)
                        /\ d1 = d \/ (~Has(d, t, "commit") /\ ~Has(d, t, "image"))
                        /\ \A p \in 1..Len(d1) : p > Len(d) => d1[p].kind # "commit"
  <2>1. PICK rs, ls, lk, s, rw :
              /\ rs \in Seq(Records) /\ ls \in SUBSET Row /\ s \in Nets
              /\ rs = Prepared(t, g) /\ IsProgram(rs, t, g, ls, s) /\ ls = {r \in Row : lk[r] = t}
              /\ lk = lock /\ s = sets[t] /\ rw = rows /\ lk = lock' /\ s = sets'[t] /\ rw = rows'
    <3>1. Holds(t) = {r \in Row : lock[r] = t} /\ Holds(t) \in SUBSET Row /\ sets[t] \in Nets
      BY <1>2 DEF Holds
    <3>2. /\ IsProgram(Prepared(t, g), t, g, Holds(t), sets[t]) /\ Prepared(t, g) \in Seq(Records)
      BY <1>2, PreparedIs
    <3>3. lock' = lock /\ sets' = sets /\ rows' = rows
      BY <1>1
    <3>4. PICK lk, s, rw : /\ s \in Nets /\ lk = lock /\ s = sets[t] /\ rw = rows
                           /\ lk = lock' /\ s = sets'[t] /\ rw = rows'
      BY ONLY <3>1, <3>3
    <3>5. PICK ls \in SUBSET Row : ls = Holds(t) /\ ls = {r \in Row : lk[r] = t}
      BY <3>1, <3>4
    <3>6. PICK rs \in Seq(Records) : rs = Prepared(t, g) /\ IsProgram(rs, t, g, ls, s)
      BY <3>2, <3>4, <3>5
    <3> QED BY ONLY <3>4, <3>5, <3>6
  <2>2. Logged(rs) /\ ~stray
    BY <1>1, <1>6, <2>1
  <2>3. PICK d, d1 : /\ CleanDisk(d) /\ d1 = Kept' /\ Extends(d1, d, rs) /\ Longer(d1, d)
                     /\ \A p \in 1..Len(d) : Safe(d, p) => Safe(d1, p)'
    BY <1>1, <2>1, <2>2, LoggedSafe
  <2>4. WritesOf(d)
    BY <1>1, <2>2, <2>3, BeforeStep DEF CleanDisk, Up
  <2>5. ~Has(d, t, "prepare") /\ \A r \in DOMAIN s : lk[r] = t
    BY <1>1, <2>1, <2>3, RunningHas, RunningIs DEF CleanDisk
  <2>6. Mine(d, t, lk, s, rw, "running")
    BY <1>1, <1>5, <2>1, <2>4 DEF WritesOf, MineOf
  <2>7. Mine(d1, t, lk, s, rw, "prepared")
    BY ONLY t \in Txn, g \in Gid, <2>1, <2>3, <2>5, <2>6, MineProgram
  <2>8. MineOf(d1, t)'
    <3>1. PICK st : st = "prepared" /\ st = status'[t]
      BY <1>3
    <3>2. Mine(d1, t, lk, s, rw, st)
      BY <2>7, <3>1
    <3> QED BY <2>1, <3>1, <3>2, MinePrimed
  <2>9. /\ \A p \in 1..Len(d1) : p > Len(d) =>
              /\ d1[p].txn = t /\ d1[p].kind \in {"begin", "op", "prepare"}
              /\ d1[p].kind = "op" => d1[p].row \in DOMAIN s
        /\ \A p, q \in 1..Len(d1) : p > Len(d) /\ d1[p].kind = "op" /\ Is(d1[q], t, "prepare") => p < q
    BY ONLY t \in Txn, g \in Gid, <2>1, <2>3, <2>5, ProgramTail
  <2>10. \A p \in 1..Len(d1) : p > Len(d) =>
              /\ d1[p].txn = t /\ d1[p].kind # "image" /\ d1[p].kind # "commit"
              /\ d1[p].kind = "op" => lock'[d1[p].row] = t
    BY <2>1, <2>5, <2>9
  <2>11. Adds(t, d, d1)
    BY <2>3, <2>8, <2>9, <2>10 DEF Adds, CleanDisk
  <2>12. ~Has(d, t, "commit") /\ ~Has(d, t, "image")
    BY <1>1, <2>3, OpenHas
  <2> QED BY <2>10, <2>11, <2>12
<1> QED BY <1>1, <1>3, <1>4, <1>5, <1>6, StepKeeps

-----------------------------------------------------------------------------
(* Checkpoints                                                             *)

\* With nothing to lose there is one cut.
LEMMA AllCuts ==
    ASSUME NEW d \in Seq(Records), \A p \in 1..Len(d) : Safe(d, p)', ShowsCommits(d)'
    PROVE  CutRows(d)'
<1>1. ASSUME NEW c \in 0..Len(d), NEW e \in Seq(Records), IsCut(e, d, c),
             \A p \in 1..Len(d) : Safe(d, p)' => p <= c
      PROVE  ShowsCommits(e)'
  <2>1. PICK D \in Nat : D = Len(d)
    OBVIOUS
  <2>2. D <= c
    <3>1. CASE D = 0
      BY <1>1, <2>1, <3>1
    <3>2. CASE D # 0
      BY <1>1, <2>1, <3>2
    <3> QED BY <3>1, <3>2
  <2>3. Len(e) = D /\ \A p \in 1..D : e[p] = d[p]
    BY <1>1, <2>1, <2>2 DEF IsCut
  <2>4. e = d
    BY <2>1, <2>3
  <2> QED BY <2>4
<1> QED BY <1>1 DEF CutRows, IsCut

\* An image has what the waiting transactions wrote.
LEMMA MineCarried ==
    ASSUME TypeInv, NEW d, NEW rec, Carrying(d, rec), rec.kind = "image", NEW t \in Waiting,
           \A u \in Waiting : \A r \in DOMAIN sets[u] : lock[r] = u
    PROVE  Mine(d, t, lock, sets[t], rows, "prepared")
<1>1. PICK D \in Nat : D = Len(d) /\ d \in Seq(Records) /\ D >= 1 /\ d[1] = rec
  BY DEF Carrying
<1>2. \A p \in 1..D : p = 1 \/ p \in 2..D
  BY <1>1
<1>3. \A p \in 2..D : p \in 1..D
  BY <1>1
<1>4. \A p \in 1..D : d[p].kind = "op" \/ d[p].kind = "prepare" => p \in 2..D
  BY <1>1, <1>2
<1>5. \A p \in 1..D : d[p].kind = "op" =>
          /\ d[p].txn \in Waiting /\ d[p].row \in DOMAIN sets[d[p].txn]
          /\ d[p].val = sets[d[p].txn][d[p].row] /\ lock[d[p].row] = d[p].txn
          /\ Counts(d, p)
  <2> SUFFICES ASSUME NEW p \in 1..D, d[p].kind = "op"
               PROVE  /\ d[p].txn \in Waiting /\ d[p].row \in DOMAIN sets[d[p].txn]
                      /\ d[p].val = sets[d[p].txn][d[p].row] /\ lock[d[p].row] = d[p].txn
                      /\ Counts(d, p)
    OBVIOUS
  <2>1. p \in 2..D
    BY <1>4
  <2>2. /\ d[p].txn \in Waiting /\ d[p].row \in DOMAIN sets[d[p].txn]
        /\ d[p].val = sets[d[p].txn][d[p].row]
    BY <1>1, <2>1 DEF Carrying
  <2>3. PICK b \in 2..D : b < p /\ Is(d[b], d[p].txn, "begin")
    BY <1>1, <2>1 DEF Carrying
  <2>4. Counts(d, p)
    BY <1>1, <1>3, <2>3 DEF Counts
  <2> QED BY <2>2, <2>4
<1>6. ASSUME NEW p \in 1..D, d[p].kind = "op", d[p].txn = t
      PROVE  /\ lock[d[p].row] = t
             /\ \A q \in 1..D : q > p /\ d[q].kind = "op" /\ d[q].row = d[p].row => d[q].txn = t
  BY <1>5, <1>6
<1>7. ASSUME NEW r \in DOMAIN sets[t] PROVE \E p \in 1..D : LastOf(d, p, t, r) /\ d[p].val = sets[t][r]
  <2>1. PICK i \in 2..D : Is(d[i], t, "op") /\ d[i].row = r
    BY <1>1, <1>7 DEF Carrying
  <2>2. i \in 1..D /\ WritesTo(d, i, t, r) /\ Counts(d, i)
    BY <1>3, <1>5, <2>1 DEF WritesTo, Is
  <2>3. PICK p \in 1..D : LastOf(d, p, t, r)
    BY <1>1, <2>2, HasLast
  <2>4. d[p].kind = "op" /\ d[p].txn = t /\ d[p].row = r
    BY <2>3 DEF LastOf, WritesTo
  <2> QED BY <1>5, <2>3, <2>4
<1>8. ASSUME NEW p \in 1..D, NEW r \in Row, LastOf(d, p, t, r) PROVE r \in DOMAIN sets[t]
  <2>1. d[p].kind = "op" /\ d[p].txn = t /\ d[p].row = r
    BY <1>8 DEF LastOf, WritesTo
  <2> QED BY <1>5, <2>1
<1>9. ASSUME NEW p \in 1..D, Is(d[p], t, "prepare") PROVE d[p].locks = {r \in Row : lock[r] = t}
  <2>1. p \in 2..D
    BY <1>4, <1>9 DEF Is
  <2>2. d[p].locks = Holds(t)
    BY <1>1, <1>9, <2>1 DEF Carrying, Is
  <2> QED BY <2>2 DEF Holds
<1> QED BY <1>1, <1>6, <1>7, <1>8, <1>9 DEF Mine

\* It shows the rows, and has the right shape.
LEMMA ImageShows ==
    ASSUME NEW d, NEW rec, Carrying(d, rec), rec.kind = "image", rec.txn \notin Waiting
    PROVE  Shape(d) /\ \A r \in Row : \A v : v = rec.rows[r] => Shows(d, r, v)
<1>1. PICK D \in Nat : D = Len(d) /\ d \in Seq(Records) /\ D >= 1 /\ d[1] = rec /\ 1 \in 1..D
  BY DEF Carrying
<1>2. \A p \in 1..D : p = 1 \/ p \in 2..D
  BY <1>1
<1>3. \A p \in 2..D : d[p].txn \in Waiting /\ d[p].kind \in {"begin", "op", "prepare"}
  BY <1>1 DEF Carrying
<1>4. Shape(d)
  <2>1. \A p \in 1..D : d[p].kind = "image" => p = 1
    BY <1>2, <1>3
  <2>2. \A p, q \in 1..D : d[p].kind = "op" /\ d[q].kind = "prepare" /\ d[p].txn = d[q].txn => p < q
    <3> SUFFICES ASSUME NEW p \in 1..D, NEW q \in 1..D,
                        d[p].kind = "op" /\ d[q].kind = "prepare" /\ d[p].txn = d[q].txn
                 PROVE  p < q
      OBVIOUS
    <3>1. p \in 2..D /\ q \in 2..D
      BY <1>1, <1>2
    <3> QED BY <1>1, <3>1 DEF Carrying
  <2> QED BY <1>1, <2>1, <2>2 DEF Shape
<1>5. ASSUME NEW r \in Row, NEW v, v = rec.rows[r] PROVE Shows(d, r, v)
  <2>1. Acts(d, 1, r)
    <3>1. Has(d, rec.txn, "image")
      BY <1>1 DEF Has, Is
    <3>2. ~Has(d, rec.txn, "abort")
      BY <1>1, <1>2, <1>3 DEF Has, Is
    <3> QED BY <1>1, <3>1, <3>2 DEF Acts, Done
  <2>2. ASSUME NEW q \in 1..D, q > 1, Acts(d, q, r) PROVE FALSE
    <3>1. q \in 2..D /\ Done(d, d[q].txn) /\ d[q].txn \in Waiting
      BY <1>2, <1>3, <2>2 DEF Acts
    <3>2. ~Has(d, d[q].txn, "commit") /\ ~Has(d, d[q].txn, "image")
      BY <1>1, <1>2, <1>3, <3>1 DEF Has, Is
    <3> QED BY <3>1, <3>2 DEF Done
  <2>3. LastActs(d, 1, r) /\ v = Gives(d[1], r)
    BY <1>1, <1>5, <2>1, <2>2 DEF LastActs, Gives
  <2> QED BY <1>1, <2>3 DEF Shows
<1> QED BY <1>4, <1>5

LEMMA PublishRebuilds ==
    ASSUME TypeInv, TypeInv', Honest, Rebuilds, Publish
    PROVE  Rebuilds'
<1>1. /\ Up /\ nextTxn \in Txn /\ Running = {} /\ ckpt'
      /\ status' = [status EXCEPT ![nextTxn] = "committed"]
      /\ UNCHANGED <<mode, sets, lock, gids, rows, order, base>>
  BY TwoPhaseAssumption DEF Publish, Gated, TypeInv, TxnType, Txn
<1>2. PICK n \in Txn : n = nextTxn
  BY <1>1
<1>3. /\ status'[n] = "committed" /\ \A u \in Txn \ {n} : status'[u] = status[u]
      /\ lock \in [Row -> Txn \cup {Nobody}]
  BY <1>1, <1>2 DEF TypeInv, TxnType
<1>4. /\ \A u \in Txn : PromiseOf(u) /\ MemoryOf(u) /\ mode = "up" /\ ~ckpt
  BY <1>1 DEF Honest, PromiseInv, MemoryInv, Up
<1>5. status[n] = "none"
  <2>1. n >= nextTxn
    BY <1>2, NobodyIs
  <2> QED BY <1>4, <2>1 DEF PromiseOf
<1>6. \A u \in Txn : status[u] \in {"none", "prepared", "committed", "aborted"}
  BY <1>1 DEF Running, TypeInv, TxnType, Statuses
<1>7. \A r \in Row : Now(r) = rows[r] /\ Now(r)' = rows[r]
  BY <1>1, <1>3, <1>6 DEF Now, Pending
<1>8. \A u \in Txn : ~Unended(u)' => DOMAIN sets'[u] = {}
  <2> SUFFICES ASSUME NEW u \in Txn, ~Unended(u)' PROVE DOMAIN sets'[u] = {}
    OBVIOUS
  <2>1. ~Unended(u)
    BY <1>3, <1>5 DEF Unended
  <2> QED BY <1>1, <1>4, <2>1 DEF Rebuilds
<1>9. order' \in Seq(Entries) /\ order' = order /\ \A m : Applied(m)' = Applied(m)
  BY <1>1 DEF Rebuilds, Applied
<1>10. PICK L, f : /\ L \in Nat /\ L = Len(order) /\ L = Len(order')
                   /\ f = Applied(L) /\ f = Applied(L)' /\ \A r \in Row : f[r] = rows[r]
  BY <1>1, <1>4, <1>7, <1>9 DEF Rebuilds
<1>11. \A r \in Row : (Applied(Len(order))[r] = Now(r))'
  BY <1>7, <1>10
<1>12. PICK ts \in SetToSeqs(Waiting) : image' = <<Image(nextTxn, rows)>> \o Carried(ts)
  BY DEF Publish
<1>13. PICK rec \in Records : /\ rec = Image(nextTxn, rows) /\ rec.kind = "image" /\ rec.txn = n
                              /\ rec.rows = rows
  <2>1. rows \in [Row -> Valued]
    BY DEF TypeInv, TxnType
  <2> QED BY <1>2, <2>1, RecordsAre
<1>14. PICK d : d = image' /\ Carrying(d, rec)
  <2>1. Carrying(<<rec>> \o Carried(ts), rec)
    BY ImageIs DEF TypeInv
  <2> QED BY <1>12, <1>13, <2>1
<1>15. \A t \in Txn : t \in Waiting <=> status[t] = "prepared"
  BY <1>4 DEF Waiting, MemoryOf
<1>16. n \notin Waiting /\ Waiting \subseteq Txn
  BY <1>5, <1>15 DEF Waiting
<1>17. Shape(d) /\ \A r \in Row : \A v : v = rec.rows[r] => Shows(d, r, v)
  BY <1>13, <1>14, <1>16, ImageShows
<1>18. ASSUME NEW t \in Txn, Unended(t)' PROVE MineOf(d, t)'
  <2>1. status'[t] = "prepared" /\ t \in Waiting
    BY <1>3, <1>6, <1>15, <1>18 DEF Unended
  <2>2. \A u \in Waiting : \A r \in DOMAIN sets[u] : lock[r] = u
    BY <1>4, <1>16 DEF MemoryOf
  <2>3. Mine(d, t, lock, sets[t], rows, "prepared")
    BY <1>13, <1>14, <2>1, <2>2, MineCarried
  <2>4. PICK lk, s, rw, st : /\ lk = lock' /\ s = sets'[t] /\ rw = rows' /\ st = status'[t]
                             /\ lk = lock /\ s = sets[t] /\ rw = rows /\ st = "prepared"
    BY <1>1, <2>1
  <2>5. Mine(d, t, lk, s, rw, st)
    BY <2>3, <2>4
  <2> QED BY <2>4, <2>5, MinePrimed
<1>19. ASSUME NEW r \in Row PROVE Shows(d, r, Now(r))'
  <2>1. PICK v : v = Now(r)' /\ v = rec.rows[r]
    BY <1>7, <1>13
  <2>2. Shows(d, r, v)
    BY <1>17, <2>1
  <2> QED BY <2>1, <2>2, ShowsPrimed
<1>20. ShowsCommits(d)'
  <2>1. \A r \in Row : Shows(d, r, f[r])
    BY <1>10, <1>13, <1>17
  <2>2. L \in 0..Len(order')
    BY <1>10
  <2> QED BY <1>10, <2>1, <2>2, CommitsPrimed
<1>21. CutRows(d)'
  <2>1. d \in Seq(Records) /\ \A p \in 1..Len(d) : Safe(d, p)'
    BY <1>14 DEF Carrying, Safe
  <2> QED BY <1>20, <2>1, AllCuts
<1>22. d = Kept' /\ mode' = "up"
  BY <1>1, <1>4, <1>14 DEF Kept
<1>23. WritesOf(d)'
  BY <1>17, <1>18, <1>19, <1>21, <1>22, ShapePrimed DEF WritesOf
<1> QED BY <1>8, <1>9, <1>11, <1>22, <1>23 DEF Rebuilds

LEMMA TruncateRebuilds ==
    ASSUME TypeInv, TypeInv', Honest, Rebuilds, Truncate
    PROVE  Rebuilds'
<1>1. /\ mode = "up" /\ ckpt /\ ~ckpt'
      /\ UNCHANGED <<mode, image, status, sets, lock, rows, order, base>>
  BY DEF Truncate, txnVars, histVars
<1>2. /\ \A t \in Txn : Unended(t)' <=> Unended(t)
      /\ \A r \in Row : Now(r)' = Now(r)
      /\ \A n : Applied(n)' = Applied(n)
  BY <1>1 DEF Unended, Now, Pending, Applied
<1>3. /\ order' \in Seq(Entries)
      /\ \A t \in Txn : ~Unended(t)' => DOMAIN sets'[t] = {}
      /\ \A r \in Row : (Applied(Len(order))[r] = Now(r))'
  BY <1>1, <1>2 DEF Rebuilds
<1>4. ASSUME ~stray', NEW d, d = Kept' PROVE WritesOf(d)'
  <2>1. d = image /\ d = Kept
    BY <1>1, <1>4, TruncateKept DEF Kept
  <2>2. d \in Seq(Records)
    BY <2>1 DEF TypeInv, LogType
  <2>3. WritesOf(d)
    BY <1>1, <2>1 DEF Rebuilds
  <2>4. Shape(d)'
    BY <2>3, ShapePrimed DEF WritesOf
  <2>5. ASSUME NEW t \in Txn, Unended(t)' PROVE MineOf(d, t)'
    <3>1. PICK lk, s, rw, st : /\ lk = lock' /\ s = sets'[t] /\ rw = rows' /\ st = status'[t]
                               /\ lk = lock /\ s = sets[t] /\ rw = rows /\ st = status[t]
      BY <1>1
    <3>2. Mine(d, t, lk, s, rw, st)
      BY <1>2, <2>3, <2>5, <3>1 DEF WritesOf, MineOf
    <3> QED BY <3>1, <3>2, MinePrimed
  <2>6. ASSUME NEW r \in Row PROVE Shows(d, r, Now(r))'
    <3>1. PICK v : v = Now(r)' /\ Shows(d, r, v)
      BY <1>1, <1>2, <2>3 DEF WritesOf
    <3> QED BY <3>1, ShowsPrimed
  <2>7. CutRows(d)'
    <3>1. PICK L, f : /\ L \in Nat /\ L = Len(order) /\ L = Len(order')
                      /\ f = Applied(L) /\ f = Applied(L)' /\ \A r \in Row : f[r] = Now(r)
      BY <1>1, <1>2 DEF Rebuilds
    <3>2. \A r \in Row : Shows(d, r, f[r])
      BY <1>1, <2>3, <3>1 DEF WritesOf
    <3>3. ShowsCommits(d)'
      <4>1. L \in 0..Len(order')
        BY <3>1
      <4> QED BY <3>1, <3>2, <4>1, CommitsPrimed
    <3>4. \A p \in 1..Len(d) : Safe(d, p)'
      BY <1>1, <2>1, <2>2 DEF Safe
    <3> QED BY <2>2, <3>3, <3>4, AllCuts
  <2> QED BY <1>1, <2>4, <2>5, <2>6, <2>7 DEF WritesOf
<1> QED BY <1>1, <1>3, <1>4 DEF Rebuilds

-----------------------------------------------------------------------------
(* Crash and recovery                                                      *)

\* A prepare that is left has all its transaction wrote before it.
LEMMA CutMine ==
    ASSUME NEW d, NEW d1, Longer(d, d1), Shape(d), NEW t, Has(d1, t, "prepare"),
           NEW lk, NEW s, NEW rw, NEW st, Mine(d, t, lk, s, rw, st), NEW st1, st1 # "running"
    PROVE  Mine(d1, t, lk, s, rw, st1)
<1>1. PICK D \in Nat, D1 \in Nat : /\ D = Len(d) /\ D1 = Len(d1) /\ D1 <= D
                                   /\ \A p \in 1..D1 : d[p] = d1[p]
  BY DEF Longer
<1>2. \A p \in 1..D1 : p \in 1..D
  BY <1>1
<1>3. PICK m \in 1..D1 : Is(d1[m], t, "prepare") /\ m \in 1..D /\ Is(d[m], t, "prepare")
  BY <1>1, <1>2 DEF Has
<1>4. Has(d, t, "prepare")
  BY <1>1, <1>3 DEF Has
<1>5. \A p \in 1..D : d[p].kind = "op" /\ d[p].txn = t => p \in 1..D1
  <2> SUFFICES ASSUME NEW p \in 1..D, d[p].kind = "op", d[p].txn = t PROVE p \in 1..D1
    OBVIOUS
  <2>1. p < m
    BY <1>1, <1>3 DEF Shape, Is
  <2> QED BY <1>1, <2>1
<1>6. \A p \in 1..D1 : \A r : WritesTo(d1, p, t, r) <=> WritesTo(d, p, t, r)
  BY <1>1 DEF WritesTo
<1>7. \A p \in 1..D1 : d[p].txn = t => (Counts(d1, p) <=> Counts(d, p))
  <2> SUFFICES ASSUME NEW p \in 1..D1, d[p].txn = t PROVE Counts(d1, p) <=> Counts(d, p)
    OBVIOUS
  <2>1. d1[p].txn = t
    BY <1>1
  <2>2. (\E b \in 1..D1 : b < p /\ Is(d1[b], t, "begin")) <=> (\E b \in 1..D : b < p /\ Is(d[b], t, "begin"))
    <3>1. \A b \in 1..D : b < p => b \in 1..D1
      BY <1>1
    <3> QED BY <1>1, <1>2, <3>1
  <2> QED BY <1>1, <1>4, <2>1, <2>2 DEF Counts
<1>8. \A p \in 1..D1 : \A r : LastOf(d1, p, t, r) <=> LastOf(d, p, t, r)
  <2> SUFFICES ASSUME NEW p \in 1..D1, NEW r PROVE LastOf(d1, p, t, r) <=> LastOf(d, p, t, r)
    OBVIOUS
  <2>1. \A q \in 1..D : WritesTo(d, q, t, r) => q \in 1..D1
    BY <1>5 DEF WritesTo
  <2>2. (\A q \in 1..D1 : q > p => ~WritesTo(d1, q, t, r)) <=> (\A q \in 1..D : q > p => ~WritesTo(d, q, t, r))
    BY <1>2, <1>6, <2>1
  <2>3. WritesTo(d, p, t, r) => (Counts(d1, p) <=> Counts(d, p))
    BY <1>7 DEF WritesTo
  <2> QED BY <1>1, <1>6, <2>2, <2>3 DEF LastOf
<1>9. ASSUME NEW p \in 1..D1, d1[p].kind = "op", d1[p].txn = t
      PROVE  /\ lk[d1[p].row] = t
             /\ \A q \in 1..D1 : q > p /\ d1[q].kind = "op" /\ d1[q].row = d1[p].row => d1[q].txn = t
  <2>1. p \in 1..D /\ d[p] = d1[p]
    BY <1>1, <1>2
  <2>2. /\ lk[d[p].row] = t
        /\ \A q \in 1..D : q > p /\ d[q].kind = "op" /\ d[q].row = d[p].row => d[q].txn = t
    BY <1>1, <1>9, <2>1 DEF Mine
  <2> QED BY <1>1, <1>2, <2>1, <2>2
<1>10. ASSUME NEW r \in DOMAIN s PROVE \E p \in 1..D1 : LastOf(d1, p, t, r) /\ d1[p].val = s[r]
  <2>1. PICK p \in 1..D : LastOf(d, p, t, r) /\ d[p].val = s[r]
    BY <1>1, <1>10 DEF Mine
  <2>2. p \in 1..D1
    BY <1>5, <2>1 DEF LastOf, WritesTo
  <2> QED BY <1>1, <1>8, <2>1, <2>2
<1>11. \A p \in 1..D1 : \A r \in Row : LastOf(d1, p, t, r) => r \in DOMAIN s
  BY <1>1, <1>2, <1>4, <1>8 DEF Mine
<1>12. \A p \in 1..D1 : Is(d1[p], t, "prepare") => d1[p].locks = {r \in Row : lk[r] = t}
  BY <1>1, <1>2 DEF Mine, Is
<1> QED BY <1>1, <1>9, <1>10, <1>11, <1>12 DEF Mine

LEMMA CutShape ==
    ASSUME NEW d, NEW d1, Longer(d, d1), Shape(d)
    PROVE  Shape(d1)
<1>1. PICK D \in Nat, D1 \in Nat : /\ D = Len(d) /\ D1 = Len(d1) /\ D1 <= D
                                   /\ \A p \in 1..D1 : d[p] = d1[p]
  BY DEF Longer
<1>2. \A p \in 1..D1 : p \in 1..D
  BY <1>1
<1> QED BY <1>1, <1>2 DEF Shape

\* Whoever is prepared after a crash had not ended before it.
LEMMA CrashOwes ==
    ASSUME TypeInv, TypeInv', Honest, Crash, ~stray, NEW t \in Txn, Unended(t)'
    PROVE  Unended(t) /\ status'[t] = "prepared" /\ \A d1 : d1 = Kept' => Has(d1, t, "prepare")
<1>1. PICK d1 : d1 = Kept' /\ Folds(d1) /\ Falls(d1, t)
  BY CrashKnows
<1>2. PromiseOf(t)
  BY DEF Honest, PromiseInv
<1>3. t \notin folded
  BY <1>1, <1>2 DEF PromiseOf, Ended, Falls, Unended
<1>4. status'[t] = "prepared" /\ Has(d1, t, "prepare") /\ ~Has(d1, t, "commit") /\ ~Has(d1, t, "abort")
  BY <1>1, <1>3 DEF Falls, Unended
<1>5. status[t] \notin {"none", "running", "refused", "committed", "aborted"}
  BY <1>1, <1>3, <1>4 DEF Falls
<1>6. Unended(t)
  BY <1>5 DEF Unended, TypeInv, TxnType, Statuses
<1> QED BY <1>1, <1>4, <1>6

LEMMA CrashRebuilds ==
    ASSUME TypeInv, TypeInv', Honest, Rebuilds, Crash, ~stray
    PROVE  Rebuilds'
<1>1. /\ mode = "up" /\ mode' = "down" /\ UNCHANGED <<sets, lock, rows, order, base>>
  BY DEF Crash, histVars
<1>2. PICK d, d1, m :
              /\ d = Kept /\ d1 = Kept' /\ d1 \in Seq(Records) /\ d \in Seq(Records)
              /\ m \in 0..Len(d) /\ Len(d1) = m
              /\ \A p \in 1..m : d1[p] = d[p]
              /\ \A p \in 1..Len(d) : Safe(d, p) => p <= m
  BY CrashSays
<1>3. WritesOf(d) /\ Shape(d) /\ CutRows(d) /\ \A t \in Txn : Unended(t) => MineOf(d, t)
  BY <1>1, <1>2, BeforeStep
<1>4. Longer(d, d1)
  BY <1>2 DEF Longer
<1>5. Shape(d1)'
  BY <1>3, <1>4, CutShape, ShapePrimed
<1>6. ASSUME NEW t \in Txn, Unended(t)' PROVE MineOf(d1, t)'
  <2>1. Unended(t) /\ status'[t] = "prepared" /\ Has(d1, t, "prepare")
    BY <1>2, <1>6, CrashOwes
  <2>2. PICK lk, s, rw, st : /\ lk = lock' /\ s = sets'[t] /\ rw = rows' /\ st = status'[t]
                             /\ lk = lock /\ s = sets[t] /\ rw = rows /\ st = "prepared"
    BY <1>1, <2>1
  <2>3. Mine(d, t, lk, s, rw, status[t])
    BY <1>3, <2>1, <2>2 DEF MineOf
  <2>4. Mine(d1, t, lk, s, rw, st)
    BY <1>3, <1>4, <2>1, <2>2, <2>3, CutMine
  <2> QED BY <2>2, <2>4, MinePrimed
<1>7. ShowsCommits(d1)'
  <2>1. IsCut(d1, d, m)
    BY <1>2 DEF IsCut
  <2>2. ShowsCommits(d1)
    BY <1>2, <1>3, <2>1 DEF CutRows
  <2>3. PICK n \in 0..Len(order) : \A r \in Row : Shows(d1, r, Applied(n)[r])
    BY <2>2 DEF ShowsCommits
  <2>4. PICK f : f = Applied(n) /\ f = Applied(n)' /\ n \in 0..Len(order')
    BY <1>1, <2>3 DEF Applied
  <2> QED BY <2>3, <2>4, CommitsPrimed
<1>8. WritesOf(d1)'
  BY <1>1, <1>5, <1>6, <1>7 DEF WritesOf
<1> QED BY <1>1, <1>2, <1>8 DEF Rebuilds

LEMMA MineAgain ==
    ASSUME NEW d \in Seq(Records), NEW t, Has(d, t, "prepare"), NEW lk, NEW lk1, NEW s, NEW rw,
           NEW rw1, NEW st, Mine(d, t, lk, s, rw, st), \A r \in Row : lk1[r] = t <=> lk[r] = t
    PROVE  Mine(d, t, lk1, s, rw1, st)
<1>1. \A p \in 1..Len(d) : d[p].kind = "op" => d[p].row \in Row
  BY OpRows
<1>2. \A p \in 1..Len(d) : \A r \in Row : LastOf(d, p, t, r) => r \in DOMAIN s
  BY DEF Mine
<1>3. {r \in Row : lk[r] = t} = {r \in Row : lk1[r] = t}
  OBVIOUS
<1>4. \A p \in 1..Len(d) : Is(d[p], t, "prepare") => d[p].locks = {r \in Row : lk1[r] = t}
  BY <1>3 DEF Mine
<1>5. \A p \in 1..Len(d) : d[p].kind = "op" /\ d[p].txn = t => lk1[d[p].row] = t
  BY <1>1 DEF Mine
<1> QED BY <1>2, <1>4, <1>5 DEF Mine

\* What recovery makes of the disk it finds.
Restored(d) ==
    /\ d = Kept /\ d = Kept' /\ d \in Seq(Records) /\ Len(d) <= Len(image) + Len(log)
    /\ Shape(d) /\ ShowsCommits(d)
    /\ rows' \in [Row -> Valued] /\ \A r \in Row : \A v : Shows(d, r, v) => rows'[r] = v
    /\ \A t \in Txn : status[t] = "prepared" =>
          /\ Has(d, t, "prepare") /\ MineOf(d, t) /\ sets'[t] = sets[t]
          /\ \A r \in Row : lock'[r] = t <=> lock[r] = t
    /\ \A t \in Txn : status[t] # "prepared" => DOMAIN sets'[t] = {}
    /\ \A t \in Txn : status[t] \in {"none", "prepared", "committed", "aborted"}

LEMMA RestoredIs ==
    ASSUME TypeInv, TypeInv', Honest, Rebuilds, Recover
    PROVE  \E d : Restored(d)
<1>1. PICK d : /\ d = Kept /\ d \in Seq(Records) /\ DownInv(d)
               /\ Len(d) <= Len(image) + Len(log)
               /\ Found(d, Recovered.prepared)
  BY RecoveredIs DEF Recover
<1>2. PICK p : p = Recovered.prepared /\ Found(d, p)
  BY <1>1
<1>3. /\ mode = "down" /\ lock' = LocksBack(p) /\ rows' = Recovered.rows
      /\ sets' = [t \in Txn |-> IF t \in DOMAIN p THEN p[t].sets ELSE <<>>]
      /\ UNCHANGED <<log, image, covered, ckpt>>
  BY <1>2 DEF Recover
<1>4. ~stray /\ ~ckpt /\ PromiseInv
  BY <1>3 DEF Honest
<1>5. WritesOf(d)
  BY <1>1, <1>4 DEF Rebuilds
<1>6. Shape(d) /\ ShowsCommits(d) /\ \A t \in Txn : Unended(t) => MineOf(d, t)
  BY <1>3, <1>5 DEF WritesOf
<1>7. Recovered = Replay(d, Empty)
  BY <1>1, <1>4 DEF Recovered, Kept, Disk
<1>8. d = Kept'
  BY <1>1, <1>3 DEF Kept, Disk, DiskWith
<1>9. rows' \in [Row -> Valued]
  BY DEF TypeInv, TxnType
<1>10. \A r \in Row : \A v : Shows(d, r, v) => rows'[r] = v
  BY <1>1, <1>3, <1>6, <1>7, ShowsReplay
<1>11. DOMAIN p = {t \in Txn : status[t] = "prepared"}
  BY <1>2 DEF Found
<1>12. ASSUME NEW t \in Txn, status[t] = "prepared"
       PROVE  /\ Has(d, t, "prepare") /\ MineOf(d, t) /\ sets'[t] = sets[t]
              /\ \A r \in Row : lock'[r] = t <=> lock[r] = t
  <2>1. t \in DOMAIN p /\ MineOf(d, t)
    BY <1>6, <1>11, <1>12 DEF Unended
  <2>2. PICK i \in 1..Len(d) : Is(d[i], t, "prepare") /\ p[t].locks = d[i].locks
    BY <1>2, <2>1 DEF Found
  <2>3. Has(d, t, "prepare")
    BY <2>2 DEF Has
  <2>4. PICK s \in Nets : s = sets[t]
    BY DEF TypeInv, TxnType
  <2>5. /\ \A r \in DOMAIN s : \E q \in 1..Len(d) : LastOf(d, q, t, r) /\ d[q].val = s[r]
        /\ \A q \in 1..Len(d) : \A r \in Row : LastOf(d, q, t, r) => r \in DOMAIN s
    BY <2>1, <2>3, <2>4 DEF MineOf, Mine
  <2>6. Waiter(d, t).sets = s
    BY <1>1, <1>6, <2>3, <2>5, WaiterSets
  <2>7. p[t] = Waiter(d, t)
    BY <1>1, <1>2, <1>7, <2>1, ReplayedAre
  <2>8. sets'[t] = sets[t]
    BY <1>3, <2>1, <2>4, <2>6, <2>7
  <2>9. p[t].locks = {r \in Row : lock[r] = t}
    BY <2>1, <2>2 DEF MineOf, Mine
  <2>10. ASSUME NEW r \in Row PROVE lock'[r] = t <=> lock[r] = t
    <3>1. \A u \in DOMAIN p : \A x \in p[u].locks : LocksBack(p)[x] = u
      BY <1>1, <1>2, GivenBack
    <3>2. lock[r] = t => lock'[r] = t
      BY <1>3, <2>1, <2>9, <3>1
    <3>3. ASSUME lock'[r] = t, lock[r] # t PROVE FALSE
      <4>1. PICK u \in DOMAIN p : r \in p[u].locks
        BY <1>3, <3>3, NobodyIs DEF LocksBack
      <4>2. u = t
        BY <1>3, <3>1, <3>3, <4>1
      <4> QED BY <2>9, <3>3, <4>1, <4>2
    <3> QED BY <3>2, <3>3
  <2> QED BY <2>1, <2>3, <2>8, <2>10
<1>13. ASSUME NEW t \in Txn, status[t] # "prepared" PROVE DOMAIN sets'[t] = {}
  <2>1. sets'[t] = <<>>
    BY <1>3, <1>11, <1>13
  <2> QED BY <2>1
<1>14. ASSUME NEW t \in Txn PROVE status[t] \in {"none", "prepared", "committed", "aborted"}
  <2>1. PromiseOf(t) /\ (t < nextTxn \/ t >= nextTxn)
    BY <1>4, TwoPhaseAssumption DEF PromiseInv, Txn, TypeInv, TxnType
  <2>2. t \notin folded => (t < nextTxn => status[t] \in {"prepared", "committed", "aborted"})
    BY <1>1 DEF DownInv
  <2> QED BY <2>1, <2>2 DEF PromiseOf, Ended
<1> QED BY <1>1, <1>6, <1>8, <1>9, <1>10, <1>12, <1>13, <1>14 DEF Restored

\* The rows are those of some point of the commit order.
LEMMA RestoredRows ==
    ASSUME NEW d, Restored(d)
    PROVE  \E n \in 0..Len(order) : rows' = Applied(n) /\ \A r \in Row : Shows(d, r, Applied(n)[r])
<1>1. PICK n \in 0..Len(order) : \A r \in Row : Shows(d, r, Applied(n)[r])
  BY DEF Restored, ShowsCommits
<1>2. PICK f : f = Applied(n) /\ \A r \in Row : rows'[r] = f[r]
  BY <1>1 DEF Restored
<1>3. rows' = [r \in Row |-> rows'[r]]
  BY DEF Restored
<1>4. f = [r \in Row |-> f[r]]
  BY <1>2 DEF Applied
<1>5. rows' = f
  BY <1>2, <1>3, <1>4
<1> QED BY <1>1, <1>2, <1>5

LEMMA RecoverRebuilds ==
    ASSUME TypeInv, TypeInv', Honest, Rebuilds, Recover
    PROVE  Rebuilds'
<1>1. PICK d : Restored(d)
  BY RestoredIs
<1>2. /\ mode' = "up" /\ base' = rows' /\ order' = <<>> /\ durable' = Top
      /\ UNCHANGED <<status, log, image>>
  BY DEF Recover, Top
<1>3. PICK n \in 0..Len(order) : rows' = Applied(n) /\ \A r \in Row : Shows(d, r, Applied(n)[r])
  BY <1>1, RestoredRows
<1>4. PICK f : f = rows' /\ \A r \in Row : Shows(d, r, f[r])
  BY <1>3
<1>5. order' \in Seq(Entries) /\ Len(order') = 0
  BY <1>2
<1>6. \A r \in Row : Now(r)' = f[r]
  <2> SUFFICES ASSUME NEW r \in Row PROVE Now(r)' = f[r]
    OBVIOUS
  <2>1. lock' \in [Row -> Txn \cup {Nobody}]
    BY DEF TypeInv, TxnType
  <2>2. lock'[r] # Nobody => status'[lock'[r]] # "committing"
    BY <1>1, <1>2, <2>1 DEF Restored
  <2> QED BY <1>4, <2>2 DEF Now, Pending
<1>7. \A r \in Row : Applied(0)'[r] = f[r]
  <2> SUFFICES ASSUME NEW r \in Row PROVE Applied(0)'[r] = f[r]
    OBVIOUS
  <2>1. {i \in 1..0 : r \in DOMAIN order'[i].sets} = {}
    OBVIOUS
  <2> QED BY <1>2, <1>4, <2>1 DEF Applied
<1>8. \A t \in Txn : ~Unended(t)' => DOMAIN sets'[t] = {}
  BY <1>1, <1>2 DEF Restored, Unended
<1>9. Shape(d)'
  BY <1>1, ShapePrimed DEF Restored
<1>10. ASSUME NEW t \in Txn, Unended(t)' PROVE MineOf(d, t)'
  <2>1. status[t] = "prepared"
    BY <1>1, <1>2, <1>10 DEF Restored, Unended
  <2>2. /\ Has(d, t, "prepare") /\ MineOf(d, t) /\ sets'[t] = sets[t]
        /\ \A r \in Row : lock'[r] = t <=> lock[r] = t
    BY <1>1, <2>1 DEF Restored
  <2>3. PICK lk, lk1, s, rw, rw1, st :
            /\ lk = lock /\ lk1 = lock' /\ s = sets[t] /\ s = sets'[t] /\ rw = rows /\ rw1 = rows'
            /\ st = status[t] /\ st = status'[t]
    BY <1>2, <2>2
  <2>4. Mine(d, t, lk, s, rw, st) /\ (\A r \in Row : lk1[r] = t <=> lk[r] = t) /\ d \in Seq(Records)
    BY <1>1, <2>2, <2>3 DEF MineOf, Restored
  <2>5. Mine(d, t, lk1, s, rw1, st)
    BY <2>2, <2>4, MineAgain
  <2> QED BY <2>3, <2>5, MinePrimed
<1>11. ASSUME NEW r \in Row PROVE Shows(d, r, Now(r))'
  <2>1. PICK v : v = Now(r)' /\ Shows(d, r, v)
    BY <1>4, <1>6
  <2> QED BY <2>1, ShowsPrimed
<1>12. ShowsCommits(d)'
  <2>1. PICK n0, f0 : n0 = 0 /\ f0 = Applied(n0)' /\ n0 \in 0..Len(order')
    BY <1>5
  <2>2. \A r \in Row : Shows(d, r, f0[r])
    BY <1>4, <1>7, <2>1
  <2> QED BY <2>1, <2>2, CommitsPrimed
<1>13. CutRows(d)'
  <2>1. d \in Seq(Records) /\ Len(d) <= Len(image) + Len(log)
    BY <1>1 DEF Restored
  <2>2. \A x \in 1..Len(d) : Safe(d, x)'
    BY <1>2, <2>1, EverySafe
  <2> QED BY <1>12, <2>1, <2>2, AllCuts
<1>14. WritesOf(d)' /\ d = Kept'
  BY <1>1, <1>2, <1>9, <1>10, <1>11, <1>13 DEF WritesOf, Restored
<1> QED BY <1>5, <1>6, <1>7, <1>8, <1>14 DEF Rebuilds

-----------------------------------------------------------------------------
(* Every step                                                              *)

LEMMA StutterRebuilds ==
    ASSUME Rebuilds, UNCHANGED vars
    PROVE  Rebuilds'
<1>1. UNCHANGED <<mode, log, durable, image, covered, ckpt, stray, status, sets, lock, rows, order, base>>
  BY DEF vars, logVars, txnVars, histVars, boundVars
<1>2. \A e : ShowsCommits(e) => ShowsCommits(e)'
  <2> SUFFICES ASSUME NEW e, ShowsCommits(e) PROVE ShowsCommits(e)'
    OBVIOUS
  <2>1. PICK n \in 0..Len(order) : \A r \in Row : Shows(e, r, Applied(n)[r])
    BY DEF ShowsCommits
  <2>2. PICK f : f = Applied(n) /\ f = Applied(n)' /\ n \in 0..Len(order')
    BY <1>1, <2>1 DEF Applied
  <2> QED BY <2>1, <2>2, CommitsPrimed
<1>3. \A d, p : Safe(d, p)' <=> Safe(d, p)
  BY <1>1 DEF Safe, Lsn
<1>4. \A d : CutRows(d) => CutRows(d)'
  BY <1>2, <1>3 DEF CutRows, IsCut
<1>5. \A d, t : MineOf(d, t) => MineOf(d, t)'
  BY <1>1 DEF MineOf, Mine, LastOf, WritesTo, Counts, Has, Is
<1>6. \A d, r : Shows(d, r, Now(r)) => Shows(d, r, Now(r))'
  <2> SUFFICES ASSUME NEW d, NEW r, Shows(d, r, Now(r)) PROVE Shows(d, r, Now(r))'
    OBVIOUS
  <2>1. PICK v : v = Now(r)' /\ Shows(d, r, v)
    BY <1>1 DEF Now, Pending
  <2> QED BY <2>1, ShowsPrimed
<1>7. \A t : Unended(t)' <=> Unended(t)
  BY <1>1 DEF Unended
<1>8. \A d : WritesOf(d) => WritesOf(d)'
  BY <1>1, <1>2, <1>4, <1>5, <1>6, <1>7, ShapePrimed DEF WritesOf
<1>9. Kept' = Kept
  BY <1>1 DEF Kept, Disk, DiskWith
<1>10. \A r \in Row : Now(r)' = Now(r) /\ \A n : Applied(n)' = Applied(n)
  BY <1>1 DEF Now, Pending, Applied
<1> QED BY <1>1, <1>7, <1>8, <1>9, <1>10 DEF Rebuilds

LEMMA RebuildSession ==
    ASSUME TypeInv, TypeInv', Honest, Rebuilds, NEW t \in Txn, Session(t) \/ Engine(t)
    PROVE  Rebuilds'
<1>1. ASSUME NEW r \in Row, LockRow(t, r) \/ Write(t, r) \/ Unwrite(t, r) PROVE Rebuilds'
  BY <1>1, LockRowRebuilds, WriteRebuilds
<1>2. ASSUME NEW g \in Gid, PrepareTxn(t, g) \/ PrepareAppendFails(t, g) PROVE Rebuilds'
  BY <1>2, PrepareRebuilds, PrepareFailsRebuilds
<1>3. ASSUME Begin(t) \/ CommitStage(t) PROVE Rebuilds'
  BY <1>3, BeginRebuilds, CommitStageRebuilds
<1>4. ASSUME Rollback(t) \/ PrepareRefused(t) \/ PrepareAborted(t) PROVE Rebuilds'
  BY <1>4, AbortRebuilds
<1>5. ASSUME PrepareReturns(t) \/ Committed1(t) \/ Undo1(t) PROVE Rebuilds'
  BY <1>5, PrepareReturnsRebuilds, Committed1Rebuilds, Undo1Rebuilds
<1> QED BY <1>1, <1>2, <1>3, <1>4, <1>5 DEF Session, Engine

LEMMA RebuildStep == TwoPhaseInv /\ RebuildInv /\ [Next]_vars => RebuildInv'
<1> SUFFICES ASSUME TwoPhaseInv, RebuildInv, [Next]_vars, ~misread' PROVE Rebuilds'
  BY DEF RebuildInv
<1>0. ~misread
  BY MisreadStays
<1>t. TypeInv /\ TypeInv' /\ Honest /\ Rebuilds
  BY <1>0, TypeStep DEF TwoPhaseInv, RebuildInv
<1>1. ASSUME NEW t \in Txn, Session(t) \/ Engine(t) PROVE Rebuilds'
  BY <1>t, <1>1, RebuildSession
<1>2. ASSUME NEW g \in Gid, FinishCommit(g) \/ FinishRollback(g) \/ FinishAppendFails(g)
      PROVE  Rebuilds'
  BY <1>t, <1>2, FinishRebuilds, FinishFailsRebuilds
<1>3. CASE Fsync
  BY <1>t, <1>3, FsyncRebuilds
<1>4. CASE Publish
  BY <1>t, <1>4, PublishRebuilds
<1>5. CASE Truncate
  BY <1>t, <1>5, TruncateRebuilds
<1>6. CASE Crash
  BY <1>t, <1>6, CrashRebuilds, MisreadStays
<1>7. CASE Recover
  BY <1>t, <1>7, RecoverRebuilds
<1>8. CASE RefuseClash
  BY <1>t, <1>8, RefuseStep
<1>9. CASE UNCHANGED vars
  BY <1>t, <1>9, StutterRebuilds
<1> QED BY <1>1, <1>2, <1>3, <1>4, <1>5, <1>6, <1>7, <1>8, <1>9 DEF Next

LEMMA RebuildStart == Init => RebuildInv
<1> SUFFICES ASSUME Init PROVE Rebuilds
  BY DEF RebuildInv
<1>1. TypeInv /\ mode = "up" /\ ~stray /\ ~ckpt /\ Len(log) = 0 /\ Len(image) = 0 /\ order = <<>>
  BY TypeStart DEF Init
<1>2. PICK d : d = Kept /\ d \in Seq(Records) /\ Len(d) = 0
  <2>1. Climbs
    BY <1>1 DEF Climbs
  <2>2. Kept \in Seq(Records) /\ Len(Kept) <= Len(image) + Len(log)
    BY <1>1, <2>1, KeptIs DEF TypeInv
  <2>3. Len(Kept) \in Nat /\ Len(Kept) <= 0 + 0
    BY <1>1, <2>2
  <2> QED BY <2>2, <2>3
<1>3. \A t \in Txn : ~Unended(t) /\ DOMAIN sets[t] = {}
  <2> SUFFICES ASSUME NEW t \in Txn PROVE ~Unended(t) /\ DOMAIN sets[t] = {}
    OBVIOUS
  <2>1. status[t] = "none" /\ sets[t] = <<>>
    BY DEF Init
  <2> QED BY <2>1 DEF Unended
<1>4. \A r \in Row : Now(r) = NoValue /\ Applied(0)[r] = NoValue
  <2> SUFFICES ASSUME NEW r \in Row PROVE Now(r) = NoValue /\ Applied(0)[r] = NoValue
    OBVIOUS
  <2>1. lock[r] = Nobody /\ rows[r] = NoValue /\ base[r] = NoValue
    BY DEF Init
  <2>2. {i \in 1..0 : r \in DOMAIN order[i].sets} = {}
    OBVIOUS
  <2> QED BY <2>1, <2>2 DEF Now, Pending, Applied
<1>5. order \in Seq(Entries) /\ Len(order) = 0
  BY <1>1
<1>6. Shape(d) /\ \A e \in Seq(Records) : Len(e) = 0 => \A r : Shows(e, r, NoValue)
  BY <1>2 DEF Shape, Shows
<1>7. CutRows(d)
  <2> SUFFICES ASSUME NEW c \in 0..Len(d), NEW e \in Seq(Records), IsCut(e, d, c)
               PROVE  ShowsCommits(e)
    BY DEF CutRows
  <2>1. Len(e) = 0
    BY <1>2 DEF IsCut
  <2>2. 0 \in 0..Len(order)
    BY <1>5
  <2> QED BY <1>4, <1>6, <2>1, <2>2 DEF ShowsCommits
<1>8. WritesOf(d)
  BY <1>1, <1>2, <1>3, <1>4, <1>6, <1>7 DEF WritesOf
<1> QED BY <1>2, <1>3, <1>4, <1>5, <1>8 DEF Rebuilds

\* Only recovery opens the database again.
LEMMA OnlyRecover ==
    ASSUME [Next]_vars, mode = "down", mode' = "up"
    PROVE  Recover
<1>1. ASSUME NEW t \in Txn, Session(t) \/ Engine(t) PROVE FALSE
  BY <1>1 DEF Session, Engine, Begin, Rollback, CommitStage, PrepareRefused, LockRow, Write, Unwrite,
       PrepareTxn, PrepareAppendFails, PrepareReturns, PrepareAborted, Committed1, Undo1, Gated, Up
<1>2. ASSUME NEW g \in Gid, FinishCommit(g) \/ FinishRollback(g) \/ FinishAppendFails(g) PROVE FALSE
  BY <1>2 DEF FinishCommit, FinishRollback, FinishAppendFails, Gated, Up
<1>3. ~(Fsync \/ Publish \/ Truncate \/ Crash \/ RefuseClash \/ UNCHANGED vars)
  BY DEF Fsync, Publish, Truncate, Crash, RefuseClash, vars, Gated, Up
<1> QED BY <1>1, <1>2, <1>3 DEF Next

\* What the disk shows, and would show after a crash at any moment: the rows of a point
\* of the commit order, and of every transaction that has not ended the writes it has
\* not undone, the last ones of their rows, and with its prepare the locks it holds.
THEOREM TwoPhaseRebuilds == Spec => []RebuildInv
BY RebuildStart, RebuildStep, TwoPhaseInvariant, PTL DEF Spec

\* Recovery rebuilds the rows of some point in the order of the commit markers, and
\* every prepared transaction with the writes and the locks it had, from the log or from
\* an image that carried it (engine.rs replay; prepared.rs park_prepared and
\* restore_prepared).
THEOREM TwoPhaseRecovers == Spec => RecoversPrepared
<1>1. TwoPhaseInv /\ RebuildInv /\ [Next]_vars =>
         [mode = "down" /\ mode' = "up" /\ ~misread =>
             /\ \E n \in 0..Len(order) : rows' = Applied(n)
             /\ \A t \in Txn : status'[t] = "prepared" =>
                   sets'[t] = sets[t] /\ \A r \in Row : lock[r] = t => lock'[r] = t]_vars
  <2> SUFFICES ASSUME TwoPhaseInv, RebuildInv, [Next]_vars, mode = "down", mode' = "up", ~misread
               PROVE  /\ \E n \in 0..Len(order) : rows' = Applied(n)
                      /\ \A t \in Txn : status'[t] = "prepared" =>
                            sets'[t] = sets[t] /\ \A r \in Row : lock[r] = t => lock'[r] = t
    OBVIOUS
  <2>1. Recover /\ TypeInv /\ TypeInv' /\ Honest /\ Rebuilds
    BY OnlyRecover, TypeStep DEF TwoPhaseInv, RebuildInv
  <2>2. PICK d : Restored(d)
    BY <2>1, RestoredIs
  <2>3. \E n \in 0..Len(order) : rows' = Applied(n)
    BY <2>2, RestoredRows
  <2>4. status' = status
    BY <2>1 DEF Recover
  <2> QED BY <2>2, <2>3, <2>4 DEF Restored
<1> QED BY <1>1, TwoPhaseInvariant, TwoPhaseRebuilds, PTL DEF Spec, RecoversPrepared
=============================================================================
