---------------------------- MODULE StandbyProofs ----------------------------
(***************************************************************************)
(* A standby shows what the primary had at its position, its readers are   *)
(* never disturbed, it stays within what was archived, and the id its      *)
(* image is filed under is never aborted past it: for any number of        *)
(* readers, transactions, checkpoints and crashes of either machine.       *)
(*                                                                         *)
(* An id is spent once an image carries it or its end is in the history    *)
(* behind the standby's position; the invariant follows the ids the        *)
(* primary may still hand out through its checkpoints and crashes.         *)
(*                                                                         *)
(* What a standby shows is stated without replay (Shown): a row is what    *)
(* the last transaction to commit among its writers made of it.  Replay of *)
(* any records that respect the order of commits computes it, whether they *)
(* are the history (TruthIs), what records_past picks of a segment         *)
(* (PastIs) or an image and the log past it (OpenIs).                      *)
(***************************************************************************)
EXTENDS Standby, FiniteSetTheorems, WellFoundedInduction, TLAPS

-----------------------------------------------------------------------------
(* The invariant                                                           *)

Records ==
    [kind : {"op"}, txn : Txn, row : Row, val : Txn] \cup [kind : {"begin"}, txn : Txn]
    \cup [kind : {"prepare"}, txn : Txn, gid : Gid, locks : SUBSET Row]
    \cup [kind : {"commit", "abort"}, txn : Txn]

IsEnd(rec) == rec.kind \in {"commit", "abort"}
Unended(t) == pstate[t] \in {"running", "prepared"}

\* The primary: an id in the history was given out, its end is the last thing
\* logged of it, and an image's id is its own.
PrimaryInv ==
    /\ history \in Seq(Records)
    /\ pstate \in [Txn -> {"none", "running", "prepared", "ended"}]
    /\ nextTxn \in 1..(MaxTxn + 1)
    /\ \A i \in 1..End : history[i].txn < nextTxn
    /\ \A t \in Txn : pstate[t] # "none" => t < nextTxn
    /\ \A t \in Txn : Unended(t) => \A i \in 1..End : ~(IsEnd(history[i]) /\ history[i].txn = t)
    /\ \A i, j \in 1..End : i < j /\ IsEnd(history[i]) /\ IsEnd(history[j]) =>
                                history[i].txn # history[j].txn

ImagesInv ==
    \A m \in images :
        /\ m.at \in 0..End /\ m.stamp \in Txn /\ m.stamp < nextTxn
        /\ pstate[m.stamp] = "ended"
        /\ \A i \in 1..End : history[i].txn # m.stamp

\* Some image was archived at position n or later.
Archived(n) == n \in Nat /\ (n = 0 \/ \E m \in images : n <= m.at)

ArchiveInv ==
    /\ logFrom \in Nat \ {0} /\ Archived(logFrom - 1)
    /\ \A s \in segments : s.from \in Nat \ {0} /\ s.to \in Nat /\ s.from <= s.to /\ Archived(s.to)

\* No one will abort t past position n.
Spent(t, n) ==
    /\ t \in 0..MaxTxn
    /\ \/ t = 0
       \/ \E m \in images : m.stamp = t
       \/ \E i \in 1..n : IsEnd(history[i]) /\ history[i].txn = t

DiskInv ==
    /\ Archived(position) /\ image.at \in 0..position
    /\ Spent(image.stamp, image.at)
    /\ kept \in BOOLEAN

\* The pauses are counted, and hold readers off from when none is left until
\* the records are applied.
EngineInv ==
    /\ up \in BOOLEAN /\ failed \in BOOLEAN /\ readers \subseteq Reader
    /\ apply \in {"idle", "holding", "quiet", "replayed"} /\ fold \in {"idle", "holding"}
    /\ paused = (IF apply = "idle" THEN 0 ELSE 1) + (IF fold = "idle" THEN 0 ELSE 1)
    /\ apply \in {"quiet", "replayed"} => readers = {}
    /\ ~up => readers = {} /\ apply = "idle" /\ fold = "idle" /\ ~failed
    /\ apply # "idle" \/ failed => Archived(segment.to) /\ segment.from \in Nat \ {0}
    /\ apply # "idle" => position <= segment.to /\ ~failed
    /\ up => Spent(lastTxn, position)

StandbyInv == PrimaryInv /\ ImagesInv /\ ArchiveInv /\ DiskInv /\ EngineInv

-----------------------------------------------------------------------------
(* The greatest of a bounded set of naturals                               *)

LEMMA HasLeast ==
    ASSUME NEW S \in SUBSET Nat, S # {}
    PROVE  \E x \in S : \A y \in S : x <= y
<1>1. \E x \in S : \A y \in S : ~(<<y, x>> \in OpToRel(<, Nat))
  <2> HIDE DEF OpToRel
  <2> QED BY NatLessThanWellFounded, WFMin, Zenon
<1>2. PICK x \in S : \A y \in S : ~(<<y, x>> \in OpToRel(<, Nat))
  BY <1>1
<1>3. \A y \in S : x <= y
  <2> SUFFICES ASSUME NEW y \in S, ~(x <= y) PROVE FALSE
    OBVIOUS
  <2>1. x \in Nat /\ y \in Nat /\ y < x
    OBVIOUS
  <2>2. <<y, x>> \in OpToRel(<, Nat)
    BY <2>1 DEF OpToRel
  <2> QED BY <2>2, <1>2
<1> QED BY <1>3

LEMMA HighestIs ==
    ASSUME NEW n \in Nat, NEW S \in SUBSET (0..n), S # {}
    PROVE  Highest(S) \in S /\ \A y \in S : y <= Highest(S)
<1> DEFINE Bounds == {b \in Nat : \A y \in S : y <= b}
<1>1. n \in Bounds
  OBVIOUS
<1>2. PICK b \in Bounds : \A c \in Bounds : b <= c
  <2> HIDE DEF Bounds
  <2>1. Bounds \in SUBSET Nat
    BY DEF Bounds
  <2> QED BY <1>1, <2>1, HasLeast
<1>3. b \in S
  <2> SUFFICES ASSUME b \notin S PROVE FALSE
    OBVIOUS
  <2>1. \A y \in S : y \in Nat /\ y <= b /\ y # b
    OBVIOUS
  <2>2. b # 0
    <3>1. PICK y \in S : TRUE
      OBVIOUS
    <3> QED BY <2>1, <3>1
  <2>3. b - 1 \in Bounds
    BY <2>1, <2>2
  <2> QED BY <2>3, <1>2
<1> QED BY <1>3 DEF Highest

-----------------------------------------------------------------------------
(* What was archived stays, and so do the ids that are spent               *)

LEMMA ArchivedIs ==
    ASSUME PrimaryInv, ImagesInv, NEW n, Archived(n)
    PROVE  n \in 0..End
<1>1. End \in Nat
  BY DEF PrimaryInv, End
<1>2. \A m \in images : m.at \in Nat /\ m.at <= End
  BY <1>1 DEF ImagesInv
<1> QED BY <1>1, <1>2 DEF Archived

LEMMA ArchivedBelow ==
    ASSUME ImagesInv, PrimaryInv, NEW n, Archived(n), NEW k \in 0..n
    PROVE  Archived(k)
<1>1. End \in Nat
  BY DEF PrimaryInv, End
<1>2. \A m \in images : m.at \in Nat
  BY <1>1 DEF ImagesInv
<1> QED BY <1>2 DEF Archived

\* The primary's step leaves what it archived.
ArchiveStays ==
    /\ images \subseteq images'
    /\ \A n \in Nat : Archived(n) => \A i \in 1..n : history'[i] = history[i]

LEMMA ArchivedStays ==
    ASSUME images \subseteq images', NEW n, Archived(n)
    PROVE  Archived(n)'
BY DEF Archived

LEMMA SpentStays ==
    ASSUME ArchiveStays, NEW t, NEW n, Archived(n), Spent(t, n)
    PROVE  Spent(t, n)'
<1>1. \A i \in 1..n : history'[i] = history[i]
  BY DEF ArchiveStays, Archived
<1>2. images \subseteq images'
  BY DEF ArchiveStays
<1> QED BY <1>1, <1>2 DEF Spent

\* What the primary does leaves the standby's part of the invariant alone.
LEMMA StandbyUnmoved ==
    ASSUME StandbyInv, ArchiveStays, StandbyStays
    PROVE  DiskInv' /\ EngineInv'
<1>0. /\ PrimaryInv /\ ImagesInv /\ DiskInv /\ EngineInv
      /\ images \subseteq images'
  BY DEF StandbyInv, ArchiveStays
<1>1. UNCHANGED <<kept, image, position, up, memory, lastTxn, failed, paused, readers, apply,
                  segment, fold>>
  BY DEF StandbyStays, diskVars, engineVars, threadVars
<1>2. Archived(position) /\ image.at \in 0..position /\ Archived(image.at)
  BY <1>0, ArchivedBelow DEF DiskInv
<1>3. Archived(position)'
  BY <1>0, <1>1, <1>2 DEF Archived
<1>4. ASSUME Spent(lastTxn, position) PROVE Spent(lastTxn, position)'
  <2>1. PICK t, n : t = lastTxn /\ n = position
    OBVIOUS
  <2>2. Spent(t, n)'
    BY <1>2, <1>4, <2>1, SpentStays
  <2> QED BY <1>1, <2>1, <2>2 DEF Spent
<1>5. Spent(image.stamp, image.at)'
  <2>1. PICK t, n : t = image.stamp /\ n = image.at
    OBVIOUS
  <2>2. Spent(t, n)'
    BY <1>0, <1>2, <2>1, SpentStays DEF DiskInv
  <2> QED BY <1>1, <2>1, <2>2 DEF Spent
<1>6. ASSUME Archived(segment.to) PROVE Archived(segment.to)'
  BY <1>0, <1>1, <1>6 DEF Archived
<1>7. DiskInv'
  BY <1>0, <1>1, <1>3, <1>5 DEF DiskInv
<1>8. EngineInv'
  BY <1>0, <1>1, <1>4, <1>6 DEF EngineInv
<1> QED BY <1>7, <1>8

-----------------------------------------------------------------------------
(* The primary logs                                                        *)

\* The records of one transaction: its end comes last.
OfOne(recs, t) ==
    /\ recs \in Seq(Records)
    /\ \A i \in 1..Len(recs) : recs[i].txn = t /\ (IsEnd(recs[i]) => i = Len(recs))

LEMMA LogsKeeps ==
    ASSUME StandbyInv, NEW t \in Txn, NEW recs, OfOne(recs, t), Logs(recs),
           Unended(t) \/ t = nextTxn,
           NEW state \in {"running", "prepared", "ended"},
           pstate' = [pstate EXCEPT ![t] = state],
           \A i \in 1..Len(recs) : IsEnd(recs[i]) => state = "ended",
           nextTxn' = IF t = nextTxn THEN t + 1 ELSE nextTxn,
           UNCHANGED <<logFrom, segments, images>>, StandbyStays
    PROVE  StandbyInv'
<1>0. PrimaryInv /\ ImagesInv /\ ArchiveInv
  BY DEF StandbyInv
<1>1. /\ history' = history \o recs /\ history \in Seq(Records) /\ recs \in Seq(Records)
      /\ End \in Nat /\ Len(recs) \in Nat /\ MaxTxn \in Nat /\ nextTxn \in Nat /\ t \in Nat
      /\ pstate \in [Txn -> {"none", "running", "prepared", "ended"}]
  BY <1>0, StandbyAssumption DEF Logs, PrimaryInv, OfOne, End, Txn
<1>e. PICK e, l, h : e = End /\ l = Len(recs) /\ h = history' /\ e \in Nat /\ l \in Nat
  BY <1>1
<1>2. /\ h \in Seq(Records) /\ End' = e + l
      /\ \A i \in 1..e : h[i] = history[i]
      /\ \A i \in (e + 1)..(e + l) : h[i] = recs[i - e]
  BY <1>1, <1>e DEF End
<1>3. \A i \in 1..(e + l) : \/ i \in 1..e /\ h[i] = history[i]
                            \/ /\ i \notin 1..e /\ i - e \in 1..l
                               /\ h[i] = recs[i - e] /\ h[i].txn = t
  <2>1. \A i \in (e + 1)..(e + l) : i - e \in 1..l /\ i \notin 1..e
    BY <1>e
  <2>2. \A i \in 1..l : recs[i].txn = t
    BY <1>e DEF OfOne
  <2>3. \A i \in 1..(e + l) : i \in 1..e \/ i \in (e + 1)..(e + l)
    BY <1>e
  <2> QED BY <1>2, <2>1, <2>2, <2>3
<1>4. t < nextTxn' /\ nextTxn <= nextTxn' /\ nextTxn' \in 1..(MaxTxn + 1) /\ nextTxn' \in Nat
  <2>1. t # nextTxn => t < nextTxn
    BY <1>0 DEF PrimaryInv, Unended
  <2>2. nextTxn \in 1..(MaxTxn + 1)
    BY <1>0 DEF PrimaryInv
  <2> QED BY <1>1, <2>1, <2>2 DEF Txn
<1>5. \A i \in 1..e : ~(IsEnd(history[i]) /\ history[i].txn = t)
  <2>1. \A i \in 1..e : history[i].txn < nextTxn
    BY <1>0, <1>e DEF PrimaryInv
  <2>2. t = nextTxn => \A i \in 1..e : history[i].txn # t
    BY <1>1, <2>1
  <2> QED BY <1>0, <1>e, <2>2 DEF PrimaryInv
<1>6. \A i \in 1..e : history[i].txn \in Nat /\ history[i].txn < nextTxn
  <2>1. \A i \in 1..e : history[i] \in Records
    BY <1>1, <1>e DEF End
  <2>2. \A rec \in Records : rec.txn \in Nat
    BY <1>1 DEF Records, Txn
  <2> QED BY <1>0, <1>e, <2>1, <2>2 DEF PrimaryInv
<1>7. PrimaryInv'
  <2>1. pstate' \in [Txn -> {"none", "running", "prepared", "ended"}]
    BY <1>1
  <2>2. \A i \in 1..(e + l) : h[i].txn < nextTxn'
    <3>1. \A i \in 1..e : history[i].txn < nextTxn'
      BY <1>1, <1>4, <1>6
    <3> QED BY <1>3, <1>4, <3>1
  <2>3. \A u \in Txn : pstate'[u] # "none" => u < nextTxn'
    <3> SUFFICES ASSUME NEW u \in Txn, pstate'[u] # "none" PROVE u < nextTxn'
      OBVIOUS
    <3>1. CASE u = t
      BY <1>4, <3>1
    <3>2. CASE u # t
      <4>1. u < nextTxn /\ u \in Nat
        BY <1>0, <1>1, <3>2 DEF PrimaryInv, Txn
      <4> QED BY <1>1, <1>4, <4>1
    <3> QED BY <3>1, <3>2
  <2>4. \A u \in Txn : Unended(u)' => \A i \in 1..(e + l) : ~(IsEnd(h[i]) /\ h[i].txn = u)
    <3> SUFFICES ASSUME NEW u \in Txn, Unended(u)', NEW i \in 1..(e + l),
                        IsEnd(h[i]), h[i].txn = u
                 PROVE  FALSE
      OBVIOUS
    <3>1. CASE i \in 1..e
      <4>1. IsEnd(history[i]) /\ history[i].txn = u /\ u # t
        BY <1>2, <1>5, <3>1
      <4>2. Unended(u)
        BY <1>1, <4>1 DEF Unended
      <4> QED BY <1>0, <1>e, <3>1, <4>1, <4>2 DEF PrimaryInv
    <3>2. CASE i \notin 1..e
      <4>1. u = t /\ i - e \in 1..l /\ IsEnd(recs[i - e])
        BY <1>3, <3>2
      <4>2. state = "ended"
        BY <1>e, <4>1
      <4> QED BY <1>1, <4>1, <4>2 DEF Unended
    <3> QED BY <3>1, <3>2
  <2>5. \A i, j \in 1..(e + l) : i < j /\ IsEnd(h[i]) /\ IsEnd(h[j]) => h[i].txn # h[j].txn
    <3> SUFFICES ASSUME NEW i \in 1..(e + l), NEW j \in 1..(e + l), i < j, IsEnd(h[i]),
                        IsEnd(h[j]), h[i].txn = h[j].txn
                 PROVE  FALSE
      OBVIOUS
    <3>1. CASE j \in 1..e
      <4>1. i \in 1..e
        BY <1>e, <3>1
      <4>2. h[i] = history[i] /\ h[j] = history[j]
        BY <1>2, <3>1, <4>1
      <4>3. history[i].txn # history[j].txn
        BY <1>0, <1>e, <3>1, <4>1, <4>2 DEF PrimaryInv
      <4> QED BY <4>2, <4>3
    <3>2. CASE j \notin 1..e /\ i \in 1..e
      BY <1>2, <1>3, <1>5, <3>2
    <3>3. CASE j \notin 1..e /\ i \notin 1..e
      <4>1. i - e = l /\ j - e = l
        BY <1>3, <1>e, <3>3 DEF OfOne
      <4> QED BY <1>1, <1>e, <4>1
    <3> QED BY <3>1, <3>2, <3>3
  <2> QED BY <1>e, <1>2, <1>4, <2>1, <2>2, <2>3, <2>4, <2>5 DEF PrimaryInv
<1>8. ImagesInv'
  <2> SUFFICES ASSUME NEW m \in images
               PROVE  /\ m.at \in 0..(e + l) /\ m.stamp \in Txn /\ m.stamp < nextTxn'
                      /\ pstate'[m.stamp] = "ended"
                      /\ \A i \in 1..(e + l) : h[i].txn # m.stamp
    BY <1>e, <1>2 DEF ImagesInv
  <2>1. /\ m.at \in 0..e /\ m.stamp \in Txn /\ m.stamp < nextTxn
        /\ pstate[m.stamp] = "ended"
        /\ \A i \in 1..e : history[i].txn # m.stamp
    BY <1>0, <1>e DEF ImagesInv
  <2>2. m.stamp # t /\ m.stamp \in Nat
    <3>1. ~Unended(m.stamp)
      BY <2>1 DEF Unended
    <3> QED BY <1>1, <2>1, <3>1 DEF Txn
  <2>3. \A i \in 1..(e + l) : h[i].txn # m.stamp
    BY <1>3, <2>1, <2>2
  <2>4. m.at \in 0..(e + l)
    BY <1>e, <2>1
  <2>5. m.stamp < nextTxn'
    BY <1>1, <1>4, <2>1, <2>2
  <2>6. pstate'[m.stamp] = "ended"
    BY <1>1, <2>1, <2>2
  <2> QED BY <2>1, <2>3, <2>4, <2>5, <2>6
<1>9. ArchiveInv'
  BY <1>0 DEF ArchiveInv, Archived
<1>10. ArchiveStays
  <2>1. \A n \in Nat : Archived(n) => n \in 0..e
    BY <1>0, <1>e, ArchivedIs
  <2>2. \A n \in 0..e : \A i \in 1..n : i \in 1..e
    BY <1>e
  <2> QED BY <1>e, <1>2, <2>1, <2>2 DEF ArchiveStays
<1>11. DiskInv' /\ EngineInv'
  BY <1>10, StandbyUnmoved
<1> QED BY <1>7, <1>8, <1>9, <1>11 DEF StandbyInv

\* A finite set listed (SetToSeq): each of its elements, once.
LEMMA Listed ==
    ASSUME NEW S, IsFiniteSet(S)
    PROVE  /\ SetToSeq(S) \in Seq(S)
           /\ \A x \in S : \E i \in 1..Len(SetToSeq(S)) : SetToSeq(S)[i] = x
           /\ \A i, j \in 1..Len(SetToSeq(S)) : SetToSeq(S)[i] = SetToSeq(S)[j] => i = j
<1>1. Cardinality(S) \in Nat /\ Bijection(1..Cardinality(S), S) # {}
  BY FS_CardinalityType DEF ExistsBijection
<1>2. PICK n \in Nat : n = Cardinality(S)
  BY <1>1
<1>3. \E f \in [1..n -> S] : IsInjective(f)
  BY <1>1, <1>2 DEF Bijection, Injection
<1>4. PICK f : f = SetToSeq(S) /\ f \in [1..n -> S] /\ IsInjective(f)
  BY <1>2, <1>3 DEF SetToSeq
<1>5. f \in Injection(1..n, S)
  BY <1>4 DEF Injection
<1>6. Cardinality(1..n) = n
  BY FS_Interval
<1>7. f \in Surjection(1..n, S)
  BY <1>2, <1>5, <1>6, FS_Injection
<1>8. f \in Seq(S) /\ Len(f) = n
  BY <1>4
<1>9. \A x \in S : \E i \in 1..n : f[i] = x
  BY <1>7 DEF Surjection
<1>10. \A i, j \in 1..n : f[i] = f[j] => i = j
  BY <1>4 DEF IsInjective
<1> QED BY <1>4, <1>8, <1>9, <1>10

LEMMA RowsFinite ==
    ASSUME PrimaryInv, NEW t \in Txn
    PROVE  RowsOf(t) \subseteq Row /\ IsFiniteSet(RowsOf(t))
<1>1. End \in Nat /\ \A i \in 1..End : history[i] \in Records
  BY DEF PrimaryInv, End
<1>2. \A rec \in Records : rec.kind = "op" => rec.row \in Row
  BY DEF Records
<1>3. IsFiniteSet(OpsOf(t))
  <2>1. IsFiniteSet(1..End)
    BY <1>1, FS_Interval
  <2>2. OpsOf(t) \subseteq 1..End
    BY DEF OpsOf
  <2> QED BY <2>1, <2>2, FS_Subset
<1>4. IsFiniteSet(RowsOf(t))
  <2> DEFINE f == [i \in OpsOf(t) |-> history[i].row]
  <2>1. f \in Surjection(OpsOf(t), RowsOf(t))
    BY DEF Surjection, RowsOf
  <2> QED BY <1>3, <2>1, FS_Surjection
<1>5. RowsOf(t) \subseteq Row
  BY <1>1, <1>2 DEF RowsOf, OpsOf
<1> QED BY <1>4, <1>5

LEMMA PrepareOfOne ==
    ASSUME PrimaryInv, NEW t \in Txn, NEW g \in Gid
    PROVE  /\ OfOne(PrepareRecords(t, g, RowsOf(t), [r \in RowsOf(t) |-> t]), t)
           /\ \A i \in 1..Len(PrepareRecords(t, g, RowsOf(t), [r \in RowsOf(t) |-> t])) :
                ~IsEnd(PrepareRecords(t, g, RowsOf(t), [r \in RowsOf(t) |-> t])[i])
<1>1. PICK R : R = RowsOf(t) /\ R \subseteq Row /\ IsFiniteSet(R)
  BY RowsFinite
<1>2. PICK rows : rows = SetToSeq(R) /\ rows \in Seq(R)
  BY <1>1, Listed
<1>3. PICK ops : ops = [i \in 1..Len(rows) |-> Op(t, rows[i], [r \in R |-> t][rows[i]])]
  OBVIOUS
<1> DEFINE Kept(s) == /\ s \in Seq(Records)
                      /\ \A i \in 1..Len(s) : s[i].txn = t /\ ~IsEnd(s[i])
<1>4. Kept(ops)
  <2>1. Len(rows) \in Nat /\ \A i \in 1..Len(rows) : rows[i] \in R
    BY <1>2
  <2>2. \A i \in 1..Len(rows) : Op(t, rows[i], [r \in R |-> t][rows[i]]) = Op(t, rows[i], t)
    BY <2>1
  <2>3. \A r \in R : Op(t, r, t) \in Records /\ Op(t, r, t).txn = t /\ ~IsEnd(Op(t, r, t))
    BY <1>1 DEF Op, Records, IsEnd
  <2>4. \A i \in 1..Len(rows) : /\ ops[i] \in Records /\ ops[i].txn = t /\ ~IsEnd(ops[i])
    BY <1>3, <2>1, <2>2, <2>3
  <2>5. DOMAIN ops = 1..Len(rows) /\ ops = [i \in 1..Len(rows) |-> ops[i]]
    BY <1>3
  <2>6. ops \in Seq(Records) /\ Len(ops) = Len(rows)
    BY <2>1, <2>4, <2>5
  <2> QED BY <2>4, <2>6
<1>5. PICK b, p : b = PrepareBegin(t) /\ p = Prepare(t, g, R)
  OBVIOUS
<1>6. /\ b \in Records /\ b.txn = t /\ ~IsEnd(b)
      /\ p \in Records /\ p.txn = t /\ ~IsEnd(p)
  BY <1>1, <1>5 DEF PrepareBegin, Prepare, Records, IsEnd
<1>7. ASSUME NEW s, Kept(s), NEW u, Kept(u) PROVE Kept(s \o u)
  <2>1. s \o u \in Seq(Records) /\ Len(s \o u) = Len(s) + Len(u) /\ Len(s) \in Nat /\ Len(u) \in Nat
    BY <1>7
  <2>2. ASSUME NEW i \in 1..(Len(s) + Len(u))
        PROVE  (s \o u)[i].txn = t /\ ~IsEnd((s \o u)[i])
    <3>1. CASE i \in 1..Len(s)
      <4>1. (s \o u)[i] = s[i]
        BY <1>7, <3>1
      <4> QED BY <1>7, <3>1, <4>1
    <3>2. CASE i \notin 1..Len(s)
      <4>1. i - Len(s) \in 1..Len(u) /\ (s \o u)[i] = u[i - Len(s)]
        BY <1>7, <2>1, <3>2
      <4> QED BY <1>7, <4>1
    <3> QED BY <3>1, <3>2
  <2> QED BY <2>1, <2>2
<1>8. Kept(<<b>>) /\ Kept(<<p>>)
  BY <1>6
<1>9. Kept((<<b>> \o ops) \o <<p>>)
  <2> HIDE DEF Kept
  <2> QED BY <1>4, <1>7, <1>8
<1>10. PrepareRecords(t, g, RowsOf(t), [r \in RowsOf(t) |-> t]) = (<<b>> \o ops) \o <<p>>
  <2>1. DOMAIN [r \in R |-> t] = R
    OBVIOUS
  <2> QED BY <1>1, <1>2, <1>3, <1>5, <2>1 DEF PrepareRecords
<1> QED BY <1>9, <1>10 DEF OfOne

LEMMA OneOfOne ==
    ASSUME NEW t \in Txn, NEW rec \in Records, rec.txn = t
    PROVE  OfOne(<<rec>>, t) /\ Len(<<rec>>) = 1 /\ <<rec>>[1] = rec
BY DEF OfOne

LEMMA WriteStep ==
    ASSUME StandbyInv, NEW t \in Txn, NEW r \in Row, Write(t, r)
    PROVE  StandbyInv'
<1>1. PICK rec : rec = Op(t, r, t)
  OBVIOUS
<1>2. rec \in Records /\ rec.txn = t /\ ~IsEnd(rec)
  BY <1>1 DEF Op, Records, IsEnd
<1>3. /\ Logs(<<rec>>) /\ (Unended(t) \/ t = nextTxn)
      /\ pstate' = [pstate EXCEPT ![t] = "running"]
      /\ nextTxn' = IF t = nextTxn THEN t + 1 ELSE nextTxn
      /\ UNCHANGED <<logFrom, segments, images>> /\ StandbyStays
  BY <1>1 DEF Write, Unended
<1>4. OfOne(<<rec>>, t) /\ \A i \in 1..Len(<<rec>>) : ~IsEnd(<<rec>>[i])
  BY <1>2, OneOfOne
<1> QED BY <1>3, <1>4, LogsKeeps

LEMMA EndsStep ==
    ASSUME StandbyInv, NEW t \in Txn, NEW recs, OfOne(recs, t), Unended(t),
           NEW state \in {"prepared", "ended"},
           \A i \in 1..Len(recs) : IsEnd(recs[i]) => state = "ended",
           Ends(t, recs, state)
    PROVE  StandbyInv'
<1>1. nextTxn' = IF t = nextTxn THEN t + 1 ELSE nextTxn
  <2>1. t < nextTxn /\ t \in Nat /\ nextTxn \in Nat
    BY StandbyAssumption DEF StandbyInv, PrimaryInv, Unended, Txn
  <2> QED BY <2>1 DEF Ends
<1>2. /\ Logs(recs) /\ pstate' = [pstate EXCEPT ![t] = state]
      /\ UNCHANGED <<logFrom, segments, images>> /\ StandbyStays
  BY DEF Ends
<1> QED BY <1>1, <1>2, LogsKeeps

LEMMA CommitStep ==
    ASSUME StandbyInv, NEW t \in Txn, Commit(t) \/ Abort(t)
    PROVE  StandbyInv'
<1>1. PICK rec : (rec = CommitTxn(t) \/ rec = AbortTxn(t)) /\ Ends(t, <<rec>>, "ended")
  BY DEF Commit, Abort
<1>2. rec \in Records /\ rec.txn = t
  BY <1>1 DEF CommitTxn, AbortTxn, Records
<1>3. Unended(t)
  BY DEF Commit, Abort, Unended
<1> QED BY <1>1, <1>2, <1>3, OneOfOne, EndsStep

LEMMA PrepareStep ==
    ASSUME StandbyInv, NEW t \in Txn, NEW g \in Gid, PrepareTxn(t, g)
    PROVE  StandbyInv'
<1>1. PICK recs : /\ recs = PrepareRecords(t, g, RowsOf(t), [r \in RowsOf(t) |-> t])
                  /\ Ends(t, recs, "prepared")
  BY DEF PrepareTxn
<1>2. OfOne(recs, t) /\ \A i \in 1..Len(recs) : ~IsEnd(recs[i])
  BY <1>1, PrepareOfOne DEF StandbyInv
<1>3. Unended(t)
  BY DEF PrepareTxn, Unended
<1> QED BY <1>1, <1>2, <1>3, EndsStep

-----------------------------------------------------------------------------
(* The primary checkpoints, and crashes                                    *)

LEMMA PrimaryCheckpointStep ==
    ASSUME StandbyInv, PrimaryCheckpoint
    PROVE  StandbyInv'
<1>0. PrimaryInv /\ ImagesInv /\ ArchiveInv
  BY DEF StandbyInv
<1>1. PICK e, n, m : e = End /\ n = nextTxn /\ m = [at |-> e, stamp |-> n]
  OBVIOUS
<1>2. /\ images' = images \cup {m} /\ nextTxn' = n + 1 /\ pstate' = [pstate EXCEPT ![n] = "ended"]
      /\ n <= MaxTxn /\ history' = history /\ End' = e /\ logFrom' \in {logFrom, e + 1}
      /\ StandbyStays
  BY <1>1 DEF PrimaryCheckpoint, End
<1>3. /\ e \in Nat /\ n \in Nat /\ n \in Txn /\ MaxTxn \in Nat /\ n \in 1..(MaxTxn + 1)
      /\ pstate \in [Txn -> {"none", "running", "prepared", "ended"}]
      /\ \A i \in 1..e : history[i].txn < n
      /\ \A t \in Txn : t \in Nat
  BY <1>0, <1>1, <1>2, StandbyAssumption DEF PrimaryInv, End, Txn
<1>4. \A i \in 1..e : history[i].txn \in Nat
  <2>1. \A i \in 1..e : history[i] \in Records
    BY <1>0, <1>1 DEF PrimaryInv, End
  <2>2. \A rec \in Records : rec.txn \in Nat
    BY <1>3 DEF Records
  <2> QED BY <2>1, <2>2
<1>5. PrimaryInv'
  <2>1. pstate' \in [Txn -> {"none", "running", "prepared", "ended"}]
    BY <1>2, <1>3
  <2>2. nextTxn' \in 1..(MaxTxn + 1)
    BY <1>2, <1>3
  <2>3. \A i \in 1..e : history[i].txn < n + 1
    BY <1>3, <1>4
  <2>4. \A t \in Txn : pstate'[t] # "none" => t < n + 1
    <3>1. \A t \in Txn : pstate[t] # "none" => t < n
      BY <1>0, <1>1 DEF PrimaryInv
    <3> QED BY <1>2, <1>3, <3>1
  <2>5. \A t \in Txn : Unended(t)' => Unended(t)
    BY <1>2, <1>3 DEF Unended
  <2> HIDE DEF Unended
  <2>6. \A t \in Txn : Unended(t)' => \A i \in 1..e : ~(IsEnd(history[i]) /\ history[i].txn = t)
    BY <1>0, <1>1, <2>5 DEF PrimaryInv
  <2>7. \A i, j \in 1..e : i < j /\ IsEnd(history[i]) /\ IsEnd(history[j]) =>
                               history[i].txn # history[j].txn
    BY <1>0, <1>1 DEF PrimaryInv
  <2>8. history \in Seq(Records)
    BY <1>0 DEF PrimaryInv
  <2> QED BY <1>2, <2>1, <2>2, <2>3, <2>4, <2>6, <2>7, <2>8 DEF PrimaryInv
<1>6. ImagesInv'
  <2> SUFFICES ASSUME NEW k \in images'
               PROVE  /\ k.at \in 0..e /\ k.stamp \in Txn /\ k.stamp < n + 1
                      /\ pstate'[k.stamp] = "ended"
                      /\ \A i \in 1..e : history[i].txn # k.stamp
    BY <1>2 DEF ImagesInv
  <2>1. CASE k = m
    <3>1. k.at = e /\ k.stamp = n
      BY <1>1, <2>1
    <3>2. \A i \in 1..e : history[i].txn # n
      BY <1>3, <1>4
    <3>3. pstate'[n] = "ended"
      BY <1>2, <1>3
    <3>4. e \in 0..e /\ n < n + 1
      BY <1>3
    <3> QED BY <1>3, <3>1, <3>2, <3>3, <3>4
  <2>2. CASE k \in images
    <3>1. /\ k.at \in 0..e /\ k.stamp \in Txn /\ k.stamp < n /\ pstate[k.stamp] = "ended"
          /\ \A i \in 1..e : history[i].txn # k.stamp
      BY <1>0, <1>1, <2>2 DEF ImagesInv
    <3>2. k.stamp < n + 1
      <4>1. k.stamp \in Nat
        BY <1>3, <3>1
      <4> QED BY <1>3, <3>1, <4>1
    <3>3. pstate'[k.stamp] = "ended"
      BY <1>2, <1>3, <3>1
    <3> QED BY <3>1, <3>2, <3>3
  <2> QED BY <1>2, <2>1, <2>2
<1>7. \A x : Archived(x) => Archived(x)'
  BY <1>2 DEF Archived
<1>8. Archived(e)'
  BY <1>1, <1>2, <1>3 DEF Archived
<1>9. ArchiveInv'
  <2>1. logFrom \in Nat \ {0} /\ Archived(logFrom - 1)
    BY <1>0 DEF ArchiveInv
  <2>2. logFrom' \in Nat \ {0} /\ Archived(logFrom - 1)'
    <3>1. CASE logFrom' = logFrom
      <4>1. Archived(logFrom - 1)'
        <5>1. PICK x : x = logFrom - 1
          OBVIOUS
        <5>2. Archived(x)'
          BY <1>7, <2>1, <5>1
        <5> QED BY <3>1, <5>1, <5>2
      <4> QED BY <2>1, <3>1, <4>1
    <3>2. CASE logFrom' = e + 1
      <4>1. logFrom' \in Nat \ {0} /\ logFrom' - 1 = e
        BY <1>3, <3>2
      <4> QED BY <1>8, <4>1
    <3> QED BY <1>2, <3>1, <3>2
  <2>3. ASSUME NEW s \in segments'
        PROVE  /\ s.from \in Nat \ {0} /\ s.to \in Nat /\ s.from <= s.to
               /\ Archived(s.to)'
    <3>1. CASE s \in segments
      BY <1>0, <1>7, <3>1 DEF ArchiveInv
    <3>2. CASE s \notin segments
      <4>1. s = [from |-> logFrom, to |-> e] /\ logFrom <= e
        BY <1>1, <3>2 DEF PrimaryCheckpoint
      <4> QED BY <1>3, <1>8, <2>1, <4>1
    <3> QED BY <3>1, <3>2
  <2> QED BY <2>2, <2>3 DEF ArchiveInv
<1>10. ArchiveStays
  BY <1>2 DEF ArchiveStays
<1>11. DiskInv' /\ EngineInv'
  BY <1>2, <1>10, StandbyUnmoved
<1> QED BY <1>5, <1>6, <1>9, <1>11 DEF StandbyInv

LEMMA PrimaryCrashStep ==
    ASSUME StandbyInv, PrimaryCrash
    PROVE  StandbyInv'
<1>0. PrimaryInv /\ ImagesInv /\ ArchiveInv
  BY DEF StandbyInv
<1> DEFINE must == {i \in 1..End : \/ history[i].kind \in {"commit", "prepare"}
                                   \/ history[i].kind = "abort"
                                      /\ history[i].txn \in Named(history, {"prepare"})
                                   \/ \E m \in images : i <= m.at}
           named(k) == {0} \cup {m.stamp : m \in images} \cup {history[i].txn : i \in 1..k}
<1>1. PICK k \in Highest(must \cup {0})..End :
          /\ history' = SubSeq(history, 1, k) /\ nextTxn' = 1 + Highest(named(k))
  BY Zenon DEF PrimaryCrash
<1>2. /\ pstate' = [t \in Txn |-> IF t >= nextTxn' THEN "none"
                                  ELSE IF pstate[t] = "running" THEN "ended" ELSE pstate[t]]
      /\ UNCHANGED <<logFrom, segments, images>> /\ StandbyStays
  BY DEF PrimaryCrash
<1>3. PICK e, n : e = End /\ n = nextTxn
  OBVIOUS
<1>4. /\ e \in Nat /\ n \in Nat /\ MaxTxn \in Nat /\ n \in 1..(MaxTxn + 1)
      /\ \A t \in Txn : t \in Nat
      /\ pstate \in [Txn -> {"none", "running", "prepared", "ended"}]
      /\ history \in Seq(Records) /\ Len(history) = e
  BY <1>0, <1>3, StandbyAssumption DEF PrimaryInv, End, Txn
<1>5. \A i \in 1..e : history[i].txn \in Nat /\ history[i].txn < n
  <2>1. \A i \in 1..e : history[i] \in Records
    BY <1>4
  <2>2. \A rec \in Records : rec.txn \in Nat
    BY <1>4 DEF Records
  <2> QED BY <1>0, <1>3, <2>1, <2>2 DEF PrimaryInv
<1>6. PICK top : /\ top = Highest(must \cup {0}) /\ top \in 0..e
                 /\ \A y \in must : y <= top
  <2>1. must \cup {0} \in SUBSET (0..e) /\ must \cup {0} # {}
    BY <1>3, <1>4
  <2> HIDE DEF must
  <2> QED BY <1>4, <2>1, HighestIs
<1>7. k \in 0..e /\ \A m \in images : m.at \in 0..k
  <2>1. k \in Int /\ top <= k /\ k <= e
    BY <1>1, <1>3, <1>4, <1>6
  <2>2. ASSUME NEW m \in images PROVE m.at \in 0..k
    <3>1. m.at \in 0..e
      BY <1>0, <1>3 DEF ImagesInv
    <3>2. m.at # 0 => m.at \in must
      BY <1>3, <1>4, <3>1
    <3> HIDE DEF must
    <3>3. m.at <= top
      <4>1. CASE m.at = 0
        BY <1>4, <1>6, <4>1
      <4>2. CASE m.at # 0
        BY <1>6, <3>2, <4>2
      <4> QED BY <4>1, <4>2
    <3> QED BY <1>4, <1>6, <2>1, <3>1, <3>3
  <2> QED BY <1>4, <1>6, <2>1, <2>2
<1>8. /\ history' \in Seq(Records) /\ End' = k
      /\ \A i \in 1..k : history'[i] = history[i] /\ i \in 1..e
  <2>1. k \in Nat /\ k <= e /\ \A i \in 1..k : i \in 1..e
    BY <1>4, <1>7
  <2>2. Len(SubSeq(history, 1, k)) = k
    BY <1>4, <2>1
  <2>3. \A i \in 1..k : SubSeq(history, 1, k)[i] = history[i]
    BY <1>4, <2>1
  <2>4. SubSeq(history, 1, k) \in Seq(Records)
    BY <1>4, <2>1
  <2> QED BY <1>1, <2>1, <2>2, <2>3, <2>4 DEF End
<1>9. /\ \A m \in images : m.stamp \in Nat /\ m.stamp < nextTxn'
      /\ \A i \in 1..k : history[i].txn < nextTxn'
      /\ nextTxn' \in 1..(MaxTxn + 1)
  <2>1. \A m \in images : m.stamp \in Nat /\ m.stamp < n
    BY <1>0, <1>3, <1>4 DEF ImagesInv
  <2>2. \A x \in named(k) : x \in Nat /\ x < n
    BY <1>4, <1>5, <1>8, <2>1
  <2>3. n - 1 \in Nat /\ named(k) \in SUBSET (0..(n - 1)) /\ named(k) # {}
    <3>1. named(k) # {}
      OBVIOUS
    <3> HIDE DEF named
    <3> QED BY <1>4, <2>2, <3>1
  <2>4. PICK h : h = Highest(named(k)) /\ h \in named(k) /\ \A y \in named(k) : y <= h
    <3> HIDE DEF named
    <3> QED BY <2>3, HighestIs
  <2>5. h \in Nat /\ h < n /\ nextTxn' = 1 + h
    <3> HIDE DEF named
    <3> QED BY <1>1, <2>2, <2>4
  <2>6. \A x \in named(k) : x < nextTxn'
    <3> HIDE DEF named
    <3> QED BY <2>2, <2>4, <2>5
  <2>7. \A m \in images : m.stamp < nextTxn'
    BY <2>6
  <2>8. \A i \in 1..k : history[i].txn < nextTxn'
    BY <2>6
  <2>9. nextTxn' \in 1..(MaxTxn + 1)
    BY <1>4, <2>5
  <2> QED BY <2>1, <2>7, <2>8, <2>9
<1> HIDE DEF must, named
<1>10. PrimaryInv'
  <2>1. pstate' \in [Txn -> {"none", "running", "prepared", "ended"}]
    <3>1. ASSUME NEW t \in Txn
          PROVE  (IF t >= nextTxn' THEN "none" ELSE IF pstate[t] = "running" THEN "ended"
                  ELSE pstate[t]) \in {"none", "running", "prepared", "ended"}
      BY <1>4
    <3> QED BY <1>2, <3>1
  <2>2. \A t \in Txn : pstate'[t] # "none" => t < nextTxn'
    BY <1>2, <1>4, <1>9
  <2>3. \A t \in Txn : Unended(t)' => Unended(t)
    BY <1>2, <1>4 DEF Unended
  <2>4. \A t \in Txn : Unended(t)' => \A i \in 1..k : ~(IsEnd(history'[i]) /\ history'[i].txn = t)
    <3>1. \A t \in Txn : Unended(t) => \A i \in 1..e : ~(IsEnd(history[i]) /\ history[i].txn = t)
      BY <1>0, <1>3 DEF PrimaryInv
    <3> QED BY <1>8, <2>3, <3>1
  <2>5. \A i, j \in 1..k : i < j /\ IsEnd(history'[i]) /\ IsEnd(history'[j]) =>
                               history'[i].txn # history'[j].txn
    <3>1. \A i, j \in 1..e : i < j /\ IsEnd(history[i]) /\ IsEnd(history[j]) =>
                                 history[i].txn # history[j].txn
      BY <1>0, <1>3 DEF PrimaryInv
    <3> QED BY <1>8, <3>1
  <2>6. \A i \in 1..k : history'[i].txn < nextTxn'
    BY <1>8, <1>9
  <2> QED BY <1>8, <1>9, <2>1, <2>2, <2>4, <2>5, <2>6 DEF PrimaryInv
<1>11. ImagesInv'
  <2> SUFFICES ASSUME NEW m \in images
               PROVE  /\ m.at \in 0..k /\ m.stamp \in Txn /\ m.stamp < nextTxn'
                      /\ pstate'[m.stamp] = "ended"
                      /\ \A i \in 1..k : history'[i].txn # m.stamp
    BY <1>2, <1>8 DEF ImagesInv
  <2>1. /\ m.stamp \in Txn /\ pstate[m.stamp] = "ended"
        /\ \A i \in 1..e : history[i].txn # m.stamp
    BY <1>0, <1>3 DEF ImagesInv
  <2>2. m.stamp \in Nat /\ nextTxn' \in Nat /\ m.stamp < nextTxn'
    BY <1>4, <1>9
  <2>3. pstate'[m.stamp] = "ended"
    BY <1>2, <2>1, <2>2
  <2>4. \A i \in 1..k : history'[i].txn # m.stamp
    BY <1>8, <2>1
  <2> QED BY <1>7, <2>1, <2>2, <2>3, <2>4
<1>12. ArchiveInv'
  BY <1>0, <1>2 DEF ArchiveInv, Archived
<1>13. ArchiveStays
  <2>1. ASSUME NEW x \in Nat, Archived(x) PROVE \A i \in 1..x : i \in 1..k
    <3>1. x <= k
      <4>1. CASE x = 0
        BY <1>7, <4>1
      <4>2. CASE \E m \in images : x <= m.at
        BY <1>7, <1>4, <4>2
      <4> QED BY <2>1, <4>1, <4>2 DEF Archived
    <3> QED BY <1>4, <1>7, <3>1
  <2> QED BY <1>2, <1>8, <2>1 DEF ArchiveStays
<1>14. DiskInv' /\ EngineInv'
  BY <1>2, <1>13, StandbyUnmoved
<1> QED BY <1>10, <1>11, <1>12, <1>14 DEF StandbyInv

-----------------------------------------------------------------------------
(* The standby                                                             *)

\* What the standby does leaves the primary's part of the invariant alone.
LEMMA PrimaryUnmoved ==
    ASSUME StandbyInv, UNCHANGED primaryVars
    PROVE  /\ PrimaryInv' /\ ImagesInv' /\ ArchiveInv'
           /\ \A n : Archived(n)' <=> Archived(n)
           /\ \A t, n : Spent(t, n)' <=> Spent(t, n)
<1>1. /\ history' = history /\ pstate' = pstate /\ nextTxn' = nextTxn /\ logFrom' = logFrom
      /\ segments' = segments /\ images' = images /\ End' = End
  BY DEF primaryVars, End
<1>2. \A n : Archived(n)' <=> Archived(n)
  BY <1>1 DEF Archived
<1>3. \A t, n : Spent(t, n)' <=> Spent(t, n)
  BY <1>1 DEF Spent
<1>4. PrimaryInv'
  BY <1>1 DEF StandbyInv, PrimaryInv, Unended
<1>5. ImagesInv'
  BY <1>1 DEF StandbyInv, ImagesInv
<1>6. ArchiveInv'
  BY <1>1 DEF StandbyInv, ArchiveInv, Archived
<1> QED BY <1>2, <1>3, <1>4, <1>5, <1>6

LEMMA SpentFurther ==
    ASSUME NEW t, NEW n \in Nat, NEW k \in Nat, n <= k, Spent(t, n)
    PROVE  Spent(t, k)
<1>1. \A i \in 1..n : i \in 1..k
  OBVIOUS
<1> QED BY <1>1 DEF Spent

\* The highest id that ends at some positions is spent behind the last of them.
LEMMA HighestEndedSpent ==
    ASSUME PrimaryInv, NEW n \in 0..End, NEW at,
           \A i \in at : history[i].kind \in {"commit", "abort"} => i \in 1..n
    PROVE  Spent(HighestEnded(at), n)
<1>1. End \in Nat /\ MaxTxn \in Nat
  BY StandbyAssumption DEF PrimaryInv, End
<1>2. PICK E : E = {0} \cup Ended(at)
  OBVIOUS
<1>3. \A i \in 1..n : history[i] \in Records
  <2>1. \A i \in 1..n : i \in 1..End
    BY <1>1
  <2> QED BY <2>1 DEF PrimaryInv, End
<1>4. \A rec \in Records : rec.txn \in 1..MaxTxn
  BY DEF Records, Txn
<1>5. ASSUME NEW x \in E, x # 0
      PROVE  \E i \in 1..n : IsEnd(history[i]) /\ history[i].txn = x
  BY <1>2, <1>5 DEF Ended, IsEnd
<1>6. E \in SUBSET (0..MaxTxn) /\ E # {}
  <2>1. 0 \in E
    BY <1>2
  <2>2. ASSUME NEW x \in E, x # 0 PROVE x \in 0..MaxTxn
    <3>1. x \in 1..MaxTxn
      BY <1>3, <1>4, <1>5, <2>2
    <3> QED BY <1>1, <3>1
  <2> QED BY <1>1, <2>1, <2>2
<1>7. Highest(E) \in E
  BY <1>1, <1>6, HighestIs
<1>8. HighestEnded(at) = Highest(E)
  BY <1>2 DEF HighestEnded
<1> QED BY <1>5, <1>6, <1>7, <1>8 DEF Spent

LEMMA HigherSpent ==
    ASSUME NEW a, NEW b, NEW n, Spent(a, n), Spent(b, n)
    PROVE  Spent(Highest({a, b}), n)
<1>1. MaxTxn \in Nat /\ {a, b} \in SUBSET (0..MaxTxn) /\ {a, b} # {}
  BY StandbyAssumption DEF Spent
<1>2. Highest({a, b}) \in {a, b}
  BY <1>1, HighestIs
<1> QED BY <1>2

LEMMA SeedStep ==
    ASSUME StandbyInv, Seed
    PROVE  StandbyInv'
<1>1. UNCHANGED <<primaryVars, engineVars, threadVars>> /\ ~up /\ kept' = TRUE
  BY DEF Seed
<1>2. PICK m \in images : /\ image'.at = m.at /\ image'.stamp = m.stamp /\ position' = m.at
  BY DEF Seed
<1>3. /\ PrimaryInv' /\ ImagesInv' /\ ArchiveInv' /\ images' = images /\ history' = history
  BY <1>1, PrimaryUnmoved DEF primaryVars
<1>4. m.at \in Nat /\ m.stamp \in 0..MaxTxn
  <2>1. End \in Nat /\ MaxTxn \in Nat
    BY StandbyAssumption DEF StandbyInv, PrimaryInv, End
  <2> QED BY <2>1 DEF StandbyInv, ImagesInv, Txn
<1>5. m.at <= m.at /\ m.at \in 0..m.at
  BY <1>4
<1>6. DiskInv'
  BY <1>1, <1>2, <1>3, <1>4, <1>5 DEF DiskInv, Archived, Spent
<1>7. EngineInv'
  BY <1>1 DEF StandbyInv, EngineInv, engineVars, threadVars
<1> QED BY <1>3, <1>6, <1>7 DEF StandbyInv

LEMMA OpenStep ==
    ASSUME StandbyInv, Open
    PROVE  StandbyInv'
<1>1. /\ UNCHANGED <<primaryVars, image, position, failed, paused, readers, threadVars>>
      /\ ~up /\ up' = TRUE /\ kept' = TRUE
      /\ lastTxn' = Highest({image.stamp, HighestEnded((image.at + 1)..position)})
  BY DEF Open
<1>2. /\ PrimaryInv /\ ImagesInv /\ DiskInv /\ EngineInv
  BY DEF StandbyInv
<1>3. /\ PrimaryInv' /\ ImagesInv' /\ ArchiveInv'
      /\ \A n : Archived(n)' <=> Archived(n)
      /\ \A t, n : Spent(t, n)' <=> Spent(t, n)
  BY <1>1, PrimaryUnmoved
<1>4. PICK a, n, s : a = image.at /\ n = position /\ s = image.stamp
  OBVIOUS
<1>5. n \in 0..End /\ n \in Nat /\ a \in 0..n /\ a \in Nat /\ a <= n /\ Archived(n) /\ Spent(s, a)
  <2>1. Archived(n) /\ a \in 0..n /\ Spent(s, a)
    BY <1>2, <1>4 DEF DiskInv
  <2>2. n \in Nat
    BY <2>1 DEF Archived
  <2> QED BY <1>2, <2>1, <2>2, ArchivedIs
<1>6. Spent(HighestEnded((a + 1)..n), n)
  <2>1. \A i \in (a + 1)..n : i \in 1..n
    BY <1>5
  <2> QED BY <1>2, <1>5, <2>1, HighestEndedSpent
<1>7. PICK t : t = lastTxn' /\ Spent(t, n)
  BY <1>1, <1>4, <1>5, <1>6, SpentFurther, HigherSpent
<1>8. Spent(lastTxn, position)'
  <2>1. Spent(t, n)' /\ n = position'
    BY <1>1, <1>3, <1>4, <1>7
  <2> QED BY <1>7, <2>1 DEF Spent
<1>9. DiskInv'
  <2>1. Archived(n)' /\ Spent(s, a)'
    BY <1>3, <1>5
  <2>2. position' = n /\ image'.at = a /\ image'.stamp = s
    BY <1>1, <1>4
  <2> QED BY <1>1, <1>5, <2>1, <2>2 DEF DiskInv, Archived, Spent
<1>10. EngineInv'
  BY <1>1, <1>2, <1>8 DEF EngineInv, threadVars
<1> QED BY <1>3, <1>9, <1>10 DEF StandbyInv

LEMMA CloseStep ==
    ASSUME StandbyInv, Close
    PROVE  StandbyInv'
<1>1. /\ UNCHANGED <<primaryVars, kept, image>>
      /\ position' \in position..(IF apply = "replayed" \/ failed THEN segment.to ELSE position)
      /\ up' = FALSE /\ failed' = FALSE /\ paused' = 0 /\ readers' = {}
      /\ apply' = "idle" /\ segment' = NoSegment /\ fold' = "idle"
  BY DEF Close
<1>2. PrimaryInv /\ ImagesInv /\ DiskInv /\ EngineInv
  BY DEF StandbyInv
<1>3. /\ PrimaryInv' /\ ImagesInv' /\ ArchiveInv'
      /\ \A n : Archived(n)' <=> Archived(n)
      /\ \A t, n : Spent(t, n)' <=> Spent(t, n)
  BY <1>1, PrimaryUnmoved
<1>4. PICK n, p, k : /\ n = position /\ p = position'
                     /\ k = (IF apply = "replayed" \/ failed THEN segment.to ELSE position)
  OBVIOUS
<1>5. Archived(n) /\ n \in Nat /\ Archived(k) /\ k \in Nat /\ p \in n..k
  <2>1. Archived(n) /\ Archived(k)
    BY <1>2, <1>4 DEF DiskInv, EngineInv
  <2> QED BY <1>1, <1>4, <2>1 DEF Archived
<1>6. p \in 0..k /\ n <= p
  BY <1>5
<1>7. Archived(p)
  BY <1>2, <1>5, <1>6, ArchivedBelow
<1>8. Archived(position)'
  <2>1. Archived(p)'
    BY <1>3, <1>7
  <2> QED BY <1>4, <2>1 DEF Archived
<1>9. image.at \in 0..p
  BY <1>2, <1>4, <1>5, <1>6 DEF DiskInv
<1>10. Spent(image.stamp, image.at)'
  <2>1. PICK s, a : s = image.stamp /\ a = image.at /\ Spent(s, a)
    BY <1>2 DEF DiskInv
  <2>2. Spent(s, a)'
    BY <1>3, <2>1
  <2> QED BY <1>1, <2>1, <2>2 DEF Spent
<1>11. DiskInv'
  BY <1>1, <1>2, <1>4, <1>8, <1>9, <1>10 DEF DiskInv
<1>12. EngineInv'
  <2>1. (IF apply' = "idle" THEN 0 ELSE 1) = 0 /\ (IF fold' = "idle" THEN 0 ELSE 1) = 0
    BY <1>1
  <2>2. paused' = (IF apply' = "idle" THEN 0 ELSE 1) + (IF fold' = "idle" THEN 0 ELSE 1)
    BY <1>1, <2>1
  <2> QED BY <1>1, <2>2 DEF EngineInv
<1> QED BY <1>3, <1>11, <1>12 DEF StandbyInv

\* A step of a reader or of a thread: the disk stays.
LEMMA DiskUnmoved ==
    ASSUME StandbyInv, UNCHANGED <<primaryVars, diskVars>>
    PROVE  /\ DiskInv'
           /\ segment' = segment => (Archived(segment.to)' <=> Archived(segment.to))
           /\ lastTxn' = lastTxn => (Spent(lastTxn, position)' <=> Spent(lastTxn, position))
<1>1. /\ history' = history /\ images' = images /\ kept' = kept /\ image' = image
      /\ position' = position
  BY DEF primaryVars, diskVars
<1>2. DiskInv'
  BY <1>1 DEF StandbyInv, DiskInv, Archived, Spent
<1>3. segment' = segment => (Archived(segment.to)' <=> Archived(segment.to))
  BY <1>1 DEF Archived
<1>4. lastTxn' = lastTxn => (Spent(lastTxn, position)' <=> Spent(lastTxn, position))
  BY <1>1 DEF Spent
<1> QED BY <1>2, <1>3, <1>4

LEMMA ReaderStep ==
    ASSUME StandbyInv, NEW r \in Reader, ReaderBegin(r) \/ ReaderEnd(r)
    PROVE  StandbyInv'
<1>1. UNCHANGED <<primaryVars, diskVars, up, lastTxn, failed, paused, apply, segment, fold>>
  BY DEF ReaderBegin, ReaderEnd, threadVars
<1>2. /\ PrimaryInv' /\ ImagesInv' /\ ArchiveInv' /\ DiskInv'
      /\ Archived(segment.to)' <=> Archived(segment.to)
      /\ Spent(lastTxn, position)' <=> Spent(lastTxn, position)
      /\ position' = position
  BY <1>1, PrimaryUnmoved, DiskUnmoved DEF diskVars
<1>3. EngineInv
  BY DEF StandbyInv
<1>4. /\ readers' \subseteq Reader
      /\ apply \in {"quiet", "replayed"} => readers' = {}
      /\ ~up => readers' = {}
  <2>1. CASE ReaderEnd(r)
    BY <1>3, <2>1 DEF EngineInv, ReaderEnd
  <2>2. CASE ReaderBegin(r)
    <3>1. apply = "idle"
      <4>1. paused = 0
        BY <2>2 DEF ReaderBegin
      <4> QED BY <1>3, <4>1 DEF EngineInv
    <3> QED BY <1>3, <2>2, <3>1 DEF EngineInv, ReaderBegin
  <2> QED BY <2>1, <2>2
<1>5. EngineInv'
  BY <1>1, <1>2, <1>3, <1>4 DEF EngineInv
<1> QED BY <1>2, <1>5 DEF StandbyInv

LEMMA NoneRunning ==
    ASSUME StandbyInv, Running = 0
    PROVE  readers = {}
<1>1. IsFiniteSet(readers)
  BY StandbyAssumption, FS_Subset DEF StandbyInv, EngineInv
<1> QED BY <1>1, FS_EmptySet DEF Running

LEMMA ApplyReadStep ==
    ASSUME StandbyInv, NEW s \in segments, NEW to \in s.from..s.to, ApplyRead(s, to)
    PROVE  StandbyInv'
<1>1. /\ UNCHANGED <<primaryVars, diskVars, up, lastTxn, failed, readers, fold>>
      /\ up /\ apply = "idle" /\ ~failed /\ to > position
      /\ apply' = "holding" /\ segment' = [from |-> s.from, to |-> to] /\ paused' = paused + 1
  BY DEF ApplyRead
<1>2. /\ PrimaryInv' /\ ImagesInv' /\ ArchiveInv' /\ DiskInv'
      /\ Spent(lastTxn, position)' <=> Spent(lastTxn, position)
      /\ position' = position /\ images' = images
  BY <1>1, PrimaryUnmoved, DiskUnmoved DEF diskVars, primaryVars
<1>3. PrimaryInv /\ ImagesInv /\ EngineInv
  BY DEF StandbyInv
<1>4. s.from \in Nat \ {0} /\ s.to \in Nat /\ Archived(s.to)
  BY DEF StandbyInv, ArchiveInv
<1>5. Archived(to) /\ to \in Nat
  <2>1. to \in 0..s.to
    BY <1>4
  <2> QED BY <1>3, <1>4, <2>1, ArchivedBelow
<1>6. Archived(segment.to)' /\ segment'.to = to
  BY <1>1, <1>2, <1>5 DEF Archived
<1>7. position <= to /\ position \in Nat
  <2>1. position \in Nat
    BY DEF StandbyInv, DiskInv, Archived
  <2> QED BY <1>1, <1>5, <2>1
<1>8. paused' = (IF apply' = "idle" THEN 0 ELSE 1) + (IF fold' = "idle" THEN 0 ELSE 1)
  BY <1>1, <1>3 DEF EngineInv
<1>9. EngineInv'
  BY <1>1, <1>2, <1>3, <1>4, <1>6, <1>7, <1>8 DEF EngineInv
<1> QED BY <1>2, <1>9 DEF StandbyInv

LEMMA ApplyBusyStep ==
    ASSUME StandbyInv, ApplyBusy
    PROVE  StandbyInv'
<1>1. /\ UNCHANGED <<primaryVars, diskVars, up, lastTxn, failed, readers, fold>>
      /\ apply = "holding" /\ apply' = "idle" /\ paused' = paused - 1
  BY DEF ApplyBusy
<1>2. /\ PrimaryInv' /\ ImagesInv' /\ ArchiveInv' /\ DiskInv'
      /\ Spent(lastTxn, position)' <=> Spent(lastTxn, position)
  BY <1>1, PrimaryUnmoved, DiskUnmoved
<1>3. EngineInv
  BY DEF StandbyInv
<1>4. paused' = (IF apply' = "idle" THEN 0 ELSE 1) + (IF fold' = "idle" THEN 0 ELSE 1)
  BY <1>1, <1>3 DEF EngineInv
<1>5. EngineInv'
  BY <1>1, <1>2, <1>3, <1>4 DEF EngineInv
<1> QED BY <1>2, <1>5 DEF StandbyInv

LEMMA ApplyQuietStep ==
    ASSUME StandbyInv, ApplyQuiet \/ ApplyReplay
    PROVE  StandbyInv'
<1>1. /\ UNCHANGED <<primaryVars, diskVars, up, lastTxn, failed, paused, readers, segment, fold>>
      /\ apply # "idle" /\ apply' \in {"quiet", "replayed"}
  BY DEF ApplyQuiet, ApplyReplay, engineVars
<1>2. /\ PrimaryInv' /\ ImagesInv' /\ ArchiveInv' /\ DiskInv'
      /\ Archived(segment.to)' <=> Archived(segment.to)
      /\ Spent(lastTxn, position)' <=> Spent(lastTxn, position)
      /\ position' = position
  BY <1>1, PrimaryUnmoved, DiskUnmoved DEF diskVars
<1>3. EngineInv
  BY DEF StandbyInv
<1>4. readers = {}
  <2>1. CASE ApplyQuiet
    BY <2>1, NoneRunning DEF ApplyQuiet
  <2>2. CASE ApplyReplay
    BY <1>3, <2>2 DEF ApplyReplay, EngineInv
  <2> QED BY <2>1, <2>2
<1>5. paused' = (IF apply' = "idle" THEN 0 ELSE 1) + (IF fold' = "idle" THEN 0 ELSE 1)
  BY <1>1, <1>3 DEF EngineInv
<1>6. EngineInv'
  BY <1>1, <1>2, <1>3, <1>4, <1>5 DEF EngineInv
<1> QED BY <1>2, <1>6 DEF StandbyInv

LEMMA ApplyAppendStep ==
    ASSUME StandbyInv, ApplyAppend
    PROVE  StandbyInv'
<1>1. /\ UNCHANGED <<primaryVars, kept, image, up, failed, readers, fold>>
      /\ apply = "replayed" /\ position' = segment.to
      /\ lastTxn' = Highest({lastTxn, HighestEnded(PositionsPast(segment, position))})
      /\ apply' = "idle" /\ paused' = paused - 1
  BY DEF ApplyAppend
<1>2. /\ PrimaryInv' /\ ImagesInv' /\ ArchiveInv'
      /\ \A n : Archived(n)' <=> Archived(n)
      /\ \A t, n : Spent(t, n)' <=> Spent(t, n)
  BY <1>1, PrimaryUnmoved
<1>3. PrimaryInv /\ ImagesInv /\ DiskInv /\ EngineInv
  BY DEF StandbyInv
<1>4. PICK n, k : n = position /\ k = segment.to
  OBVIOUS
<1>5. /\ Archived(k) /\ k \in Nat /\ k \in 0..End /\ n \in Nat /\ n <= k
      /\ segment.from \in Nat \ {0} /\ up /\ ~failed /\ Spent(lastTxn, n)
  <2>1. Archived(k) /\ segment.from \in Nat \ {0} /\ up /\ ~failed /\ n <= k /\ Spent(lastTxn, n)
    BY <1>1, <1>3, <1>4 DEF EngineInv
  <2>2. n \in Nat
    BY <1>3, <1>4 DEF DiskInv, Archived
  <2>3. k \in 0..End
    BY <1>3, <2>1, ArchivedIs
  <2> QED BY <2>1, <2>2, <2>3 DEF Archived
<1>6. PICK at : at = PositionsPast(segment, position)
  OBVIOUS
<1>7. Spent(HighestEnded(at), k)
  <2>1. \A i \in at : i \in 1..k
    <3>1. at \subseteq segment.from..k
      BY <1>4, <1>6 DEF PositionsPast
    <3> QED BY <1>5, <3>1
  <2> QED BY <1>3, <1>5, <2>1, HighestEndedSpent
<1>8. PICK t : t = lastTxn' /\ Spent(t, k)
  <2>1. Spent(lastTxn, k)
    BY <1>5, SpentFurther
  <2> QED BY <1>1, <1>6, <1>7, <2>1, HigherSpent
<1>9. Spent(lastTxn, position)'
  <2>1. Spent(t, k)' /\ k = position'
    BY <1>1, <1>2, <1>4, <1>8
  <2> QED BY <1>8, <2>1 DEF Spent
<1>10. DiskInv'
  <2>1. PICK s, a : s = image.stamp /\ a = image.at /\ Spent(s, a) /\ a \in 0..n
    BY <1>3, <1>4 DEF DiskInv
  <2>2. Spent(s, a)' /\ Archived(k)' /\ a \in 0..k
    BY <1>2, <1>5, <2>1
  <2>3. position' = k /\ image'.at = a /\ image'.stamp = s /\ kept' \in BOOLEAN
    BY <1>1, <1>3, <1>4, <2>1 DEF DiskInv
  <2> QED BY <2>2, <2>3 DEF DiskInv, Archived, Spent
<1>11. paused' = (IF apply' = "idle" THEN 0 ELSE 1) + (IF fold' = "idle" THEN 0 ELSE 1)
  BY <1>1, <1>3 DEF EngineInv
<1>12. EngineInv'
  BY <1>1, <1>3, <1>5, <1>9, <1>11 DEF EngineInv
<1> QED BY <1>2, <1>10, <1>12 DEF StandbyInv

LEMMA ApplyAppendFailsStep ==
    ASSUME StandbyInv, ApplyAppendFails
    PROVE  StandbyInv'
<1>1. /\ UNCHANGED <<primaryVars, diskVars, up, lastTxn, readers, segment, fold>>
      /\ apply = "replayed" /\ apply' = "idle" /\ failed' = TRUE /\ paused' = paused - 1
  BY DEF ApplyAppendFails
<1>2. /\ PrimaryInv' /\ ImagesInv' /\ ArchiveInv' /\ DiskInv'
      /\ Archived(segment.to)' <=> Archived(segment.to)
      /\ Spent(lastTxn, position)' <=> Spent(lastTxn, position)
  BY <1>1, PrimaryUnmoved, DiskUnmoved
<1>3. EngineInv
  BY DEF StandbyInv
<1>4. paused' = (IF apply' = "idle" THEN 0 ELSE 1) + (IF fold' = "idle" THEN 0 ELSE 1)
  BY <1>1, <1>3 DEF EngineInv
<1>5. EngineInv'
  BY <1>1, <1>2, <1>3, <1>4 DEF EngineInv
<1> QED BY <1>2, <1>5 DEF StandbyInv

LEMMA FoldStep ==
    ASSUME StandbyInv, FoldHold \/ FoldGivesUp
    PROVE  StandbyInv'
<1>1. /\ UNCHANGED <<primaryVars, diskVars, up, lastTxn, failed, readers, apply, segment>>
      /\ \/ up /\ fold = "idle" /\ fold' = "holding" /\ paused' = paused + 1
         \/ fold = "holding" /\ fold' = "idle" /\ paused' = paused - 1
  BY DEF FoldHold, FoldGivesUp
<1>2. /\ PrimaryInv' /\ ImagesInv' /\ ArchiveInv' /\ DiskInv'
      /\ Archived(segment.to)' <=> Archived(segment.to)
      /\ Spent(lastTxn, position)' <=> Spent(lastTxn, position)
      /\ position' = position
  BY <1>1, PrimaryUnmoved, DiskUnmoved DEF diskVars
<1>3. EngineInv
  BY DEF StandbyInv
<1>4. paused' = (IF apply' = "idle" THEN 0 ELSE 1) + (IF fold' = "idle" THEN 0 ELSE 1)
  BY <1>1, <1>3 DEF EngineInv
<1>5. EngineInv'
  BY <1>1, <1>2, <1>3, <1>4 DEF EngineInv
<1> QED BY <1>2, <1>5 DEF StandbyInv

LEMMA FoldWriteStep ==
    ASSUME StandbyInv, FoldWrite
    PROVE  StandbyInv'
<1>1. /\ UNCHANGED <<primaryVars, kept, position, up, lastTxn, failed, readers, apply, segment>>
      /\ fold = "holding" /\ fold' = "idle" /\ paused' = paused - 1
      /\ image'.at = position /\ image'.stamp = lastTxn
  BY DEF FoldWrite, Stamp
<1>2. /\ PrimaryInv' /\ ImagesInv' /\ ArchiveInv'
      /\ images' = images /\ history' = history
  BY <1>1, PrimaryUnmoved DEF primaryVars
<1>3. EngineInv /\ DiskInv
  BY DEF StandbyInv
<1>4. Spent(lastTxn, position) /\ Archived(position) /\ position \in Nat /\ position \in 0..position
  <2>1. Spent(lastTxn, position) /\ Archived(position)
    BY <1>1, <1>3 DEF EngineInv, DiskInv
  <2>2. position \in Nat
    BY <2>1 DEF Archived
  <2> QED BY <2>1, <2>2
<1>5. DiskInv'
  BY <1>1, <1>2, <1>3, <1>4 DEF DiskInv, Archived, Spent
<1>6. paused' = (IF apply' = "idle" THEN 0 ELSE 1) + (IF fold' = "idle" THEN 0 ELSE 1)
  BY <1>1, <1>3 DEF EngineInv
<1>7. /\ Archived(segment.to)' <=> Archived(segment.to)
      /\ Spent(lastTxn, position)' <=> Spent(lastTxn, position)
  BY <1>1, <1>2 DEF Archived, Spent
<1>8. EngineInv'
  BY <1>1, <1>3, <1>6, <1>7 DEF EngineInv
<1> QED BY <1>2, <1>5, <1>8 DEF StandbyInv

-----------------------------------------------------------------------------
(* The theorems                                                            *)

LEMMA StandbyInit == Init => StandbyInv
<1> SUFFICES ASSUME Init PROVE StandbyInv
  OBVIOUS
<1>1. /\ history = <<>> /\ pstate = [t \in Txn |-> "none"] /\ nextTxn = 1
      /\ logFrom = 1 /\ segments = {} /\ images = {}
      /\ image.at = 0 /\ image.stamp = 0 /\ position = 0 /\ kept = FALSE
      /\ up = FALSE /\ lastTxn = 0 /\ failed = FALSE /\ paused = 0 /\ readers = {}
      /\ apply = "idle" /\ fold = "idle"
  BY DEF Init
<1>2. End = 0 /\ MaxTxn \in Nat /\ history \in Seq(Records)
  BY <1>1, StandbyAssumption DEF End
<1>3. PrimaryInv
  BY <1>1, <1>2 DEF PrimaryInv, Unended
<1>4. ImagesInv
  BY <1>1 DEF ImagesInv
<1>5. Archived(0) /\ Spent(0, 0)
  BY <1>2 DEF Archived, Spent
<1>6. ArchiveInv
  BY <1>1, <1>5 DEF ArchiveInv
<1>7. DiskInv
  <2>1. Archived(position) /\ Spent(image.stamp, image.at) /\ image.at \in 0..position
    BY <1>1, <1>5
  <2> QED BY <1>1, <2>1 DEF DiskInv
<1>8. EngineInv
  <2>1. paused = (IF apply = "idle" THEN 0 ELSE 1) + (IF fold = "idle" THEN 0 ELSE 1)
    BY <1>1
  <2> QED BY <1>1, <2>1 DEF EngineInv
<1> QED BY <1>3, <1>4, <1>6, <1>7, <1>8 DEF StandbyInv

LEMMA StandbyStutter ==
    ASSUME StandbyInv, UNCHANGED vars
    PROVE  StandbyInv'
<1>1. UNCHANGED <<primaryVars, diskVars, engineVars, threadVars>>
  BY DEF vars
<1>2. UNCHANGED <<up, lastTxn, failed, paused, readers, apply, segment, fold, position>>
  BY <1>1 DEF engineVars, threadVars, diskVars
<1>3. /\ PrimaryInv' /\ ImagesInv' /\ ArchiveInv' /\ DiskInv'
      /\ Archived(segment.to)' <=> Archived(segment.to)
      /\ Spent(lastTxn, position)' <=> Spent(lastTxn, position)
  BY <1>1, <1>2, PrimaryUnmoved, DiskUnmoved
<1>4. EngineInv'
  BY <1>2, <1>3 DEF StandbyInv, EngineInv
<1> QED BY <1>3, <1>4 DEF StandbyInv

LEMMA StandbyStep ==
    ASSUME StandbyInv, [Next]_vars
    PROVE  StandbyInv'
<1>1. CASE UNCHANGED vars
  BY <1>1, StandbyStutter
<1>2. CASE Primary
  <2>1. ASSUME NEW t \in Txn, Commit(t) \/ Abort(t) PROVE StandbyInv'
    BY <2>1, CommitStep
  <2>2. ASSUME NEW t \in Txn, NEW r \in Row, Write(t, r) PROVE StandbyInv'
    BY <2>2, WriteStep
  <2>3. ASSUME NEW t \in Txn, NEW g \in Gid, PrepareTxn(t, g) PROVE StandbyInv'
    BY <2>3, PrepareStep
  <2> QED BY <1>2, <2>1, <2>2, <2>3, PrimaryCheckpointStep, PrimaryCrashStep DEF Primary
<1>3. CASE Seed \/ Open \/ Close
  BY <1>3, SeedStep, OpenStep, CloseStep
<1>4. CASE \E r \in Reader : ReaderBegin(r) \/ ReaderEnd(r)
  BY <1>4, ReaderStep
<1>5. CASE ReadWhole \/ ReadCut
  <2>1. ASSUME NEW s \in segments, ApplyRead(s, s.to) PROVE StandbyInv'
    <3>1. s.to \in s.from..s.to
      BY DEF StandbyInv, ArchiveInv
    <3> QED BY <2>1, <3>1, ApplyReadStep
  <2>2. ASSUME NEW s \in segments, NEW to \in s.from..s.to, ApplyRead(s, to) PROVE StandbyInv'
    BY <2>2, ApplyReadStep
  <2> QED BY <1>5, <2>1, <2>2 DEF ReadWhole, ReadCut
<1>6. CASE Poll
  BY <1>5, <1>6, ApplyBusyStep, ApplyQuietStep, ApplyAppendStep DEF Poll
<1>7. CASE ApplyAppendFails \/ Fold
  BY <1>7, ApplyAppendFailsStep, FoldStep, FoldWriteStep DEF Fold
<1> QED BY <1>1, <1>2, <1>3, <1>4, <1>5, <1>6, <1>7 DEF Next

\* Through checkpoints and crashes of the primary, seeds, restarts, cut segments and
\* failed appends of the standby: what either machine archived or applied stays in the
\* primary's history, and no id a standby's image or memory carries is handed out again.
THEOREM SpentIdsStaySpent == Spec => []StandbyInv
<1>1. Init => StandbyInv
  BY StandbyInit
<1>2. StandbyInv /\ [Next]_vars => StandbyInv'
  BY StandbyStep
<1> QED BY <1>1, <1>2, PTL DEF Spec

\* Both machines are typed: the pause counts exactly the threads that hold admission,
\* and a standby is never past what the primary archived.
THEOREM StandbyTyped == Spec => []TypeOK
<1>1. StandbyInv => TypeOK
  <2> SUFFICES ASSUME StandbyInv PROVE TypeOK
    OBVIOUS
  <2>1. PrimaryInv /\ ImagesInv /\ ArchiveInv /\ DiskInv /\ EngineInv /\ End \in Nat
    BY DEF StandbyInv, PrimaryInv, End
  <2>2. \A i \in 1..End : history[i].txn \in Txn
    <3>1. \A i \in 1..End : history[i] \in Records
      BY <2>1 DEF PrimaryInv, End
    <3>2. \A rec \in Records : rec.txn \in Txn
      BY DEF Records
    <3> QED BY <3>1, <3>2
  <2>3. logFrom \in 1..(End + 1)
    <3>1. logFrom \in Nat \ {0} /\ logFrom - 1 \in 0..End
      BY <2>1, ArchivedIs DEF ArchiveInv
    <3> QED BY <2>1, <3>1
  <2>4. \A s \in segments : s.from \in 1..s.to /\ s.to <= End
    <3> SUFFICES ASSUME NEW s \in segments PROVE s.from \in 1..s.to /\ s.to <= End
      OBVIOUS
    <3>1. s.from \in Nat \ {0} /\ s.to \in Nat /\ s.from <= s.to /\ Archived(s.to)
      BY <2>1 DEF ArchiveInv
    <3>2. s.to \in 0..End
      BY <2>1, <3>1, ArchivedIs
    <3> QED BY <2>1, <3>1, <3>2
  <2>5. position \in 0..End /\ image.at \in 0..position
    BY <2>1, ArchivedIs DEF DiskInv
  <2>6. position <= Highest({0} \cup {m.at : m \in images})
    <3>1. PICK S : S = {0} \cup {m.at : m \in images}
      OBVIOUS
    <3>2. S \in SUBSET (0..End) /\ S # {}
      BY <2>1, <3>1 DEF ImagesInv
    <3>3. Highest(S) \in Nat /\ \A y \in S : y \in Nat /\ y <= Highest(S)
      <4>1. Highest(S) \in S /\ \A y \in S : y <= Highest(S)
        BY <2>1, <3>2, HighestIs
      <4>2. \A y \in S : y \in Nat
        BY <2>1, <3>2
      <4> QED BY <4>1, <4>2
    <3>4. position \in Nat /\ \E y \in S : position <= y
      <4>1. position \in Nat /\ (position = 0 \/ \E m \in images : position <= m.at)
        BY <2>1 DEF DiskInv, Archived
      <4>2. CASE position = 0
        <5>1. 0 \in S /\ position <= 0
          BY <3>1, <4>2
        <5> QED BY <4>1, <5>1
      <4>3. CASE \E m \in images : position <= m.at
        BY <3>1, <4>1, <4>3
      <4> QED BY <4>1, <4>2, <4>3
    <3>5. position <= Highest(S)
      BY <3>3, <3>4
    <3> QED BY <3>1, <3>5
  <2>7. /\ pstate \in [Txn -> {"none", "running", "prepared", "ended"}]
        /\ nextTxn \in 1..(MaxTxn + 1)
    BY <2>1 DEF PrimaryInv
  <2>8. /\ up \in BOOLEAN /\ kept \in BOOLEAN /\ failed \in BOOLEAN /\ readers \subseteq Reader
        /\ paused = (IF apply = "idle" THEN 0 ELSE 1) + (IF fold = "idle" THEN 0 ELSE 1)
        /\ apply \in {"idle", "holding", "quiet", "replayed"} /\ fold \in {"idle", "holding"}
    BY <2>1 DEF EngineInv, DiskInv
  <2> QED BY <2>2, <2>3, <2>4, <2>5, <2>6, <2>7, <2>8 DEF TypeOK
<1> QED BY <1>1, SpentIdsStaySpent, PTL

\* The id a standby files its image under (checkpoint_quiesced: the last id it applied)
\* is never aborted by a record of the log that follows, so recovery never takes the
\* image for the work of an aborted transaction.
THEOREM ImagesSurviveRecovery == Spec => []StampIsSpent
<1>1. StandbyInv => StampIsSpent
  <2> SUFFICES ASSUME StandbyInv, NEW i \in (image.at + 1)..End, history[i].kind = "abort",
                      history[i].txn = image.stamp
               PROVE  FALSE
    BY DEF StampIsSpent
  <2>1. PICK s, a, e : s = image.stamp /\ a = image.at /\ e = End
    OBVIOUS
  <2>2. a \in Nat /\ e \in Nat /\ Spent(s, a)
    <3>1. a \in 0..position /\ position \in Nat /\ Spent(s, a)
      BY <2>1 DEF StandbyInv, DiskInv, Archived
    <3>2. e \in Nat
      BY <2>1 DEF StandbyInv, PrimaryInv, End
    <3> QED BY <3>1, <3>2
  <2>3. i \in 1..e /\ a < i /\ IsEnd(history[i])
    BY <2>1, <2>2 DEF IsEnd
  <2>4. s # 0
    <3>1. history[i] \in Records
      BY <2>1, <2>3 DEF StandbyInv, PrimaryInv, End
    <3>2. \A rec \in Records : rec.txn \in 1..MaxTxn
      BY DEF Records, Txn
    <3> QED BY <2>1, <3>1, <3>2
  <2>5. CASE \E m \in images : m.stamp = s
    BY <2>1, <2>3, <2>5 DEF StandbyInv, ImagesInv
  <2>6. CASE \E j \in 1..a : IsEnd(history[j]) /\ history[j].txn = s
    <3>1. PICK j \in 1..a : IsEnd(history[j]) /\ history[j].txn = s
      BY <2>6
    <3>2. j \in 1..e /\ j < i
      BY <2>2, <2>3
    <3>3. \A x, y \in 1..e : x < y /\ IsEnd(history[x]) /\ IsEnd(history[y]) =>
                                 history[x].txn # history[y].txn
      BY <2>1 DEF StandbyInv, PrimaryInv
    <3> QED BY <2>1, <2>3, <3>1, <3>2, <3>3
  <2> QED BY <2>2, <2>4, <2>5, <2>6 DEF Spent
<1> QED BY <1>1, SpentIdsStaySpent, PTL

\* Nothing changes under a reader, for any number of readers: the pause that
\* hold_admission_until_quiet counts stands from the moment none is left until the
\* records are applied.
THEOREM ReadersStayUndisturbed == Spec => ReadersUndisturbed
<1>1. StandbyInv /\ [Next]_vars => [readers # {} /\ up' => memory' = memory]_vars
  <2> SUFFICES ASSUME StandbyInv, Next, readers # {}, up'
               PROVE  memory' = memory
    BY DEF vars, engineVars
  <2>1. EngineInv
    BY DEF StandbyInv
  <2>2. CASE Primary
    <3>1. StandbyStays
      BY <2>2 DEF Primary, Commit, Abort, Ends, Write, PrepareTxn, PrimaryCheckpoint, PrimaryCrash
    <3> QED BY <3>1 DEF StandbyStays, engineVars
  <2>3. CASE Seed
    BY <2>3 DEF Seed, engineVars
  <2>4. CASE Open
    BY <2>1, <2>4 DEF Open, EngineInv
  <2>5. CASE Close
    BY <2>5 DEF Close
  <2>6. CASE \E r \in Reader : ReaderBegin(r) \/ ReaderEnd(r)
    BY <2>6 DEF ReaderBegin, ReaderEnd
  <2>7. CASE ReadWhole \/ ReadCut
    BY <2>7 DEF ReadWhole, ReadCut, ApplyRead
  <2>8. CASE ApplyBusy \/ ApplyQuiet \/ ApplyAppend \/ ApplyAppendFails
    BY <2>8 DEF ApplyBusy, ApplyQuiet, ApplyAppend, ApplyAppendFails, engineVars
  <2>9. CASE ApplyReplay
    BY <2>1, <2>9 DEF ApplyReplay, EngineInv
  <2>10. CASE Fold
    BY <2>10 DEF Fold, FoldHold, FoldGivesUp, FoldWrite
  <2> QED BY <2>2, <2>3, <2>4, <2>5, <2>6, <2>7, <2>8, <2>9, <2>10 DEF Next, Poll
<1> QED BY <1>1, SpentIdsStaySpent, PTL DEF Spec, ReadersUndisturbed

-----------------------------------------------------------------------------
(* What a standby shows                                                    *)

\* Among the first n records of h: one of t; one of a kind in K; a write to r.
Logged(h, n, t) == \E i \in 1..n : h[i].txn = t
Has(h, n, t, K) == \E i \in 1..n : h[i].txn = t /\ h[i].kind \in K
Wrote(h, n, t, r) == \E i \in 1..n : h[i].txn = t /\ h[i].kind = "op" /\ h[i].row = r

\* The records that complete a transaction: it has ended, or is prepared.
Closing == {"commit", "abort", "prepare"}
Closed(h, n, t) == Has(h, n, t, Closing)

\* The primary's committed rows and prepared transactions at position n.  A row is
\* what the last transaction to commit among those that wrote it made of it.
Commits(h, n, r) == {c \in 1..n : h[c].kind = "commit" /\ Wrote(h, c, h[c].txn, r)}
RowAt(h, n, r) == IF Commits(h, n, r) = {} THEN NoValue ELSE h[Highest(Commits(h, n, r))].txn
WaitingAt(h, n) == {t \in Txn : Has(h, n, t, {"prepare"}) /\ ~Has(h, n, t, {"commit", "abort"})}
PreparesOf(h, n, t) == {p \in 1..n : h[p].txn = t /\ h[p].kind = "prepare"}
HeldAs(rec) == [gid |-> rec.gid, locks |-> rec.locks, seq |-> 0,
                sets |-> [r \in rec.locks |-> rec.txn]]
HeldAt(h, n) == [t \in WaitingAt(h, n) |-> HeldAs(h[Highest(PreparesOf(h, n, t))])]
Shown(h, n) == [rows |-> [r \in Row |-> RowAt(h, n, r)], prepared |-> HeldAt(h, n)]

\* The records b to q of recs are t's program: a write to every row it locks, and
\* it has written no other; begin and prepare are its only ones.
Program(recs, t, b, q) ==
    /\ b \in 1..Len(recs) /\ q \in 1..Len(recs) /\ b < q
    /\ recs[b].txn = t /\ recs[b].kind = "begin"
    /\ recs[q].txn = t /\ recs[q].kind = "prepare"
    /\ \A r \in recs[q].locks : \E i \in 1..Len(recs) :
          b < i /\ i < q /\ recs[i].txn = t /\ recs[i].kind = "op" /\ recs[i].row = r
    /\ \A i \in 1..Len(recs) : recs[i].txn = t =>
          /\ recs[i].kind = "op" => recs[i].row \in recs[q].locks
          /\ recs[i].kind = "begin" => i = b
          /\ recs[i].kind = "prepare" => i = q

\* A write carries its transaction's value, nothing follows an end, and what is
\* prepared has its program.
Told(h) == \A i \in 1..Len(h) : h[i].kind = "op" => h[i].val = h[i].txn
EndsLast(h) == \A i, j \in 1..Len(h) : i < j /\ IsEnd(h[i]) => h[j].txn # h[i].txn
Programmed(h) ==
    /\ \A q \in 1..Len(h) : h[q].kind = "prepare" => \E b \in 1..Len(h) : Program(h, h[q].txn, b, q)
    /\ \A i \in 1..Len(h) : h[i].kind = "begin" => Has(h, Len(h), h[i].txn, {"prepare"})

\* A row goes to another transaction only when its writer has ended, or never will.
Hands(h, i, j) ==
    /\ i < j /\ h[i].kind = "op" /\ h[j].kind = "op"
    /\ h[i].row = h[j].row /\ h[i].txn # h[j].txn
RowsApart(h) == \A i, j \in 1..Len(h) : Hands(h, i, j) /\ Closed(h, Len(h), h[i].txn) =>
    \E e \in 1..Len(h) : i < e /\ e < j /\ IsEnd(h[e]) /\ h[e].txn = h[i].txn

Regular(h) == h \in Seq(Records) /\ Told(h) /\ EndsLast(h) /\ Programmed(h) /\ RowsApart(h)

\* The primary's transactions and its history.
TableInv ==
    /\ \A i \in 1..End : pstate[history[i].txn] # "none"
    /\ \A i, j \in 1..End : Hands(history, i, j) => pstate[history[i].txn] = "ended"
    /\ \A t \in Txn : /\ pstate[t] = "running" => ~Closed(history, End, t)
                      /\ pstate[t] = "prepared" => Has(history, End, t, {"prepare"})
                      /\ pstate[t] = "ended" /\ Has(history, End, t, {"prepare"}) =>
                            Has(history, End, t, {"commit", "abort"})

\* What was not complete at n never will be: nothing follows, or nothing but an abort.
Left(h, n, t) == Logged(h, n, t) /\ ~Closed(h, n, t)
QuietAt(h, n) == \A t \in Txn : Left(h, n, t) => \A j \in 1..Len(h) : j > n => h[j].txn # t
CleanAt(h, n) == \A t \in Txn : Left(h, n, t) =>
    \A j \in 1..Len(h) : j > n => ~(h[j].txn = t /\ h[j].kind \in {"commit", "prepare"})

\* Nothing was running when an image was archived, and a log begins behind an image.
AtImage(n) == n = 0 \/ \E m \in images : m.at = n
QuietInv ==
    /\ \A m \in images : /\ QuietAt(history, m.at)
                         /\ \A t \in Txn : Left(history, m.at, t) => pstate[t] = "ended"
    /\ AtImage(logFrom - 1)
    /\ \A s \in segments : AtImage(s.from - 1)
    /\ apply # "idle" => AtImage(segment.from - 1) /\ segment.from <= position + 1

\* The position memory is at.
ShownAt == IF apply = "replayed" \/ failed THEN segment.to ELSE position
ShownInv ==
    /\ CleanAt(history, image.at)
    /\ image.rows = Shown(history, image.at).rows
    /\ image.prepared = Shown(history, image.at).prepared
    /\ up => memory = Shown(history, ShownAt)

FollowInv == Regular(history) /\ TableInv /\ QuietInv /\ ShownInv

-----------------------------------------------------------------------------
(* The last of several settings of a row                                   *)

LEMMA LastSetIs ==
    ASSUME NEW es, NEW L \in Nat, Len(es) = L, NEW r, NEW d
    PROVE  \/ /\ \A i \in 1..L : r \notin DOMAIN es[i]
              /\ LastSet(es, r, d) = d
           \/ \E m \in 1..L : /\ r \in DOMAIN es[m] /\ LastSet(es, r, d) = es[m][r]
                              /\ \A i \in 1..L : r \in DOMAIN es[i] => i <= m
<1>1. PICK at : at = {i \in 1..L : r \in DOMAIN es[i]}
  OBVIOUS
<1>2. LastSet(es, r, d) = IF at = {} THEN d ELSE es[Highest(at)][r]
  BY <1>1 DEF LastSet, Highest
<1>3. CASE at = {}
  BY <1>1, <1>2, <1>3
<1>4. CASE at # {}
  <2>1. at \in SUBSET (0..L)
    BY <1>1
  <2>2. PICK m : m = Highest(at) /\ m \in at /\ \A y \in at : y <= m
    BY <1>4, <2>1, HighestIs
  <2>3. m \in 1..L /\ r \in DOMAIN es[m] /\ \A i \in 1..L : r \in DOMAIN es[i] => i <= m
    BY <1>1, <2>2
  <2>4. LastSet(es, r, d) = es[m][r]
    BY <1>2, <1>4, <2>2
  <2> QED BY <2>3, <2>4
<1> QED BY <1>3, <1>4

\* The commits between n and p that concern r.
NewCommits(h, n, p, r) == {c \in Commits(h, p, r) : c > n}

\* The settings of r from place lo on are those of the transactions that commit
\* between n and p, in the order of their commits.
InCommitOrder(es, lo, h, n, p, r) ==
    /\ \A k \in lo..Len(es) : r \in DOMAIN es[k] =>
          \E c \in NewCommits(h, n, p, r) : es[k][r] = h[c].txn
    /\ \A c \in NewCommits(h, n, p, r) : \E k \in lo..Len(es) :
          r \in DOMAIN es[k] /\ es[k][r] = h[c].txn
    /\ \A k, l \in lo..Len(es) : \A c, d \in NewCommits(h, n, p, r) :
          /\ k < l /\ r \in DOMAIN es[k] /\ r \in DOMAIN es[l]
          /\ es[k][r] = h[c].txn /\ es[l][r] = h[d].txn
          => c <= d

LEMMA CommitsSplit ==
    ASSUME NEW h \in Seq(Records), NEW p \in 0..Len(h), NEW n \in 0..p, NEW r
    PROVE  /\ Commits(h, p, r) = Commits(h, n, r) \cup NewCommits(h, n, p, r)
           /\ Commits(h, n, r) \in SUBSET (1..n) /\ Commits(h, p, r) \in SUBSET (1..p)
           /\ NewCommits(h, n, p, r) \in SUBSET ((n + 1)..p)
<1>1. PICK a \in Nat, b \in Nat : a = n /\ b = p /\ a <= b
  OBVIOUS
<1>2. \A c \in 1..b : c \in 1..a \/ c > a
  OBVIOUS
<1>3. \A c \in 1..a : c \in 1..b /\ ~(c > a)
  BY <1>1
<1>4. \A c \in 1..b : c > a => c \in (a + 1)..b
  OBVIOUS
<1> QED BY <1>1, <1>2, <1>3, <1>4 DEF Commits, NewCommits

\* The settings before place lo leave r as it is at n.
StartsAt(es, lo, h, n, r, d) ==
    /\ lo = 1 => d = RowAt(h, n, r)
    /\ lo = 2 => Len(es) >= 1 /\ r \in DOMAIN es[1] /\ es[1][r] = RowAt(h, n, r)

Settles(es, lo, h, n, p, r, d) ==
    /\ Len(es) \in Nat /\ lo \in {1, 2}
    /\ InCommitOrder(es, lo, h, n, p, r) /\ StartsAt(es, lo, h, n, r, d)

LEMMA LastCommit ==
    ASSUME NEW h \in Seq(Records), NEW p \in 0..Len(h), NEW n \in 0..p,
           NEW r, NEW es, NEW lo, NEW d, Settles(es, lo, h, n, p, r, d)
    PROVE  LastSet(es, r, d) = RowAt(h, p, r)
<1>s. PICK L \in Nat : /\ Len(es) = L /\ lo \in {1, 2}
                      /\ InCommitOrder(es, lo, h, n, p, r) /\ StartsAt(es, lo, h, n, r, d)
  BY DEF Settles
<1>0. PICK a \in Nat, b \in Nat : a = n /\ b = p /\ a <= b /\ b <= Len(h)
  OBVIOUS
<1>1. PICK N, K : N = NewCommits(h, n, p, r) /\ K = Commits(h, p, r)
  OBVIOUS
<1>2. /\ K = Commits(h, n, r) \cup N /\ K \in SUBSET (1..b) /\ N \in SUBSET ((a + 1)..b)
      /\ Commits(h, n, r) \in SUBSET (1..a)
  BY <1>0, <1>1, CommitsSplit
<1>3. \/ /\ \A i \in 1..L : r \notin DOMAIN es[i]
         /\ LastSet(es, r, d) = d
      \/ \E m \in 1..L : /\ r \in DOMAIN es[m] /\ LastSet(es, r, d) = es[m][r]
                         /\ \A i \in 1..L : r \in DOMAIN es[i] => i <= m
  BY <1>s, LastSetIs
<1>4. /\ \A k \in lo..L : r \in DOMAIN es[k] => \E c \in N : es[k][r] = h[c].txn
      /\ \A c \in N : \E k \in lo..L : r \in DOMAIN es[k] /\ es[k][r] = h[c].txn
      /\ \A k, l \in lo..L : \A c, c1 \in N :
            /\ k < l /\ r \in DOMAIN es[k] /\ r \in DOMAIN es[l]
            /\ es[k][r] = h[c].txn /\ es[l][r] = h[c1].txn
            => c <= c1
  BY <1>s, <1>1 DEF InCommitOrder
<1>5. CASE N = {}
  <2>1. RowAt(h, p, r) = RowAt(h, n, r)
    BY <1>1, <1>2, <1>5 DEF RowAt
  <2>2. \A k \in lo..L : r \notin DOMAIN es[k]
    BY <1>4, <1>5
  <2>3. CASE lo = 1
    <3>1. \A k \in 1..L : r \notin DOMAIN es[k]
      BY <2>2, <2>3
    <3>2. LastSet(es, r, d) = d
      BY <1>3, <3>1
    <3> QED BY <1>s, <2>1, <2>3, <3>2 DEF StartsAt
  <2>4. CASE lo = 2
    <3>1. \A k \in 2..L : r \notin DOMAIN es[k]
      BY <2>2, <2>4
    <3>2. 1 \in 1..L /\ r \in DOMAIN es[1] /\ es[1][r] = RowAt(h, n, r)
      BY <1>s, <2>4 DEF StartsAt
    <3>3. \A m \in 1..L : m = 1 \/ m \in 2..L
      OBVIOUS
    <3>4. LastSet(es, r, d) = es[1][r]
      BY <1>3, <3>1, <3>2, <3>3
    <3> QED BY <2>1, <3>2, <3>4
  <2> QED BY <1>s, <2>3, <2>4
<1>6. CASE N # {}
  <2>1. K # {} /\ K \in SUBSET (0..b)
    BY <1>2, <1>6
  <2>2. PICK top : top = Highest(K) /\ top \in K /\ \A y \in K : y <= top
    BY <1>0, <2>1, HighestIs
  <2>3. top \in N
    <3>1. PICK c \in N : TRUE
      BY <1>6
    <3>2. c \in K /\ c \in (a + 1)..b /\ c <= top
      BY <1>2, <2>2, <3>1
    <3>3. top \notin 1..a
      BY <1>0, <1>2, <2>2, <3>2
    <3> QED BY <1>2, <2>2, <3>3
  <2>4. RowAt(h, p, r) = h[top].txn
    BY <1>1, <2>1, <2>2 DEF RowAt
  <2>5. PICK k \in lo..L : r \in DOMAIN es[k] /\ es[k][r] = h[top].txn
    BY <1>4, <2>3
  <2>6. k \in 1..L
    <3>1. \A x \in lo..L : x \in 1..L
      BY <1>s
    <3> QED BY <3>1
  <2>7. PICK m \in 1..L : /\ r \in DOMAIN es[m] /\ LastSet(es, r, d) = es[m][r]
                          /\ \A i \in 1..L : r \in DOMAIN es[i] => i <= m
    BY <1>3, <2>5, <2>6
  <2>8. k <= m /\ m \in lo..L
    <3>1. k <= m
      BY <2>5, <2>6, <2>7
    <3> QED BY <1>s, <3>1
  <2>9. es[m][r] = h[top].txn
    <3>1. CASE k = m
      BY <2>5, <3>1
    <3>2. CASE k # m
      <4>1. PICK c \in N : es[m][r] = h[c].txn
        BY <1>4, <2>7, <2>8
      <4>2. k < m
        BY <2>8, <3>2
      <4>3. top <= c
        BY <1>4, <2>3, <2>5, <2>7, <2>8, <4>1, <4>2
      <4>4. c <= top /\ c \in Nat /\ top \in Nat
        <5>1. c \in (a + 1)..b /\ top \in (a + 1)..b /\ c \in K
          BY <1>2, <2>3, <4>1
        <5> QED BY <1>0, <2>2, <5>1
      <4> QED BY <4>1, <4>3, <4>4
    <3> QED BY <3>1, <3>2
  <2> QED BY <2>4, <2>7, <2>9
<1> QED BY <1>5, <1>6

-----------------------------------------------------------------------------
(* What a record does, and what is left waiting                            *)

\* What is shown at a position depends on the records up to it.
LEMMA SamePrefix ==
    ASSUME NEW h, NEW g, NEW n \in Nat, \A i \in 1..n : h[i] = g[i]
    PROVE  /\ Shown(h, n) = Shown(g, n)
           /\ \A t : Left(h, n, t) <=> Left(g, n, t)
<1>1. \A t, K : Has(h, n, t, K) <=> Has(g, n, t, K)
  BY DEF Has
<1>2. \A t : Logged(h, n, t) <=> Logged(g, n, t)
  BY DEF Logged
<1>3. ASSUME NEW r PROVE Commits(h, n, r) = Commits(g, n, r)
  <2>1. ASSUME NEW c \in 1..n PROVE \A t : Wrote(h, c, t, r) <=> Wrote(g, c, t, r)
    <3>1. \A i \in 1..c : i \in 1..n
      OBVIOUS
    <3> QED BY <3>1 DEF Wrote
  <2> QED BY <2>1 DEF Commits
<1>4. ASSUME NEW r PROVE RowAt(h, n, r) = RowAt(g, n, r)
  <2>1. PICK C : C = Commits(h, n, r) /\ C = Commits(g, n, r) /\ C \in SUBSET (1..n)
    BY <1>3 DEF Commits
  <2>2. CASE C = {}
    BY <2>1, <2>2 DEF RowAt
  <2>3. CASE C # {}
    <3>1. Highest(C) \in C
      <4>1. C \in SUBSET (0..n)
        BY <2>1
      <4> QED BY <2>3, <4>1, HighestIs
    <3>2. h[Highest(C)] = g[Highest(C)]
      BY <2>1, <3>1
    <3> QED BY <2>1, <2>3, <3>2 DEF RowAt
  <2> QED BY <2>2, <2>3
<1>5. PICK W : W = WaitingAt(h, n) /\ W = WaitingAt(g, n)
  BY <1>1 DEF WaitingAt
<1>6. ASSUME NEW t \in W
      PROVE  HeldAs(h[Highest(PreparesOf(h, n, t))]) = HeldAs(g[Highest(PreparesOf(g, n, t))])
  <2>1. PICK P : P = PreparesOf(h, n, t) /\ P = PreparesOf(g, n, t) /\ P \in SUBSET (1..n)
    BY DEF PreparesOf
  <2>2. P # {}
    BY <1>5, <2>1 DEF WaitingAt, Has, PreparesOf
  <2>3. Highest(P) \in P
    <3>1. P \in SUBSET (0..n)
      BY <2>1
    <3> QED BY <2>2, <3>1, HighestIs
  <2> QED BY <2>1, <2>3
<1>7. HeldAt(h, n) = HeldAt(g, n)
  BY <1>5, <1>6 DEF HeldAt
<1>8. Shown(h, n) = Shown(g, n)
  BY <1>4, <1>7 DEF Shown
<1> QED BY <1>1, <1>2, <1>8 DEF Left, Closed

LEMMA EffectOn ==
    ASSUME NEW recs, NEW live, NEW i, NEW r, r \in DOMAIN Effect(recs, live, i)
    PROVE  \/ /\ recs[i].kind = "commit" /\ recs[i].txn \in DOMAIN live
              /\ Effect(recs, live, i) = live[recs[i].txn].sets
           \/ recs[i].kind = "image" /\ Effect(recs, live, i) = recs[i].rows
           \/ /\ recs[i].kind = "op" /\ recs[i].txn \notin DOMAIN live
              /\ recs[i].txn \in Committed(recs)
              /\ r = recs[i].row /\ Effect(recs, live, i)[r] = recs[i].val
<1>1. PICK rec : rec = recs[i]
  OBVIOUS
<1>2. CASE rec.kind = "commit" /\ rec.txn \in DOMAIN live /\ rec.txn \notin Aborted(recs)
  BY <1>1, <1>2 DEF Effect
<1>3. CASE rec.kind = "image" /\ rec.txn \in Committed(recs)
  BY <1>1, <1>3 DEF Effect
<1>4. CASE /\ rec.kind = "op" /\ rec.txn \notin DOMAIN live /\ rec.txn \in Committed(recs)
           /\ InProgram(recs, i)
  <2>1. Effect(recs, live, i) = With(<<>>, rec.row, rec.val)
    BY <1>1, <1>4 DEF Effect
  <2>2. With(<<>>, rec.row, rec.val) = [y \in {rec.row} |-> rec.val]
    BY DEF With
  <2> QED BY <1>1, <1>4, <2>1, <2>2
<1>5. CASE /\ ~(rec.kind = "commit" /\ rec.txn \in DOMAIN live /\ rec.txn \notin Aborted(recs))
           /\ ~(rec.kind = "image" /\ rec.txn \in Committed(recs))
           /\ ~(/\ rec.kind = "op" /\ rec.txn \notin DOMAIN live /\ rec.txn \in Committed(recs)
                /\ InProgram(recs, i))
  <2>1. Effect(recs, live, i) = <<>>
    BY <1>1, <1>5 DEF Effect
  <2> QED BY <2>1
<1> QED BY <1>2, <1>3, <1>4, <1>5

LEMMA OpEffect ==
    ASSUME NEW recs, NEW live, NEW i, recs[i].kind = "op", recs[i].txn \notin DOMAIN live,
           recs[i].txn \in Committed(recs), InProgram(recs, i)
    PROVE  /\ recs[i].row \in DOMAIN Effect(recs, live, i)
           /\ Effect(recs, live, i)[recs[i].row] = recs[i].val
<1>1. PICK rec : rec = recs[i]
  OBVIOUS
<1>2. Effect(recs, live, i) = With(<<>>, rec.row, rec.val)
  BY <1>1 DEF Effect
<1>3. With(<<>>, rec.row, rec.val) = [y \in {rec.row} |-> rec.val]
  BY DEF With
<1> QED BY <1>1, <1>2, <1>3

LEMMA CommitEffect ==
    ASSUME NEW recs, NEW live, NEW i, recs[i].kind = "commit", recs[i].txn \in DOMAIN live,
           recs[i].txn \notin Aborted(recs)
    PROVE  Effect(recs, live, i) = live[recs[i].txn].sets
BY DEF Effect

LEMMA ImageEffect ==
    ASSUME NEW recs, NEW live, NEW i, recs[i].kind = "image", recs[i].txn \in Committed(recs)
    PROVE  Effect(recs, live, i) = recs[i].rows
BY DEF Effect

LEMMA InItsProgram ==
    ASSUME NEW recs, Len(recs) \in Nat, NEW t, NEW b, NEW q, Program(recs, t, b, q),
           NEW i \in 1..Len(recs), b < i, i < q, recs[i].txn = t
    PROVE  InProgram(recs, i)
<1>1. PICK L \in Nat : L = Len(recs)
  OBVIOUS
<1>2. /\ b \in 1..L /\ recs[b].txn = t /\ recs[b].kind = "begin" /\ q \in 1..L
      /\ \A k \in 1..L : recs[k].txn = t /\ recs[k].kind = "prepare" => k = q
  BY <1>1 DEF Program
<1>3. ASSUME NEW k \in 1..L, recs[k].txn = t, recs[k].kind = "prepare", b < k, k < i PROVE FALSE
  BY <1>1, <1>2, <1>3
<1> QED BY <1>1, <1>2, <1>3 DEF InProgram

LEMMA WaiterTells ==
    ASSUME NEW recs, Len(recs) \in Nat, NEW t, NEW b, NEW q, Program(recs, t, b, q),
           \A i \in 1..Len(recs) : recs[i].txn = t /\ recs[i].kind = "op" => recs[i].val = t
    PROVE  [Waiter(recs, t) EXCEPT !.seq = 0] = HeldAs(recs[q])
<1>1. PICK L \in Nat : L = Len(recs)
  OBVIOUS
<1>2. /\ b \in 1..L /\ q \in 1..L /\ recs[q].txn = t /\ recs[q].kind = "prepare"
      /\ \A r \in recs[q].locks : \E i \in 1..L :
            b < i /\ i < q /\ recs[i].txn = t /\ recs[i].kind = "op" /\ recs[i].row = r
      /\ \A i \in 1..L : recs[i].txn = t =>
            /\ recs[i].kind = "op" => recs[i].row \in recs[q].locks
            /\ recs[i].kind = "prepare" => i = q
  BY <1>1 DEF Program
<1>3. PICK p : p = CHOOSE i \in 1..L : recs[i].kind = "prepare" /\ recs[i].txn = t
  OBVIOUS
<1>4. p = q
  <2>1. p \in 1..L /\ recs[p].kind = "prepare" /\ recs[p].txn = t
    BY <1>2, <1>3
  <2> QED BY <1>2, <2>1
<1>5. PICK prog : prog = [i \in 1..L |->
                             IF recs[i].kind = "op" /\ recs[i].txn = t /\ InProgram(recs, i)
                             THEN With(<<>>, recs[i].row, recs[i].val) ELSE <<>>]
  OBVIOUS
<1>6. PICK written : written = UNION {DOMAIN prog[i] : i \in 1..L}
  OBVIOUS
<1>7. Waiter(recs, t) = [gid |-> recs[q].gid, locks |-> recs[q].locks, seq |-> q,
                         sets |-> [r \in written |-> LastSet(prog, r, NoValue)]]
  BY <1>1, <1>3, <1>4, <1>5, <1>6 DEF Waiter
<1>8. \A i \in 1..L : \A r \in DOMAIN prog[i] :
         recs[i].kind = "op" /\ recs[i].txn = t /\ recs[i].row = r /\ prog[i][r] = recs[i].val
  <2> SUFFICES ASSUME NEW i \in 1..L, NEW r \in DOMAIN prog[i]
               PROVE  /\ recs[i].kind = "op" /\ recs[i].txn = t /\ recs[i].row = r
                      /\ prog[i][r] = recs[i].val
    OBVIOUS
  <2>1. CASE ~(recs[i].kind = "op" /\ recs[i].txn = t /\ InProgram(recs, i))
    <3>1. prog[i] = <<>>
      BY <1>5, <2>1
    <3> QED BY <3>1
  <2>2. CASE recs[i].kind = "op" /\ recs[i].txn = t /\ InProgram(recs, i)
    <3>1. prog[i] = With(<<>>, recs[i].row, recs[i].val)
      BY <1>5, <2>2
    <3>2. With(<<>>, recs[i].row, recs[i].val) = [y \in {recs[i].row} |-> recs[i].val]
      BY DEF With
    <3> QED BY <2>2, <3>1, <3>2
  <2> QED BY <2>1, <2>2
<1>9. written = recs[q].locks
  <2>1. ASSUME NEW r \in written PROVE r \in recs[q].locks
    <3>1. PICK i \in 1..L : r \in DOMAIN prog[i]
      BY <1>6
    <3> QED BY <1>2, <1>8, <3>1
  <2>2. ASSUME NEW r \in recs[q].locks PROVE r \in written
    <3>1. PICK i \in 1..L : b < i /\ i < q /\ recs[i].txn = t /\ recs[i].kind = "op" /\ recs[i].row = r
      BY <1>2
    <3>2. InProgram(recs, i)
      BY <1>1, <3>1, InItsProgram
    <3>3. prog[i] = With(<<>>, recs[i].row, recs[i].val)
      BY <1>5, <3>1, <3>2
    <3>4. With(<<>>, recs[i].row, recs[i].val) = [y \in {recs[i].row} |-> recs[i].val]
      BY DEF With
    <3>5. r \in DOMAIN prog[i]
      BY <3>1, <3>3, <3>4
    <3> QED BY <1>6, <3>5
  <2> QED BY <2>1, <2>2
<1>10. ASSUME NEW r \in written PROVE LastSet(prog, r, NoValue) = t
  <2>1. Len(prog) = L
    BY <1>5
  <2>2. PICK j \in 1..L : r \in DOMAIN prog[j]
    BY <1>6, <1>10
  <2>3. PICK m \in 1..L : r \in DOMAIN prog[m] /\ LastSet(prog, r, NoValue) = prog[m][r]
    BY <2>1, <2>2, LastSetIs
  <2>4. recs[m].kind = "op" /\ recs[m].txn = t /\ prog[m][r] = recs[m].val
    BY <1>8, <2>3
  <2> QED BY <1>1, <2>3, <2>4
<1>11. [r \in written |-> LastSet(prog, r, NoValue)] = [r \in recs[q].locks |-> recs[q].txn]
  BY <1>2, <1>9, <1>10
<1> QED BY <1>7, <1>11 DEF HeldAs

-----------------------------------------------------------------------------
(* The order of a regular history                                          *)

LEMMA RecordIs ==
    ASSUME NEW h \in Seq(Records), NEW i \in 1..Len(h)
    PROVE  /\ h[i] \in Records /\ h[i].txn \in Txn
           /\ h[i].kind \in {"op", "begin", "prepare", "commit", "abort"}
           /\ h[i].kind = "op" => h[i].row \in Row
           /\ h[i].kind = "prepare" => h[i].locks \subseteq Row
<1>1. h[i] \in Records
  OBVIOUS
<1> QED BY <1>1 DEF Records

\* A transaction ends once, after everything else it logs.
LEMMA EndIsLast ==
    ASSUME NEW h \in Seq(Records), EndsLast(h), NEW c \in 1..Len(h), IsEnd(h[c]),
           NEW i \in 1..Len(h), h[i].txn = h[c].txn
    PROVE  i <= c /\ (i # c => i < c) /\ (IsEnd(h[i]) => i = c)
<1>1. ~(c < i)
  BY DEF EndsLast
<1>2. i < c => ~IsEnd(h[i])
  BY DEF EndsLast
<1> QED BY <1>1, <1>2

\* Of two writers of a row the one that ends has ended before the other writes,
\* or writes after the other.
LEMMA WritersInOrder ==
    ASSUME NEW h, Regular(h), NEW i \in 1..Len(h), NEW j \in 1..Len(h), Hands(h, i, j),
           NEW c \in 1..Len(h), IsEnd(h[c]), h[c].txn = h[i].txn
    PROVE  c < j
<1>1. h \in Seq(Records) /\ EndsLast(h) /\ RowsApart(h)
  BY DEF Regular
<1>2. h[c].kind \in Closing
  BY DEF IsEnd, Closing
<1>3. Closed(h, Len(h), h[i].txn)
  BY <1>2 DEF Closed, Has
<1>4. PICK e \in 1..Len(h) : i < e /\ e < j /\ IsEnd(h[e]) /\ h[e].txn = h[i].txn
  BY <1>1, <1>3 DEF RowsApart
<1>5. e = c
  BY <1>1, <1>4, EndIsLast
<1> QED BY <1>4, <1>5

\* The prepare of a transaction, and what it holds.
LEMMA HeldIs ==
    ASSUME NEW h, Regular(h), NEW n \in 0..Len(h), NEW q \in 1..n, h[q].kind = "prepare",
           h[q].txn \in WaitingAt(h, n)
    PROVE  HeldAt(h, n)[h[q].txn] = HeldAs(h[q])
<1>1. h \in Seq(Records) /\ Programmed(h) /\ n \in Nat /\ n <= Len(h) /\ q \in 1..Len(h)
  BY DEF Regular
<1>2. PICK t : t = h[q].txn
  OBVIOUS
<1>3. \A i \in 1..Len(h) : h[i].txn = t /\ h[i].kind = "prepare" => i = q
  <2>1. PICK b : Program(h, t, b, q)
    BY <1>1, <1>2 DEF Programmed
  <2> QED BY <2>1 DEF Program
<1>4. PICK P : P = PreparesOf(h, n, t)
  OBVIOUS
<1>5. P = {q}
  <2>1. \A i \in 1..n : i \in 1..Len(h)
    BY <1>1
  <2> QED BY <1>2, <1>3, <1>4, <2>1 DEF PreparesOf
<1>6. Highest(P) = q
  <2>1. P \in SUBSET (0..n) /\ P # {}
    BY <1>5
  <2>2. Highest(P) \in P
    BY <1>1, <2>1, HighestIs
  <2> QED BY <1>5, <2>2
<1> QED BY <1>2, <1>4, <1>6 DEF HeldAt

LEMMA WaitingIs ==
    ASSUME NEW h, Regular(h), NEW n \in 0..Len(h), NEW t \in WaitingAt(h, n)
    PROVE  \E q \in 1..n : \E b \in 1..Len(h) :
              /\ h[q].kind = "prepare" /\ h[q].txn = t /\ q \in 1..Len(h)
              /\ Program(h, t, b, q) /\ HeldAt(h, n)[t] = HeldAs(h[q])
<1>1. PICK q \in 1..n : h[q].kind = "prepare" /\ h[q].txn = t
  BY DEF WaitingAt, Has
<1>2. q \in 1..Len(h)
  BY DEF Regular
<1>3. PICK b \in 1..Len(h) : Program(h, t, b, q)
  BY <1>1, <1>2 DEF Regular, Programmed
<1> QED BY <1>1, <1>2, <1>3, HeldIs

LEMMA HeldFields ==
    ASSUME NEW rec
    PROVE  /\ HeldAs(rec).gid = rec.gid /\ HeldAs(rec).locks = rec.locks
           /\ HeldAs(rec).sets = [r \in rec.locks |-> rec.txn]
           /\ [HeldAs(rec) EXCEPT !.seq = 0] = HeldAs(rec)
BY DEF HeldAs

-----------------------------------------------------------------------------
(* Replay                                                                  *)

\* Without the place of the prepares.
Strip(m) == [m EXCEPT !.prepared = [t \in DOMAIN @ |-> [@[t] EXCEPT !.seq = 0]]]

EffectsOf(recs, live) == [i \in 1..Len(recs) |-> Effect(recs, live, i)]
StillLive(recs, live) == DOMAIN live \ Named(recs, {"commit", "abort"})
NowWaiting(recs, live) ==
    Named(recs, {"prepare"}) \ (DOMAIN live \cup Committed(recs) \cup Aborted(recs))

LEMMA ReplayIs ==
    ASSUME NEW recs, NEW mem, NEW h, NEW p,
           \A r \in Row : LastSet(EffectsOf(recs, mem.prepared), r, mem.rows[r]) = RowAt(h, p, r),
           StillLive(recs, mem.prepared) \cup NowWaiting(recs, mem.prepared) = WaitingAt(h, p),
           \A t \in StillLive(recs, mem.prepared) :
              [mem.prepared[t] EXCEPT !.seq = 0] = HeldAt(h, p)[t],
           \A t \in WaitingAt(h, p) \ StillLive(recs, mem.prepared) :
              [Waiter(recs, t) EXCEPT !.seq = 0] = HeldAt(h, p)[t]
    PROVE  Strip(Replay(recs, mem)) = Shown(h, p)
<1>1. PICK live : live = StillLive(recs, mem.prepared)
  OBVIOUS
<1>2. PICK R : R = [r \in Row |-> LastSet(EffectsOf(recs, mem.prepared), r, mem.rows[r])]
  OBVIOUS
<1>3. PICK P : P = [t \in WaitingAt(h, p) |-> IF t \in live THEN mem.prepared[t] ELSE Waiter(recs, t)]
  OBVIOUS
<1>4. Replay(recs, mem) = [rows |-> R, prepared |-> P]
  BY <1>1, <1>2, <1>3 DEF Replay, EffectsOf, StillLive, NowWaiting
<1>5. R = [r \in Row |-> RowAt(h, p, r)]
  BY <1>2
<1>6. Strip([rows |-> R, prepared |-> P]) =
        [rows |-> R, prepared |-> [t \in DOMAIN P |-> [P[t] EXCEPT !.seq = 0]]]
  BY DEF Strip
<1>7. DOMAIN P = WaitingAt(h, p) /\ HeldAt(h, p) = [t \in WaitingAt(h, p) |-> HeldAt(h, p)[t]]
  BY <1>3 DEF HeldAt
<1>8. ASSUME NEW t \in WaitingAt(h, p) PROVE [P[t] EXCEPT !.seq = 0] = HeldAt(h, p)[t]
  <2>1. CASE t \in live
    <3>1. P[t] = mem.prepared[t]
      BY <1>3, <2>1
    <3> QED BY <1>1, <2>1, <3>1
  <2>2. CASE t \notin live
    <3>1. P[t] = Waiter(recs, t)
      BY <1>3, <2>2
    <3> QED BY <1>1, <2>2, <3>1
  <2> QED BY <2>1, <2>2
<1>9. [t \in DOMAIN P |-> [P[t] EXCEPT !.seq = 0]] = HeldAt(h, p)
  BY <1>7, <1>8
<1> QED BY <1>4, <1>5, <1>6, <1>9 DEF Shown

\* The transactions a sequence of records names.
LEMMA NamedIs ==
    ASSUME NEW recs, NEW K, NEW t
    PROVE  t \in Named(recs, K) <=> \E k \in 1..Len(recs) : recs[k].txn = t /\ recs[k].kind \in K
BY DEF Named

-----------------------------------------------------------------------------
(* Replaying some of the records past a position                           *)

\* Record k of recs is record f[k] of h: every end past n, none before, all records
\* of what is completed past n and was not waiting there.
Selects(recs, f, h, n, p) ==
    /\ recs \in Seq(Records)
    /\ \A k \in 1..Len(recs) : f[k] \in 1..p /\ recs[k] = h[f[k]]
    /\ \A k, l \in 1..Len(recs) : k < l => f[k] < f[l]
    /\ \A k \in 1..Len(recs) : IsEnd(recs[k]) => f[k] > n
    /\ \A i \in 1..p : i > n /\ IsEnd(h[i]) => \E k \in 1..Len(recs) : f[k] = i
    /\ \A t \in Txn \ WaitingAt(h, n) :
          (\E j \in 1..p : j > n /\ h[j].txn = t /\ h[j].kind \in Closing) =>
              \A i \in 1..p : h[i].txn = t => \E k \in 1..Len(recs) : f[k] = i
    /\ \A k \in 1..Len(recs) : recs[k].kind = "prepare" /\ f[k] <= n =>
          recs[k].txn \in WaitingAt(h, n)

\* Who ends in it is who ends past n.
LEMMA SelectedEnds ==
    ASSUME NEW h, Regular(h), NEW p \in 0..Len(h), NEW n \in 0..p, NEW recs, NEW f,
           Selects(recs, f, h, n, p), NEW t
    PROVE  /\ t \in Committed(recs) <=>
                 \E c \in 1..p : c > n /\ h[c].kind = "commit" /\ h[c].txn = t
           /\ t \in Aborted(recs) <=>
                 \E c \in 1..p : c > n /\ h[c].kind = "abort" /\ h[c].txn = t
           /\ t \in Named(recs, {"commit", "abort"}) <=>
                 \E c \in 1..p : c > n /\ IsEnd(h[c]) /\ h[c].txn = t
<1>1. /\ h \in Seq(Records) /\ EndsLast(h) /\ recs \in Seq(Records)
      /\ \A i \in 1..p : i \in 1..Len(h)
  BY DEF Regular, Selects
<1>2. PICK L \in Nat : L = Len(recs)
  BY <1>1
<1>3. /\ \A k \in 1..L : f[k] \in 1..p /\ recs[k] = h[f[k]]
      /\ \A k \in 1..L : IsEnd(recs[k]) => f[k] > n
      /\ \A i \in 1..p : i > n /\ IsEnd(h[i]) => \E k \in 1..L : f[k] = i
  BY <1>2 DEF Selects
<1>4. ASSUME NEW K \in SUBSET {"commit", "abort"}
      PROVE  t \in Named(recs, K) <=> \E c \in 1..p : c > n /\ h[c].kind \in K /\ h[c].txn = t
  <2>1. t \in Named(recs, K) <=> \E k \in 1..L : recs[k].txn = t /\ recs[k].kind \in K
    BY <1>2, NamedIs
  <2>2. \A k \in 1..L : recs[k].kind \in K => IsEnd(recs[k])
    BY DEF IsEnd
  <2>3. \A i \in 1..p : h[i].kind \in K => IsEnd(h[i])
    BY DEF IsEnd
  <2>4. ASSUME NEW k \in 1..L, recs[k].txn = t, recs[k].kind \in K
        PROVE  \E c \in 1..p : c > n /\ h[c].kind \in K /\ h[c].txn = t
    BY <1>3, <2>2, <2>4
  <2>5. ASSUME NEW c \in 1..p, c > n, h[c].kind \in K, h[c].txn = t
        PROVE  \E k \in 1..L : recs[k].txn = t /\ recs[k].kind \in K
    <3>1. PICK k \in 1..L : f[k] = c
      BY <1>3, <2>3, <2>5
    <3>2. recs[k] = h[c]
      BY <1>3, <3>1
    <3> QED BY <2>5, <3>2
  <2> QED BY <2>1, <2>4, <2>5
<1>5. t \in Named(recs, {"commit", "image"}) <=> t \in Named(recs, {"commit"})
  <2>1. \A k \in 1..L : recs[k].kind # "image"
    BY <1>1, <1>2, RecordIs
  <2> QED BY <1>2, <2>1, NamedIs
<1>6. t \in Aborted(recs) <=> \E c \in 1..p : c > n /\ h[c].kind = "abort" /\ h[c].txn = t
  BY <1>4 DEF Aborted
<1>7. t \in Named(recs, {"commit"}) <=> \E c \in 1..p : c > n /\ h[c].kind = "commit" /\ h[c].txn = t
  BY <1>4
<1>8. ASSUME NEW c \in 1..p, h[c].kind = "commit", h[c].txn = t,
             NEW d \in 1..p, h[d].kind = "abort", h[d].txn = t
      PROVE  FALSE
  <2>1. IsEnd(h[c]) /\ IsEnd(h[d]) /\ c \in 1..Len(h) /\ d \in 1..Len(h)
    BY <1>1, <1>8 DEF IsEnd
  <2>2. c = d
    BY <1>1, <1>8, <2>1, EndIsLast
  <2> QED BY <1>8, <2>2
<1>9. t \in Committed(recs) <=> \E c \in 1..p : c > n /\ h[c].kind = "commit" /\ h[c].txn = t
  BY <1>5, <1>6, <1>7, <1>8 DEF Committed
<1>10. t \in Named(recs, {"commit", "abort"}) <=> \E c \in 1..p : c > n /\ IsEnd(h[c]) /\ h[c].txn = t
  BY <1>4 DEF IsEnd
<1> QED BY <1>6, <1>9, <1>10

\* A program that is there is there as a program.
\* All of t's records are selected; its program is there, up to rec.
AllOf(recs, f, h, p, t) == \A i \in 1..p : h[i].txn = t => \E k \in 1..Len(recs) : f[k] = i
ProgramTo(recs, t, rec) == \E a, z : Program(recs, t, a, z) /\ recs[z] = rec

LEMMA SelectedProgram ==
    ASSUME NEW h, Regular(h), NEW p \in 0..Len(h), NEW n \in 0..p, NEW recs, NEW f,
           Selects(recs, f, h, n, p), NEW t, NEW q \in 1..p, h[q].kind = "prepare", h[q].txn = t,
           AllOf(recs, f, h, p, t)
    PROVE  ProgramTo(recs, t, h[q])
<1>1. /\ h \in Seq(Records) /\ Programmed(h) /\ recs \in Seq(Records)
      /\ \A i \in 1..p : i \in 1..Len(h)
  BY DEF Regular, Selects
<1>2. PICK L \in Nat, H \in Nat : L = Len(recs) /\ H = Len(h)
  BY <1>1
<1>3. /\ \A k \in 1..L : f[k] \in 1..p /\ recs[k] = h[f[k]]
      /\ \A k, l \in 1..L : k < l => f[k] < f[l]
  BY <1>2 DEF Selects
<1>4. \A k, l \in 1..L : f[k] < f[l] => k < l
  <2> SUFFICES ASSUME NEW k \in 1..L, NEW l \in 1..L, f[k] < f[l], ~(k < l) PROVE FALSE
    OBVIOUS
  <2>1. f[k] \in Int /\ f[l] \in Int
    BY <1>3
  <2>2. CASE k = l
    BY <2>1, <2>2
  <2>3. CASE l < k
    <3>1. f[l] < f[k]
      BY <1>3, <2>3
    <3> QED BY <2>1, <3>1
  <2> QED BY <2>2, <2>3
<1>5. PICK b \in 1..H : Program(h, t, b, q)
  BY <1>1, <1>2 DEF Programmed
<1>6. /\ b \in 1..H /\ b < q /\ h[b].txn = t /\ h[b].kind = "begin"
      /\ \A r \in h[q].locks : \E i \in 1..H :
            b < i /\ i < q /\ h[i].txn = t /\ h[i].kind = "op" /\ h[i].row = r
      /\ \A i \in 1..H : h[i].txn = t => /\ h[i].kind = "op" => h[i].row \in h[q].locks
                                         /\ h[i].kind = "begin" => i = b
                                         /\ h[i].kind = "prepare" => i = q
  BY <1>2, <1>5 DEF Program
<1>7. \A i \in 1..H : i <= q => i \in 1..p
  BY <1>2
<1>8. \A i \in 1..H : i <= q /\ h[i].txn = t => \E k \in 1..L : f[k] = i
  BY <1>2, <1>7 DEF AllOf
<1>9. PICK a \in 1..L, z \in 1..L : f[a] = b /\ f[z] = q
  <2>1. b <= q /\ q <= q /\ q \in 1..H
    BY <1>1, <1>2, <1>6
  <2> QED BY <1>6, <1>8, <2>1
<1>10. recs[a] = h[b] /\ recs[z] = h[q] /\ a < z
  BY <1>3, <1>4, <1>6, <1>9
<1>11. ASSUME NEW r \in recs[z].locks
       PROVE  \E k \in 1..L : a < k /\ k < z /\ recs[k].txn = t /\ recs[k].kind = "op" /\ recs[k].row = r
  <2>1. PICK i \in 1..H : b < i /\ i < q /\ h[i].txn = t /\ h[i].kind = "op" /\ h[i].row = r
    BY <1>6, <1>10
  <2>2. i <= q
    BY <2>1
  <2>3. PICK k \in 1..L : f[k] = i
    BY <1>8, <2>1, <2>2
  <2>4. a < k /\ k < z
    BY <1>4, <1>9, <2>1, <2>3
  <2> QED BY <1>3, <2>1, <2>3, <2>4
<1>12. ASSUME NEW k \in 1..L, recs[k].txn = t
       PROVE  /\ recs[k].kind = "op" => recs[k].row \in recs[z].locks
              /\ recs[k].kind = "begin" => k = a
              /\ recs[k].kind = "prepare" => k = z
  <2>1. f[k] \in 1..H /\ recs[k] = h[f[k]]
    BY <1>1, <1>2, <1>3
  <2>2. \A l \in 1..L : f[k] = f[l] => k = l
    <3> SUFFICES ASSUME NEW l \in 1..L, f[k] = f[l], k # l PROVE FALSE
      OBVIOUS
    <3>1. f[k] \in Int /\ (k < l \/ l < k)
      BY <2>1
    <3> QED BY <1>3, <3>1
  <2>3. PICK i \in 1..H : i = f[k] /\ recs[k] = h[i] /\ h[i].txn = t
    BY <1>12, <2>1
  <2>4. /\ h[i].kind = "op" => h[i].row \in h[q].locks
        /\ h[i].kind = "begin" => i = b
        /\ h[i].kind = "prepare" => i = q
    BY <1>6, <2>3
  <2>5. (i = b => k = a) /\ (i = q => k = z)
    BY <1>9, <2>2, <2>3
  <2> QED BY <1>10, <2>3, <2>4, <2>5
<1>13. Program(recs, t, a, z)
  BY <1>2, <1>6, <1>9, <1>10, <1>11, <1>12 DEF Program
<1> QED BY <1>10, <1>13 DEF ProgramTo

\* Its effects on a row are in the order of the commits past n.
LEMMA SelectedOrder ==
    ASSUME NEW h, Regular(h), NEW p \in 0..Len(h), NEW n \in 0..p, NEW recs, NEW f,
           Selects(recs, f, h, n, p), NEW r \in Row
    PROVE  InCommitOrder(EffectsOf(recs, HeldAt(h, n)), 1, h, n, p, r)
<1>1. /\ h \in Seq(Records) /\ EndsLast(h) /\ Told(h) /\ recs \in Seq(Records)
      /\ \A i \in 1..p : i \in 1..Len(h)
      /\ \A i \in 1..n : i \in 1..Len(h) /\ i \in 1..p
  BY DEF Regular, Selects
<1>2. PICK L \in Nat, H \in Nat : L = Len(recs) /\ H = Len(h)
  BY <1>1
<1>3. /\ \A k \in 1..L : f[k] \in 1..p /\ f[k] \in 1..H /\ f[k] \in Nat /\ recs[k] = h[f[k]]
      /\ \A k, l \in 1..L : k < l => f[k] < f[l]
      /\ \A k \in 1..L : IsEnd(recs[k]) => f[k] > n
      /\ \A i \in 1..p : i > n /\ IsEnd(h[i]) => \E k \in 1..L : f[k] = i
  BY <1>1, <1>2 DEF Selects
<1>4. PICK live, es, N : /\ live = HeldAt(h, n) /\ es = EffectsOf(recs, live)
                         /\ N = NewCommits(h, n, p, r)
  OBVIOUS
<1>5. /\ DOMAIN live = WaitingAt(h, n) /\ Len(es) = L /\ DOMAIN es = 1..L
      /\ \A k \in 1..L : es[k] = Effect(recs, live, k)
  BY <1>2, <1>4 DEF HeldAt, EffectsOf
<1>6. \A c : c \in N <=> /\ c \in 1..p /\ c > n /\ h[c].kind = "commit"
                         /\ Wrote(h, c, h[c].txn, r)
  BY <1>4 DEF NewCommits, Commits
<1>7. \A c \in 1..H : h[c].kind = "commit" => IsEnd(h[c])
  BY DEF IsEnd
\* What waits at n writes r if r is locked, before n.
<1>8. ASSUME NEW u \in WaitingAt(h, n)
      PROVE  /\ r \in DOMAIN live[u].sets => /\ live[u].sets[r] = u
                                             /\ \E j \in 1..n : /\ h[j].txn = u /\ h[j].row = r
                                                                /\ h[j].kind = "op"
             /\ \A c \in 1..H : Wrote(h, c, u, r) => r \in DOMAIN live[u].sets
  <2>1. PICK q \in 1..n, b \in 1..H : /\ h[q].kind = "prepare" /\ h[q].txn = u /\ q \in 1..H
                                      /\ Program(h, u, b, q) /\ live[u] = HeldAs(h[q])
    BY <1>1, <1>2, <1>4, WaitingIs
  <2>2. live[u].sets = [s \in h[q].locks |-> u]
    BY <2>1, HeldFields
  <2>3. ASSUME r \in h[q].locks
        PROVE \E j \in 1..n : h[j].txn = u /\ h[j].row = r /\ h[j].kind = "op"
    <3>1. PICK j \in 1..H : b < j /\ j < q /\ h[j].txn = u /\ h[j].kind = "op" /\ h[j].row = r
      BY <1>2, <2>1, <2>3 DEF Program
    <3>2. j \in 1..n
      BY <3>1
    <3> QED BY <3>1, <3>2
  <2>4. ASSUME NEW c \in 1..H, Wrote(h, c, u, r) PROVE r \in h[q].locks
    <3>1. PICK j \in 1..c : h[j].txn = u /\ h[j].kind = "op" /\ h[j].row = r
      BY <2>4 DEF Wrote
    <3>2. j \in 1..H
      BY <3>1
    <3> QED BY <1>2, <2>1, <3>1, <3>2 DEF Program
  <2> QED BY <2>2, <2>3, <2>4
\* Whose an effect on r is: a write of its own, or its commit.
<1> DEFINE ByOp(k, c) == /\ recs[k].kind = "op" /\ recs[k].txn = h[c].txn /\ recs[k].row = r
                         /\ h[c].txn \notin WaitingAt(h, n)
           ByCommit(k, c) == f[k] = c /\ h[c].txn \in WaitingAt(h, n) /\ r \in DOMAIN live[h[c].txn].sets
<1>9. ASSUME NEW k \in 1..L, r \in DOMAIN es[k]
      PROVE  \E c \in N : es[k][r] = h[c].txn /\ (ByOp(k, c) \/ ByCommit(k, c))
  <2>1. recs[k] = h[f[k]] /\ f[k] \in 1..p /\ f[k] \in 1..H /\ recs[k].kind # "image"
    BY <1>1, <1>2, <1>3, RecordIs
  <2>2. CASE /\ recs[k].kind = "commit" /\ recs[k].txn \in DOMAIN live
             /\ es[k] = live[recs[k].txn].sets
    <3>0. PICK u : u = recs[k].txn
      OBVIOUS
    <3>1. PICK c \in 1..p : /\ c = f[k] /\ h[c].kind = "commit" /\ h[c].txn = u /\ c > n
                           /\ u \in WaitingAt(h, n) /\ es[k] = live[u].sets
      BY <1>3, <1>5, <2>1, <2>2, <3>0 DEF IsEnd
    <3>2. es[k][r] = u /\ \E j \in 1..n : h[j].txn = u /\ h[j].row = r /\ h[j].kind = "op"
      BY <1>8, <1>9, <3>1
    <3>3. Wrote(h, c, u, r)
      <4>1. \A j \in 1..n : j \in 1..c
        BY <3>1
      <4> QED BY <3>2, <4>1 DEF Wrote
    <3>4. c \in N
      BY <1>6, <3>1, <3>3
    <3> QED BY <1>9, <3>1, <3>2, <3>4
  <2>3. CASE /\ recs[k].kind = "op" /\ recs[k].txn \notin DOMAIN live
             /\ recs[k].txn \in Committed(recs)
             /\ r = recs[k].row /\ es[k][r] = recs[k].val
    <3>0. PICK u : u = recs[k].txn
      OBVIOUS
    <3>1. PICK i \in 1..H : /\ u = recs[k].txn /\ i = f[k] /\ h[i].kind = "op" /\ h[i].txn = u
                           /\ h[i].row = r /\ es[k][r] = h[i].val
      BY <2>1, <2>3, <3>0
    <3>2. PICK c \in 1..p : c > n /\ h[c].kind = "commit" /\ h[c].txn = u
      BY <2>3, <3>1, SelectedEnds
    <3>3. es[k][r] = u
      BY <1>1, <1>2, <3>1 DEF Told
    <3>4. i < c
      <4>1. c \in 1..H /\ IsEnd(h[c]) /\ i # c
        BY <1>1, <1>2, <1>7, <3>1, <3>2
      <4> QED BY <1>1, <1>2, <3>1, <3>2, <4>1, EndIsLast
    <3>5. Wrote(h, c, u, r)
      <4>1. i \in 1..c
        BY <3>4
      <4> QED BY <3>1, <4>1 DEF Wrote
    <3>6. c \in N
      BY <1>6, <3>2, <3>5
    <3> QED BY <1>5, <2>3, <3>1, <3>2, <3>3, <3>6
  <2>4. \/ /\ recs[k].kind = "commit" /\ recs[k].txn \in DOMAIN live
           /\ es[k] = live[recs[k].txn].sets
        \/ /\ recs[k].kind = "op" /\ recs[k].txn \notin DOMAIN live
           /\ recs[k].txn \in Committed(recs)
           /\ r = recs[k].row /\ es[k][r] = recs[k].val
    BY <1>5, <1>9, <2>1, EffectOn
  <2> QED BY <2>2, <2>3, <2>4
\* Every commit has one.
<1>10. ASSUME NEW c \in N PROVE \E k \in 1..L : r \in DOMAIN es[k] /\ es[k][r] = h[c].txn
  <2>1. PICK u : /\ u = h[c].txn /\ c \in 1..p /\ c \in 1..H /\ c > n /\ h[c].kind = "commit"
                 /\ IsEnd(h[c]) /\ Wrote(h, c, u, r) /\ u \in Txn
    BY <1>1, <1>2, <1>6, <1>7, RecordIs
  <2>2. u \in Committed(recs) /\ u \notin Aborted(recs)
    <3>1. u \in Committed(recs)
      BY <2>1, SelectedEnds
    <3> QED BY <3>1 DEF Committed
  <2>3. CASE u \in WaitingAt(h, n)
    <3>1. PICK k \in 1..L : f[k] = c
      BY <1>3, <2>1
    <3>2. recs[k].kind = "commit" /\ recs[k].txn = u
      BY <1>3, <2>1, <3>1
    <3>3. es[k] = live[u].sets
      BY <1>5, <2>2, <2>3, <3>2, CommitEffect
    <3>4. r \in DOMAIN live[u].sets /\ live[u].sets[r] = u
      BY <1>8, <2>1, <2>3
    <3> QED BY <2>1, <3>3, <3>4
  <2>4. CASE u \notin WaitingAt(h, n)
    <3>1. \A i \in 1..p : h[i].txn = u => \E k \in 1..L : f[k] = i
      <4>1. h[c].kind \in Closing
        BY <2>1 DEF Closing
      <4> QED BY <1>2, <2>1, <2>4, <4>1 DEF Selects
    <3>2. PICK k \in 1..L : recs[k].kind = "op" /\ recs[k].txn = u /\ recs[k].row = r /\ InProgram(recs, k)
      <4>1. PICK i \in 1..c : h[i].txn = u /\ h[i].kind = "op" /\ h[i].row = r
        BY <2>1 DEF Wrote
      <4>2. i \in 1..p /\ i \in 1..H
        BY <2>1, <4>1
      <4>3. PICK k \in 1..L : f[k] = i /\ recs[k] = h[i]
        BY <1>3, <3>1, <4>1, <4>2
      <4>4. CASE u \notin Named(recs, {"prepare"})
        <5>1. InProgram(recs, k)
          BY <4>1, <4>3, <4>4 DEF InProgram
        <5> QED BY <4>1, <4>3, <5>1
      <4>5. CASE u \in Named(recs, {"prepare"})
        <5>1. PICK l \in 1..L : recs[l].txn = u /\ recs[l].kind = "prepare"
          BY <1>2, <4>5, NamedIs
        <5>2. f[l] \in 1..p /\ recs[l] = h[f[l]]
          BY <1>3
        <5>3. PICK q \in 1..p : h[q].kind = "prepare" /\ h[q].txn = u /\ q = f[l]
          BY <5>1, <5>2
        <5>4. PICK a, z : Program(recs, u, a, z) /\ recs[z] = h[q]
          <6>1. AllOf(recs, f, h, p, u)
            BY <1>2, <3>1 DEF AllOf
          <6>2. ProgramTo(recs, u, h[q])
            BY <5>3, <6>1, SelectedProgram
          <6> QED BY <6>2 DEF ProgramTo
        <5>5. r \in recs[z].locks
          BY <1>2, <4>1, <4>3, <5>4 DEF Program
        <5>6. PICK m \in 1..L : a < m /\ m < z /\ recs[m].txn = u /\ recs[m].kind = "op" /\ recs[m].row = r
          BY <1>2, <5>4, <5>5 DEF Program
        <5>7. InProgram(recs, m)
          BY <1>2, <5>4, <5>6, InItsProgram
        <5> QED BY <5>6, <5>7
      <4> QED BY <4>4, <4>5
    <3>3. r \in DOMAIN es[k] /\ es[k][r] = recs[k].val
      BY <1>5, <2>2, <2>4, <3>2, OpEffect
    <3>4. recs[k].val = u
      BY <1>1, <1>2, <1>3, <3>2 DEF Told
    <3> QED BY <2>1, <3>3, <3>4
  <2> QED BY <2>3, <2>4
\* And they are in the order of the commits.
<1>11. ASSUME NEW k \in 1..L, NEW l \in 1..L, NEW c \in N, NEW d \in N, k < l,
              r \in DOMAIN es[k], r \in DOMAIN es[l], es[k][r] = h[c].txn, es[l][r] = h[d].txn
       PROVE  c <= d
  <2>1. /\ c \in 1..H /\ d \in 1..H /\ c \in Nat /\ d \in Nat /\ IsEnd(h[c]) /\ IsEnd(h[d])
        /\ c > n /\ d > n /\ n \in Nat
    BY <1>1, <1>2, <1>6, <1>7
  <2>2. \A x \in N : h[x].txn = h[c].txn => x = c
    <3> SUFFICES ASSUME NEW x \in N, h[x].txn = h[c].txn PROVE x = c
      OBVIOUS
    <3>1. x \in 1..H /\ IsEnd(h[x])
      BY <1>1, <1>2, <1>6, <1>7
    <3> QED BY <1>1, <1>2, <2>1, <3>1, EndIsLast
  <2>3. \A x \in N : h[x].txn = h[d].txn => x = d
    <3> SUFFICES ASSUME NEW x \in N, h[x].txn = h[d].txn PROVE x = d
      OBVIOUS
    <3>1. x \in 1..H /\ IsEnd(h[x])
      BY <1>1, <1>2, <1>6, <1>7
    <3> QED BY <1>1, <1>2, <2>1, <3>1, EndIsLast
  <2>4. ByOp(k, c) \/ ByCommit(k, c)
    <3>1. PICK x \in N : es[k][r] = h[x].txn /\ (ByOp(k, x) \/ ByCommit(k, x))
      BY <1>9, <1>11
    <3>2. x = c
      BY <1>11, <2>2, <3>1
    <3> QED BY <3>1, <3>2
  <2>5. ByOp(l, d) \/ ByCommit(l, d)
    <3>1. PICK x \in N : es[l][r] = h[x].txn /\ (ByOp(l, x) \/ ByCommit(l, x))
      BY <1>9, <1>11
    <3>2. x = d
      BY <1>11, <2>3, <3>1
    <3> QED BY <3>1, <3>2
  <2>6. PICK i \in 1..H, j \in 1..H : i = f[k] /\ j = f[l] /\ recs[k] = h[i] /\ recs[l] = h[j] /\ i < j
    BY <1>3, <1>11
  <2>7. CASE h[c].txn = h[d].txn
    BY <2>1, <2>3, <2>7
  <2>8. CASE h[c].txn # h[d].txn /\ ByOp(k, c) /\ ByOp(l, d)
    <3>1. Hands(h, i, j) /\ h[c].txn = h[i].txn /\ h[j].txn = h[d].txn /\ h[j].kind = "op"
      BY <2>6, <2>8 DEF Hands
    <3>2. c < j
      BY <1>2, <2>1, <3>1, WritersInOrder
    <3>3. j <= d
      BY <1>1, <1>2, <2>1, <3>1, EndIsLast
    <3> QED BY <2>1, <3>2, <3>3
  <2>9. CASE h[c].txn # h[d].txn /\ ByOp(k, c) /\ ByCommit(l, d)
    <3>1. PICK x \in 1..n : h[x].txn = h[d].txn /\ h[x].row = r /\ h[x].kind = "op"
      BY <1>8, <2>9
    <3>2. x \in 1..H /\ x \in Nat /\ x <= n
      BY <1>1, <1>2
    <3>3. h[i].kind = "op" /\ h[i].txn = h[c].txn /\ h[i].row = r /\ j = d
      BY <2>6, <2>9
    <3>4. x # i
      BY <2>9, <3>1, <3>3
    <3>5. CASE i < x
      <4>1. Hands(h, i, x)
        BY <2>9, <3>1, <3>3, <3>5 DEF Hands
      <4>2. c < x
        BY <1>2, <2>1, <3>2, <3>3, <4>1, WritersInOrder
      <4> QED BY <2>1, <3>2, <4>2
    <3>6. CASE x < i
      <4>1. Hands(h, x, i)
        BY <2>9, <3>1, <3>3, <3>6 DEF Hands
      <4>2. d < i
        BY <1>2, <2>1, <3>1, <3>2, <4>1, WritersInOrder
      <4> QED BY <2>1, <2>6, <3>3, <4>2
    <3> QED BY <3>2, <3>4, <3>5, <3>6
  <2>10. CASE h[c].txn # h[d].txn /\ ByCommit(k, c) /\ ByOp(l, d)
    <3>1. i = c /\ h[j].kind = "op" /\ h[j].txn = h[d].txn
      BY <2>6, <2>10
    <3>2. j <= d
      BY <1>1, <1>2, <2>1, <3>1, EndIsLast
    <3> QED BY <2>1, <2>6, <3>1, <3>2
  <2>11. CASE ByCommit(k, c) /\ ByCommit(l, d)
    BY <2>1, <2>6, <2>11
  <2> QED BY <2>4, <2>5, <2>7, <2>8, <2>9, <2>10, <2>11
<1>12. InCommitOrder(es, 1, h, n, p, r)
  <2>1. \A k \in 1..L : r \in DOMAIN es[k] => \E c \in N : es[k][r] = h[c].txn
    BY <1>9
  <2> HIDE DEF ByOp, ByCommit
  <2> QED BY <1>4, <1>5, <1>10, <1>11, <2>1 DEF InCommitOrder
<1> QED BY <1>4, <1>12

\* Applied to what is shown at n, it gives what is shown at p.
LEMMA SelectedReplay ==
    ASSUME NEW h, Regular(h), NEW p \in 0..Len(h), NEW n \in 0..p, NEW recs, NEW f,
           Selects(recs, f, h, n, p)
    PROVE  Strip(Replay(recs, Shown(h, n))) = Shown(h, p)
<1>1. /\ h \in Seq(Records) /\ EndsLast(h) /\ Told(h) /\ recs \in Seq(Records)
      /\ \A i \in 1..p : i \in 1..Len(h)
      /\ \A i \in 1..n : i \in 1..Len(h) /\ i \in 1..p
  BY DEF Regular, Selects
<1>2. PICK L \in Nat, H \in Nat : L = Len(recs) /\ H = Len(h)
  BY <1>1
<1>3. /\ \A k \in 1..L : f[k] \in 1..p /\ f[k] \in 1..H /\ f[k] \in Nat /\ recs[k] = h[f[k]]
      /\ \A t \in Txn \ WaitingAt(h, n) :
            (\E j \in 1..p : j > n /\ h[j].txn = t /\ h[j].kind \in Closing) =>
                \A i \in 1..p : h[i].txn = t => \E k \in 1..L : f[k] = i
      /\ \A k \in 1..L : recs[k].kind = "prepare" /\ f[k] <= n =>
            recs[k].txn \in WaitingAt(h, n)
  BY <1>1, <1>2 DEF Selects
<1>4. PICK live, mem : live = HeldAt(h, n) /\ mem = Shown(h, n)
  OBVIOUS
<1>5. /\ DOMAIN live = WaitingAt(h, n) /\ mem.prepared = live
      /\ \A r \in Row : mem.rows[r] = RowAt(h, n, r)
  BY <1>4 DEF HeldAt, Shown
<1>6. ASSUME NEW r \in Row
      PROVE  LastSet(EffectsOf(recs, mem.prepared), r, mem.rows[r]) = RowAt(h, p, r)
  <2>1. PICK es, d : es = EffectsOf(recs, live) /\ d = mem.rows[r]
    OBVIOUS
  <2>2. Len(es) = L
    BY <1>2, <2>1 DEF EffectsOf
  <2>3. InCommitOrder(es, 1, h, n, p, r)
    BY <1>4, <2>1, SelectedOrder
  <2>4. d = RowAt(h, n, r)
    BY <1>5, <2>1
  <2>5. LastSet(es, r, d) = RowAt(h, p, r)
    <3>1. StartsAt(es, 1, h, n, r, d)
      BY <2>4 DEF StartsAt
    <3>2. Settles(es, 1, h, n, p, r, d)
      BY <1>2, <2>2, <2>3, <3>1 DEF Settles
    <3> QED BY <1>1, <3>2, LastCommit
  <2> QED BY <1>5, <2>1, <2>5
<1>7. PICK S, W : S = StillLive(recs, live) /\ W = NowWaiting(recs, live)
  OBVIOUS
<1>8. ASSUME NEW t
      PROVE  Has(h, p, t, {"commit", "abort"}) <=>
                \/ Has(h, n, t, {"commit", "abort"})
                \/ \E c \in 1..p : c > n /\ IsEnd(h[c]) /\ h[c].txn = t
  <2>1. \A i \in 1..p : i \in 1..n \/ i > n
    OBVIOUS
  <2> QED BY <1>1, <2>1 DEF Has, IsEnd
<1>9. \A t : t \in S <=> t \in WaitingAt(h, n) /\ ~\E c \in 1..p : c > n /\ IsEnd(h[c]) /\ h[c].txn = t
  <2> SUFFICES ASSUME NEW t
               PROVE  t \in S <=> /\ t \in WaitingAt(h, n)
                                  /\ ~\E c \in 1..p : c > n /\ IsEnd(h[c]) /\ h[c].txn = t
    OBVIOUS
  <2>1. t \in Named(recs, {"commit", "abort"}) <=> \E c \in 1..p : c > n /\ IsEnd(h[c]) /\ h[c].txn = t
    BY SelectedEnds
  <2> QED BY <1>5, <1>7, <2>1 DEF StillLive
<1>10. \A t : t \in W <=> /\ \E k \in 1..L : recs[k].txn = t /\ recs[k].kind = "prepare"
                          /\ t \notin WaitingAt(h, n)
                          /\ ~\E c \in 1..p : c > n /\ IsEnd(h[c]) /\ h[c].txn = t
  <2> SUFFICES ASSUME NEW t
               PROVE  t \in W <=> /\ \E k \in 1..L : recs[k].txn = t /\ recs[k].kind = "prepare"
                                  /\ t \notin WaitingAt(h, n)
                                  /\ ~\E c \in 1..p : c > n /\ IsEnd(h[c]) /\ h[c].txn = t
    OBVIOUS
  <2>1. t \in Named(recs, {"prepare"}) <=> \E k \in 1..L : recs[k].txn = t /\ recs[k].kind = "prepare"
    BY <1>2, NamedIs
  <2>2. /\ t \in Committed(recs) <=> \E c \in 1..p : c > n /\ h[c].kind = "commit" /\ h[c].txn = t
        /\ t \in Aborted(recs) <=> \E c \in 1..p : c > n /\ h[c].kind = "abort" /\ h[c].txn = t
    BY SelectedEnds
  <2> QED BY <1>5, <1>7, <2>1, <2>2 DEF NowWaiting, IsEnd
\* What waits at p and not at n was prepared in between: its program is all there.
<1>11. ASSUME NEW t \in WaitingAt(h, p), t \notin WaitingAt(h, n)
       PROVE  \E q \in 1..p : \E a, z : /\ h[q].kind = "prepare" /\ h[q].txn = t
                                        /\ Program(recs, t, a, z) /\ recs[z] = h[q]
  <2>1. PICK q \in 1..p : h[q].kind = "prepare" /\ h[q].txn = t
    BY DEF WaitingAt, Has
  <2>2. t \in Txn /\ ~Has(h, p, t, {"commit", "abort"})
    BY DEF WaitingAt
  <2>3. q > n
    <3> SUFFICES ASSUME q \in 1..n PROVE FALSE
      OBVIOUS
    <3>1. Has(h, n, t, {"prepare"}) /\ ~Has(h, n, t, {"commit", "abort"})
      BY <1>8, <2>1, <2>2 DEF Has
    <3> QED BY <1>11, <2>2, <3>1 DEF WaitingAt
  <2>4. \A i \in 1..p : h[i].txn = t => \E k \in 1..Len(recs) : f[k] = i
    <3>1. h[q].kind \in Closing
      BY <2>1 DEF Closing
    <3> QED BY <1>2, <1>3, <1>11, <2>1, <2>2, <2>3, <3>1
  <2>5. \E a, z : Program(recs, t, a, z) /\ recs[z] = h[q]
    <3>1. AllOf(recs, f, h, p, t)
      BY <2>4 DEF AllOf
    <3>2. ProgramTo(recs, t, h[q])
      BY <2>1, <3>1, SelectedProgram
    <3> QED BY <3>2 DEF ProgramTo
  <2> QED BY <2>1, <2>5
<1>12. S \cup W = WaitingAt(h, p)
  <2>1. ASSUME NEW t \in S PROVE t \in WaitingAt(h, p)
    <3>1. t \in Txn /\ Has(h, n, t, {"prepare"}) /\ ~Has(h, p, t, {"commit", "abort"})
      BY <1>8, <1>9 DEF WaitingAt
    <3>2. Has(h, p, t, {"prepare"})
      BY <1>1, <3>1 DEF Has
    <3> QED BY <3>1, <3>2 DEF WaitingAt
  <2>2. ASSUME NEW t \in W PROVE t \in WaitingAt(h, p)
    <3>1. PICK k \in 1..L : recs[k].txn = t /\ recs[k].kind = "prepare"
      BY <1>10
    <3>2. PICK q \in 1..p : q = f[k] /\ h[q].txn = t /\ h[q].kind = "prepare" /\ ~(q <= n)
      <4>1. t \notin WaitingAt(h, n)
        BY <1>10
      <4>2. f[k] \in 1..p /\ recs[k] = h[f[k]]
        BY <1>3
      <4>3. ~(f[k] <= n)
        BY <1>3, <3>1, <4>1
      <4> QED BY <3>1, <4>2, <4>3
    <3>3. t \in Txn
      BY <1>1, <3>2, RecordIs
    <3>4. Has(h, p, t, {"prepare"})
      BY <3>2 DEF Has
    <3>5. ~Has(h, n, t, {"commit", "abort"})
      <4> SUFFICES ASSUME NEW c \in 1..n, h[c].txn = t, IsEnd(h[c]) PROVE FALSE
        BY DEF Has, IsEnd
      <4>1. c \in 1..Len(h) /\ q \in 1..Len(h)
        BY <1>1, <3>2
      <4>2. q <= c
        BY <1>1, <3>2, <4>1, EndIsLast
      <4> QED BY <3>2, <4>2
    <3>6. ~Has(h, p, t, {"commit", "abort"})
      BY <1>8, <1>10, <3>5
    <3> QED BY <3>3, <3>4, <3>6 DEF WaitingAt
  <2>3. ASSUME NEW t \in WaitingAt(h, p) PROVE t \in S \cup W
    <3>1. ~\E c \in 1..p : c > n /\ IsEnd(h[c]) /\ h[c].txn = t
      <4>1. ~Has(h, p, t, {"commit", "abort"})
        BY DEF WaitingAt
      <4> QED BY <1>8, <4>1
    <3>2. CASE t \in WaitingAt(h, n)
      BY <1>9, <3>1, <3>2
    <3>3. CASE t \notin WaitingAt(h, n)
      <4>1. PICK q, a, z : h[q].kind = "prepare" /\ Program(recs, t, a, z) /\ recs[z] = h[q]
        BY <1>11, <3>3
      <4>2. z \in 1..L /\ recs[z].txn = t /\ recs[z].kind = "prepare"
        BY <1>2, <4>1 DEF Program
      <4> QED BY <1>10, <3>1, <3>3, <4>2
    <3> QED BY <3>2, <3>3
  <2> QED BY <2>1, <2>2, <2>3
<1>13. ASSUME NEW t \in S PROVE [live[t] EXCEPT !.seq = 0] = HeldAt(h, p)[t]
  <2>1. t \in WaitingAt(h, n) /\ t \in WaitingAt(h, p)
    BY <1>9, <1>12
  <2>2. PICK q \in 1..n : h[q].kind = "prepare" /\ h[q].txn = t /\ live[t] = HeldAs(h[q])
    <3>1. n \in 0..Len(h)
      OBVIOUS
    <3> QED BY <1>4, <2>1, <3>1, WaitingIs
  <2>3. HeldAt(h, p)[t] = HeldAs(h[q])
    BY <1>1, <2>1, <2>2, HeldIs
  <2> QED BY <2>2, <2>3, HeldFields
<1>14. ASSUME NEW t \in WaitingAt(h, p) \ S PROVE [Waiter(recs, t) EXCEPT !.seq = 0] = HeldAt(h, p)[t]
  <2>1. t \notin WaitingAt(h, n)
    <3>1. t \in W
      BY <1>12, <1>14
    <3> QED BY <1>10, <3>1
  <2>2. PICK q \in 1..p : \E a, z : /\ h[q].kind = "prepare" /\ h[q].txn = t
                                    /\ Program(recs, t, a, z) /\ recs[z] = h[q]
    BY <1>11, <1>14, <2>1
  <2>3. PICK a, z : h[q].kind = "prepare" /\ h[q].txn = t /\ Program(recs, t, a, z) /\ recs[z] = h[q]
    BY <2>2
  <2>4. \A k \in 1..L : recs[k].txn = t /\ recs[k].kind = "op" => recs[k].val = t
    BY <1>1, <1>2, <1>3 DEF Told
  <2>5. [Waiter(recs, t) EXCEPT !.seq = 0] = HeldAs(recs[z])
    BY <1>2, <2>3, <2>4, WaiterTells
  <2>6. HeldAt(h, p)[t] = HeldAs(h[q])
    BY <1>14, <2>3, HeldIs
  <2> QED BY <2>3, <2>5, <2>6
<1>15. Strip(Replay(recs, mem)) = Shown(h, p)
  BY <1>5, <1>6, <1>7, <1>12, <1>13, <1>14, ReplayIs
<1> QED BY <1>4, <1>15

-----------------------------------------------------------------------------
(* The whole history, and a segment past a position                        *)

\* The positions of a set, in order.
LEMMA NthIs ==
    ASSUME NEW n \in Nat, NEW at \in SUBSET (1..n)
    PROVE  /\ Cardinality(at) \in Nat
           /\ \A i \in 1..Cardinality(at) : Nth(at, i) \in at
           /\ \A i, j \in 1..Cardinality(at) : i < j => Nth(at, i) < Nth(at, j)
           /\ \A j \in at : \E i \in 1..Cardinality(at) : Nth(at, i) = j
<1>1. IsFiniteSet(at)
  <2>1. IsFiniteSet(1..n)
    BY FS_Interval
  <2> QED BY <2>1, FS_Subset
<1>2. PICK C \in Nat : C = Cardinality(at)
  BY <1>1, FS_CardinalityType
<1> DEFINE UpTo(j) == {k \in at : k <= j}
           rank == [j \in at |-> Cardinality(UpTo(j))]
<1>3. \A j \in at : j \in Nat /\ j \in UpTo(j) /\ UpTo(j) \in SUBSET at
  OBVIOUS
<1>4. \A j \in at : rank[j] \in 1..C
  <2> SUFFICES ASSUME NEW j \in at PROVE rank[j] \in 1..C
    OBVIOUS
  <2>1. PICK U : U = UpTo(j) /\ U \in SUBSET at /\ U # {}
    BY <1>3
  <2>2. IsFiniteSet(U) /\ Cardinality(U) <= C
    BY <1>1, <1>2, <2>1, FS_Subset
  <2>3. Cardinality(U) \in Nat /\ Cardinality(U) # 0
    BY <2>1, <2>2, FS_CardinalityType, FS_EmptySet
  <2>4. rank[j] = Cardinality(U)
    BY <2>1
  <2> QED BY <2>2, <2>3, <2>4
<1>5. \A i, j \in at : i < j => rank[i] < rank[j]
  <2> SUFFICES ASSUME NEW i \in at, NEW j \in at, i < j PROVE rank[i] < rank[j]
    OBVIOUS
  <2>1. PICK U, V : U = UpTo(i) /\ V = UpTo(j) /\ U \in SUBSET V /\ V \in SUBSET at /\ U # V
    <3>0. i \in Nat /\ j \in Nat /\ \A k \in at : k \in Nat
      BY <1>3
    <3>1. UpTo(i) \subseteq UpTo(j) /\ j \in UpTo(j) /\ j \notin UpTo(i) /\ UpTo(j) \subseteq at
      <4>1. \A k \in Nat : k <= i => k <= j
        BY <3>0
      <4>2. j <= j /\ ~(j <= i)
        BY <3>0
      <4> QED BY <3>0, <4>1, <4>2
    <3> HIDE DEF UpTo
    <3> QED BY <3>1
  <2>2. IsFiniteSet(V)
    BY <1>1, <2>1, FS_Subset
  <2>3. Cardinality(U) <= Cardinality(V) /\ (Cardinality(V) = Cardinality(U) => V = U)
    BY <2>1, <2>2, FS_Subset
  <2>4. rank[i] = Cardinality(U) /\ rank[j] = Cardinality(V)
    BY <2>1
  <2>5. rank[i] \in 1..C /\ rank[j] \in 1..C
    BY <1>4
  <2> HIDE DEF rank
  <2> QED BY <2>1, <2>3, <2>4, <2>5
<1>6. rank \in Injection(at, 1..C)
  <2>1. rank = [j \in at |-> rank[j]]
    OBVIOUS
  <2> HIDE DEF rank
  <2>2. \A i, j \in at : rank[i] = rank[j] => i = j
    <3> SUFFICES ASSUME NEW i \in at, NEW j \in at, rank[i] = rank[j], i # j PROVE FALSE
      OBVIOUS
    <3>1. i < j \/ j < i
      BY <1>3
    <3>2. rank[i] < rank[j] \/ rank[j] < rank[i]
      BY <1>5, <3>1
    <3> QED BY <1>4, <3>2
  <2> QED BY <1>4, <2>1, <2>2 DEF Injection, IsInjective
<1>7. rank \in Surjection(at, 1..C)
  <2>1. IsFiniteSet(1..C) /\ Cardinality(1..C) = C
    BY FS_Interval
  <2> HIDE DEF rank
  <2> QED BY <1>2, <1>6, <2>1, FS_Injection
<1>8. ASSUME NEW i \in 1..C PROVE Nth(at, i) \in at /\ rank[Nth(at, i)] = i
  <2>1. PICK j \in at : rank[j] = i
    <3> HIDE DEF rank
    <3> QED BY <1>7 DEF Surjection
  <2>2. Cardinality({k \in at : k <= j}) = i
    BY <2>1
  <2>3. Nth(at, i) \in at /\ Cardinality({k \in at : k <= Nth(at, i)}) = i
    BY <2>2 DEF Nth
  <2> QED BY <2>3
<1> HIDE DEF rank, UpTo
<1>9. ASSUME NEW i \in 1..C, NEW j \in 1..C, i < j PROVE Nth(at, i) < Nth(at, j)
  <2>1. PICK a \in at, b \in at : a = Nth(at, i) /\ b = Nth(at, j) /\ rank[a] = i /\ rank[b] = j
    BY <1>8
  <2>2. a \in Nat /\ b \in Nat /\ a # b
    BY <1>3, <1>9, <2>1
  <2>3. ~(b < a)
    BY <1>5, <1>9, <2>1
  <2> QED BY <2>1, <2>2, <2>3
<1>10. ASSUME NEW j \in at PROVE \E i \in 1..C : Nth(at, i) = j
  <2>1. PICK i \in 1..C : i = rank[j]
    BY <1>4
  <2>2. PICK a \in at : a = Nth(at, i) /\ rank[a] = rank[j]
    BY <1>8, <2>1
  <2>3. a = j
    BY <1>6, <2>2 DEF Injection, IsInjective
  <2> QED BY <2>2, <2>3
<1> QED BY <1>2, <1>8, <1>9, <1>10

LEMMA MadeIs ==
    ASSUME NEW recs
    PROVE  Made(recs) = Strip(Replay(recs, Empty))
BY DEF Made, Strip

LEMMA NothingShown ==
    ASSUME NEW h
    PROVE  Shown(h, 0) = Empty
<1>1. \A i : i \notin 1..0
  OBVIOUS
<1>2. \A r : Commits(h, 0, r) = {}
  BY <1>1 DEF Commits
<1>3. WaitingAt(h, 0) = {}
  BY <1>1 DEF WaitingAt, Has
<1>4. HeldAt(h, 0) = <<>>
  BY <1>3 DEF HeldAt
<1>5. [r \in Row |-> RowAt(h, 0, r)] = [r \in Row |-> NoValue]
  BY <1>2 DEF RowAt
<1> QED BY <1>4, <1>5 DEF Shown, Empty

\* The memory the first n records make: the reference of Follows.
LEMMA TruthIs ==
    ASSUME NEW h, Regular(h), NEW n \in 0..Len(h)
    PROVE  Made(SubSeq(h, 1, n)) = Shown(h, n)
<1>1. h \in Seq(Records) /\ n \in Nat /\ n <= Len(h)
  BY DEF Regular
<1>2. PICK recs : recs = SubSeq(h, 1, n)
  OBVIOUS
<1>3. /\ recs \in Seq(Records) /\ Len(recs) = n
      /\ \A k \in 1..n : recs[k] = h[k]
  BY <1>1, <1>2
<1>4. PICK f : f = [k \in 1..n |-> k]
  OBVIOUS
<1>5. \A k \in 1..n : f[k] = k
  BY <1>4
<1>6. Selects(recs, f, h, 0, n)
  <2>1. \A k \in 1..n : k \in Nat /\ k > 0 /\ ~(k <= 0)
    OBVIOUS
  <2> QED BY <1>3, <1>5, <2>1 DEF Selects
<1>7. Strip(Replay(recs, Shown(h, 0))) = Shown(h, n)
  BY <1>1, <1>6, SelectedReplay
<1> QED BY <1>2, <1>7, MadeIs, NothingShown

\* A segment past position n, when it begins where everything was complete.
LEMMA PastSelects ==
    ASSUME Regular(history), NEW seg, seg.from \in Nat \ {0}, seg.to \in 0..End,
           NEW n \in 0..seg.to, seg.from <= n + 1, QuietAt(history, seg.from - 1)
    PROVE  \E f : Selects(RecordsPast(seg, n), f, history, n, seg.to)
<1>1. PICK h, a, p : h = history /\ a = seg.from /\ p = seg.to
  OBVIOUS
<1>2. /\ h \in Seq(Records) /\ a \in Nat /\ a >= 1 /\ p \in Nat /\ p <= Len(h) /\ n \in Nat
      /\ a <= n + 1 /\ n <= p /\ Len(h) \in Nat /\ EndsLast(h) /\ Programmed(h) /\ QuietAt(h, a - 1)
  BY <1>1 DEF Regular, End
<1>3. PICK P : P = PositionsPast(seg, n)
  OBVIOUS
<1> DEFINE Past(t) == \E j \in a..p : j > n /\ h[j].txn = t /\ h[j].kind \in Closing
<1>4. \A i : i \in P <=> i \in a..p /\ (IF IsEnd(h[i]) THEN i > n ELSE Past(h[i].txn))
  BY <1>1, <1>3 DEF PositionsPast, EndedPast, Closing, IsEnd
<1>5. P \in SUBSET (1..p)
  BY <1>2, <1>4
<1>6. PICK C \in Nat : /\ C = Cardinality(P)
                       /\ \A i \in 1..C : Nth(P, i) \in P
                       /\ \A i, j \in 1..C : i < j => Nth(P, i) < Nth(P, j)
                       /\ \A j \in P : \E i \in 1..C : Nth(P, i) = j
  BY <1>2, <1>5, NthIs
<1>7. PICK f : f = [i \in 1..C |-> Nth(P, i)]
  OBVIOUS
<1>8. /\ \A i \in 1..C : f[i] \in P
      /\ \A i, j \in 1..C : i < j => f[i] < f[j]
      /\ \A j \in P : \E i \in 1..C : f[i] = j
  BY <1>6, <1>7
<1>9. PICK recs : recs = RecordsPast(seg, n)
  OBVIOUS
<1>10. recs = [i \in 1..C |-> h[f[i]]]
  BY <1>1, <1>3, <1>6, <1>7, <1>9 DEF RecordsPast, Pick
<1>11. /\ recs \in Seq(Records) /\ Len(recs) = C
       /\ \A k \in 1..C : f[k] \in 1..p /\ recs[k] = h[f[k]]
  <2>1. \A k \in 1..C : f[k] \in 1..p
    BY <1>5, <1>8
  <2>2. \A k \in 1..C : h[f[k]] \in Records
    BY <1>2, <2>1
  <2> QED BY <1>10, <2>1, <2>2
<1>12. \A i \in 1..p : i \in 1..Len(h) /\ (i > n => i \in a..p)
  BY <1>2
<1>13. ASSUME NEW k \in 1..C, IsEnd(recs[k]) PROVE f[k] > n
  BY <1>4, <1>8, <1>11, <1>13
<1>14. ASSUME NEW i \in 1..p, i > n, IsEnd(h[i]) PROVE \E k \in 1..C : f[k] = i
  BY <1>4, <1>8, <1>12, <1>14
\* What was waiting before the segment and is closed past n still waits at n.
<1>15. ASSUME NEW t \in Txn, NEW q \in 1..n, h[q].txn = t, h[q].kind = "prepare", Past(t)
       PROVE  t \in WaitingAt(h, n)
  <2>1. PICK j \in a..p : j > n /\ h[j].txn = t
    BY <1>15
  <2>2. ASSUME NEW c \in 1..n, h[c].txn = t, IsEnd(h[c]) PROVE FALSE
    <3>1. c \in 1..Len(h) /\ j \in 1..Len(h) /\ c < j
      BY <1>2, <2>1
    <3> QED BY <1>2, <2>1, <2>2, <3>1 DEF EndsLast
  <2>3. ~Has(h, n, t, {"commit", "abort"}) /\ Has(h, n, t, {"prepare"})
    BY <1>15, <2>2 DEF Has, IsEnd
  <2> QED BY <2>3 DEF WaitingAt
<1>16. ASSUME NEW t \in Txn \ WaitingAt(h, n), NEW j \in 1..p, j > n, h[j].txn = t,
              h[j].kind \in Closing, NEW i \in 1..p, h[i].txn = t
       PROVE  \E k \in 1..C : f[k] = i
  <2>1. j \in a..p /\ Past(t) /\ i \in 1..Len(h) /\ j \in 1..Len(h)
    BY <1>12, <1>16
  <2>2. i \in a..p
    <3> SUFFICES ASSUME i \in 1..(a - 1) PROVE FALSE
      BY <1>2
    <3>1. Logged(h, a - 1, t) /\ j > a - 1
      BY <1>2, <1>16 DEF Logged
    <3>2. ~Left(h, a - 1, t)
      BY <1>2, <1>16, <2>1, <3>1 DEF QuietAt
    <3>3. PICK c \in 1..(a - 1) : h[c].txn = t /\ h[c].kind \in Closing
      BY <3>1, <3>2 DEF Left, Closed, Has
    <3>4. c \in 1..n /\ c \in 1..Len(h) /\ c < j
      BY <1>2, <1>16
    <3>5. ~IsEnd(h[c])
      BY <1>2, <1>16, <2>1, <3>3, <3>4 DEF EndsLast
    <3>6. h[c].kind = "prepare"
      BY <3>3, <3>5 DEF Closing, IsEnd
    <3> QED BY <1>15, <1>16, <2>1, <3>3, <3>4, <3>6
  <2>3. IsEnd(h[i]) => i > n
    <3> SUFFICES ASSUME IsEnd(h[i]), i < j PROVE FALSE
      BY <1>2, <1>16
    <3> QED BY <1>2, <1>16, <2>1 DEF EndsLast
  <2>4. i \in P
    BY <1>4, <1>16, <2>1, <2>2, <2>3
  <2> QED BY <1>8, <2>4
<1>17. ASSUME NEW k \in 1..C, recs[k].kind = "prepare", f[k] <= n
       PROVE  recs[k].txn \in WaitingAt(h, n)
  <2>1. PICK q : q = f[k] /\ q \in P /\ q \in 1..p /\ recs[k] = h[q]
    BY <1>8, <1>11
  <2>2. q \in 1..n /\ ~IsEnd(h[q]) /\ h[q].txn \in Txn
    BY <1>2, <1>12, <1>17, <2>1, RecordIs DEF IsEnd
  <2>3. Past(h[q].txn)
    BY <1>4, <2>1, <2>2
  <2> QED BY <1>15, <1>17, <2>1, <2>2, <2>3
<1>18. Selects(recs, f, h, n, p)
  <2>1. \A t \in Txn \ WaitingAt(h, n) :
           (\E j \in 1..p : j > n /\ h[j].txn = t /\ h[j].kind \in Closing) =>
               \A i \in 1..p : h[i].txn = t => \E k \in 1..C : f[k] = i
    BY <1>16
  <2>2. /\ \A k \in 1..C : IsEnd(recs[k]) => f[k] > n
        /\ \A i \in 1..p : i > n /\ IsEnd(h[i]) => \E k \in 1..C : f[k] = i
        /\ \A k \in 1..C : recs[k].kind = "prepare" /\ f[k] <= n => recs[k].txn \in WaitingAt(h, n)
    BY <1>13, <1>14, <1>17
  <2> QED BY <1>8, <1>11, <2>1, <2>2 DEF Selects
<1> QED BY <1>1, <1>9, <1>18

\* What the poll makes of the memory at n.
LEMMA PastIs ==
    ASSUME Regular(history), NEW seg, seg.from \in Nat \ {0}, seg.to \in 0..End,
           NEW n \in 0..seg.to, seg.from <= n + 1, QuietAt(history, seg.from - 1)
    PROVE  Strip(Replay(RecordsPast(seg, n), Shown(history, n))) = Shown(history, seg.to)
<1>1. PICK f : Selects(RecordsPast(seg, n), f, history, n, seg.to)
  BY PastSelects
<1>2. PICK h, p : h = history /\ p = seg.to /\ p \in 0..Len(h) /\ n \in 0..p
  BY DEF End
<1>3. PICK recs : recs = RecordsPast(seg, n)
  OBVIOUS
<1>4. Selects(recs, f, h, n, p) /\ Regular(h)
  BY <1>1, <1>2, <1>3
<1>5. Strip(Replay(recs, Shown(h, n))) = Shown(h, p)
  BY <1>2, <1>4, SelectedReplay
<1> QED BY <1>2, <1>3, <1>5

-----------------------------------------------------------------------------
(* Replaying an image and the log past it                                  *)

\* The records a to z of the first F are the program of t, which waits at n.
FrontOf(recs, F, h, n, t, a, z) ==
    /\ a \in 2..F /\ z \in 2..F /\ a < z
    /\ recs[a].txn = t /\ recs[a].kind = "begin"
    /\ recs[z].txn = t /\ recs[z].kind = "prepare" /\ HeldAs(recs[z]) = HeldAt(h, n)[t]
    /\ \A r \in recs[z].locks : \E i \in 2..F :
          a < i /\ i < z /\ recs[i].txn = t /\ recs[i].kind = "op" /\ recs[i].row = r
    /\ \A i \in 2..F : recs[i].txn = t => /\ recs[i].kind = "op" => recs[i].row \in recs[z].locks
                                          /\ recs[i].kind = "begin" => i = a
                                          /\ recs[i].kind = "prepare" => i = z

\* An image taken at n: its record, under id s, and the programs of what waits there.
Fronts(recs, F, h, n, s) ==
    /\ F \in Nat \ {0}
    /\ recs[1] = Image(s, Shown(h, n).rows) /\ s \notin WaitingAt(h, n)
    /\ \A k \in 2..F : /\ recs[k].txn \in WaitingAt(h, n)
                       /\ recs[k].kind \in {"begin", "op", "prepare"}
                       /\ recs[k].kind = "op" => recs[k].val = recs[k].txn
    /\ \A t \in WaitingAt(h, n) : \E a, z : FrontOf(recs, F, h, n, t, a, z)

\* The records of h from n to p follow: place g[i] of recs is record i of h, and
\* place k is record f[k].
Tails(recs, F, h, n, p, g, f) ==
    /\ Len(recs) \in Nat /\ F <= Len(recs)
    /\ \A k \in 1..Len(recs) : k > F => f[k] \in 1..p /\ f[k] > n /\ recs[k] = h[f[k]]
    /\ \A i \in 1..p : i > n => g[i] \in 1..Len(recs) /\ g[i] > F /\ f[g[i]] = i /\ recs[g[i]] = h[i]
    /\ \A k, l \in 1..Len(recs) : F < k /\ k < l => f[k] < f[l]
    /\ \A i, j \in 1..p : n < i /\ i < j => g[i] < g[j]

Opens(recs, F, g, f, h, n, p, s) ==
    /\ Fronts(recs, F, h, n, s) /\ Tails(recs, F, h, n, p, g, f)
    /\ \A i \in 1..p : i > n => h[i].txn # s

LEMMA OpensIs ==
    ASSUME NEW h, NEW p \in 0..Len(h), NEW n \in 0..p, NEW recs, NEW F, NEW g, NEW f,
           NEW s, Opens(recs, F, g, f, h, n, p, s)
    PROVE  /\ F \in Nat /\ Len(recs) \in Nat /\ F >= 1 /\ F <= Len(recs)
           /\ recs[1].kind = "image" /\ recs[1].txn = s /\ recs[1].rows = Shown(h, n).rows
           /\ \A k \in 1..Len(recs) :
                 \/ k = 1
                 \/ k \in 2..F
                 \/ k > F /\ f[k] \in 1..p /\ f[k] > n /\ recs[k] = h[f[k]]
BY DEF Opens, Fronts, Tails, Image

\* What is closed past n, and was not waiting there, has no record before n.
LEMMA NewSinceClean ==
    ASSUME NEW h, Regular(h), NEW n \in 0..Len(h), CleanAt(h, n), NEW t \in Txn \ WaitingAt(h, n),
           NEW j \in 1..Len(h), j > n, h[j].txn = t, h[j].kind \in {"commit", "prepare"},
           NEW i \in 1..Len(h), h[i].txn = t
    PROVE  i > n
<1>1. h \in Seq(Records) /\ EndsLast(h) /\ n \in Nat
  BY DEF Regular
<1> SUFFICES ASSUME i \in 1..n PROVE FALSE
  BY <1>1
<1>2. Logged(h, n, t)
  BY DEF Logged
<1>3. ~Left(h, n, t)
  BY DEF CleanAt
<1>4. PICK c \in 1..n : h[c].txn = t /\ h[c].kind \in Closing
  BY <1>2, <1>3 DEF Left, Closed, Has
<1>5. \A x \in 1..n : x \in 1..Len(h) /\ x < j
  BY <1>1
<1>6. \A x \in 1..n : h[x].txn = t => ~IsEnd(h[x])
  BY <1>5 DEF EndsLast, Regular
<1>7. h[c].kind = "prepare" /\ ~Has(h, n, t, {"commit", "abort"})
  BY <1>4, <1>6 DEF Closing, Has, IsEnd
<1>8. t \in WaitingAt(h, n)
  BY <1>4, <1>7 DEF WaitingAt, Has
<1> QED BY <1>8

LEMMA OpensEnds ==
    ASSUME NEW h, Regular(h), NEW p \in 0..Len(h), NEW n \in 0..p, NEW recs, NEW F, NEW g, NEW f,
           NEW s, Opens(recs, F, g, f, h, n, p, s), NEW t
    PROVE  /\ t \in Committed(recs) <=>
                 t = s \/ \E c \in 1..p : c > n /\ h[c].kind = "commit" /\ h[c].txn = t
           /\ t \in Aborted(recs) <=>
                 \E c \in 1..p : c > n /\ h[c].kind = "abort" /\ h[c].txn = t
<1>1. h \in Seq(Records) /\ EndsLast(h) /\ \A i \in 1..p : i \in 1..Len(h)
  BY DEF Regular
<1>o. /\ F \in Nat /\ Len(recs) \in Nat /\ F >= 1 /\ F <= Len(recs)
      /\ recs[1].kind = "image" /\ recs[1].txn = s /\ recs[1].rows = Shown(h, n).rows
      /\ \A k \in 1..Len(recs) : \/ k = 1
                                 \/ k \in 2..F
                                 \/ k > F /\ f[k] \in 1..p /\ f[k] > n /\ recs[k] = h[f[k]]
  BY OpensIs
<1>2. PICK L \in Nat : L = Len(recs) /\ 1 \in 1..L
  BY <1>o
<1>3. \A k \in 1..L : \/ k = 1
                      \/ k \in 2..F
                      \/ k > F /\ f[k] \in 1..p /\ f[k] > n /\ recs[k] = h[f[k]]
  BY <1>o, <1>2
<1>4. /\ \A k \in 2..F : recs[k].kind \notin {"commit", "abort", "image"}
      /\ recs[1].kind = "image" /\ recs[1].txn = s
  <2>1. \A k \in 2..F : recs[k].kind \in {"begin", "op", "prepare"}
    BY DEF Opens, Fronts
  <2> QED BY <1>o, <2>1
<1>5. \A i \in 1..p : i > n => g[i] \in 1..L /\ recs[g[i]] = h[i] /\ h[i].txn # s
  BY <1>2 DEF Opens, Tails
<1>6. \A i \in 1..p : h[i].kind # "image"
  BY <1>1, RecordIs
<1>7. ASSUME NEW K, K \in {"commit", "abort"}
      PROVE  (\E k \in 1..L : recs[k].txn = t /\ recs[k].kind = K) <=>
                 \E c \in 1..p : c > n /\ h[c].kind = K /\ h[c].txn = t
  <2>1. ASSUME NEW k \in 1..L, recs[k].txn = t, recs[k].kind = K
        PROVE  \E c \in 1..p : c > n /\ h[c].kind = K /\ h[c].txn = t
    BY <1>3, <1>4, <1>7, <2>1
  <2>2. ASSUME NEW c \in 1..p, c > n, h[c].kind = K, h[c].txn = t
        PROVE  \E k \in 1..L : recs[k].txn = t /\ recs[k].kind = K
    BY <1>5, <2>2
  <2> QED BY <2>1, <2>2
<1>8. (\E k \in 1..L : recs[k].txn = t /\ recs[k].kind = "image") <=> t = s
  BY <1>2, <1>3, <1>4, <1>6
<1>9. t \in Aborted(recs) <=> \E k \in 1..L : recs[k].txn = t /\ recs[k].kind = "abort"
  BY <1>2, NamedIs DEF Aborted
<1>10. t \in Named(recs, {"commit", "image"}) <=>
          \E k \in 1..L : recs[k].txn = t /\ recs[k].kind \in {"commit", "image"}
  BY <1>2, NamedIs
<1>11. ASSUME NEW c \in 1..p, NEW d \in 1..p, h[c].kind = "commit", h[d].kind = "abort",
              h[c].txn = t, h[d].txn = t
       PROVE  FALSE
  <2>1. c \in 1..Len(h) /\ d \in 1..Len(h) /\ IsEnd(h[c]) /\ IsEnd(h[d])
    BY <1>1, <1>11 DEF IsEnd
  <2>2. d = c
    BY <1>1, <1>11, <2>1, EndIsLast
  <2> QED BY <1>11, <2>2
<1>12. t \in Aborted(recs) <=> \E c \in 1..p : c > n /\ h[c].kind = "abort" /\ h[c].txn = t
  BY <1>7, <1>9
<1>13. t \in Named(recs, {"commit", "image"}) <=>
          t = s \/ \E c \in 1..p : c > n /\ h[c].kind = "commit" /\ h[c].txn = t
  BY <1>7, <1>8, <1>10
<1> QED BY <1>5, <1>11, <1>12, <1>13 DEF Committed

\* The program of what waits at n is in front, that of what is prepared past n behind.
LEMMA OpensProgram ==
    ASSUME NEW h, Regular(h), NEW p \in 0..Len(h), NEW n \in 0..p, CleanAt(h, n), NEW recs, NEW F,
           NEW g, NEW f, NEW s, Opens(recs, F, g, f, h, n, p, s), NEW t \in Txn,
           NEW q \in 1..p, h[q].kind = "prepare", h[q].txn = t, t \in WaitingAt(h, n) \/ q > n
    PROVE  \E a, z : Program(recs, t, a, z) /\ HeldAs(recs[z]) = HeldAs(h[q])
<1>1. /\ h \in Seq(Records) /\ Programmed(h) /\ EndsLast(h)
      /\ \A i \in 1..p : i \in 1..Len(h)
  BY DEF Regular
<1>o. /\ F \in Nat /\ Len(recs) \in Nat /\ F >= 1 /\ F <= Len(recs)
      /\ recs[1].kind = "image" /\ recs[1].txn = s /\ recs[1].rows = Shown(h, n).rows
      /\ \A k \in 1..Len(recs) : \/ k = 1
                                 \/ k \in 2..F
                                 \/ k > F /\ f[k] \in 1..p /\ f[k] > n /\ recs[k] = h[f[k]]
  BY OpensIs
<1>2. PICK L \in Nat, H \in Nat : L = Len(recs) /\ H = Len(h) /\ F \in 1..L /\ p <= H
  BY <1>o, <1>1
<1>3. \A k \in 1..L : \/ k = 1
                      \/ k \in 2..F
                      \/ k > F /\ f[k] \in 1..p /\ f[k] > n /\ recs[k] = h[f[k]]
  BY <1>o, <1>2
<1>4. PICK b \in 1..H : Program(h, t, b, q)
  BY <1>1, <1>2 DEF Programmed
<1>5. /\ b \in 1..H /\ b < q /\ h[b].txn = t /\ h[b].kind = "begin" /\ q \in 1..H
      /\ \A r \in h[q].locks : \E i \in 1..H :
            b < i /\ i < q /\ h[i].txn = t /\ h[i].kind = "op" /\ h[i].row = r
      /\ \A i \in 1..H : h[i].txn = t => /\ h[i].kind = "op" => h[i].row \in h[q].locks
                                         /\ h[i].kind = "begin" => i = b
                                         /\ h[i].kind = "prepare" => i = q
  BY <1>2, <1>4 DEF Program
<1>6. recs[1].kind = "image" /\ recs[1].txn = s
  BY <1>o
<1>7. CASE t \in WaitingAt(h, n)
  <2>1. PICK a \in 2..F, z \in 2..F : FrontOf(recs, F, h, n, t, a, z)
    <3>1. PICK a, z : FrontOf(recs, F, h, n, t, a, z)
      BY <1>7 DEF Opens, Fronts
    <3> QED BY <3>1 DEF FrontOf
  <2>2. q <= n
    <3>1. PICK x \in 1..n : h[x].kind = "prepare" /\ h[x].txn = t
      BY <1>7 DEF WaitingAt, Has
    <3>2. x \in 1..H
      BY <1>2
    <3> QED BY <1>5, <3>1, <3>2
  <2>3. HeldAt(h, n)[t] = HeldAs(h[q])
    <3>1. q \in 1..n /\ n \in 0..Len(h)
      BY <1>2, <2>2
    <3> QED BY <1>7, <3>1, HeldIs
  <2>4. HeldAs(recs[z]) = HeldAs(h[q]) /\ recs[z].locks = h[q].locks
    <3>1. HeldAs(recs[z]) = HeldAs(h[q])
      BY <2>1, <2>3 DEF FrontOf
    <3>2. HeldAs(recs[z]).locks = recs[z].locks /\ HeldAs(h[q]).locks = h[q].locks
      BY HeldFields
    <3> QED BY <3>1, <3>2
  <2>5. \A k \in 2..F : k \in 1..L
    BY <1>2
  <2>6. ASSUME NEW k \in 1..L, recs[k].txn = t
        PROVE  /\ recs[k].kind = "op" => recs[k].row \in recs[z].locks
               /\ recs[k].kind = "begin" => k = a
               /\ recs[k].kind = "prepare" => k = z
    <3>1. CASE k = 1
      BY <1>6, <3>1
    <3>2. CASE k \in 2..F
      BY <2>1, <2>6, <3>2 DEF FrontOf
    <3>3. CASE k > F /\ f[k] \in 1..p /\ f[k] > n /\ recs[k] = h[f[k]]
      <4>1. PICK i \in 1..H : i = f[k] /\ recs[k] = h[i] /\ h[i].txn = t /\ i > n
        BY <1>1, <1>2, <2>6, <3>3
      <4>2. ~(i <= q) /\ b < q /\ n \in Nat /\ q \in Nat /\ b \in Nat
        BY <1>5, <2>2, <4>1
      <4>3. i # b /\ i # q
        BY <1>5, <4>2
      <4> QED BY <1>5, <2>4, <4>1, <4>3
    <3> QED BY <1>3, <3>1, <3>2, <3>3
  <2>7. \A r \in recs[z].locks : \E i \in 1..L :
           a < i /\ i < z /\ recs[i].txn = t /\ recs[i].kind = "op" /\ recs[i].row = r
    BY <2>1, <2>5 DEF FrontOf
  <2>8. /\ a \in 1..L /\ z \in 1..L /\ a < z
        /\ recs[a].txn = t /\ recs[a].kind = "begin"
        /\ recs[z].txn = t /\ recs[z].kind = "prepare"
    BY <2>1, <2>5 DEF FrontOf
  <2>9. Program(recs, t, a, z)
    BY <1>2, <2>6, <2>7, <2>8 DEF Program
  <2> QED BY <2>4, <2>9
<1>8. CASE t \notin WaitingAt(h, n)
  <2>1. q > n
    BY <1>8
  <2>2. \A i \in 1..H : h[i].txn = t => i > n
    <3>1. n \in 0..Len(h) /\ q \in 1..Len(h) /\ h[q].kind \in {"commit", "prepare"}
      BY <1>2, <1>5
    <3> QED BY <1>2, <1>8, <2>1, <3>1, NewSinceClean
  <2>3. /\ \A i \in 1..p : i > n => g[i] \in 1..L /\ g[i] > F /\ f[g[i]] = i /\ recs[g[i]] = h[i]
        /\ \A i, j \in 1..p : n < i /\ i < j => g[i] < g[j]
    BY <1>2 DEF Opens, Tails
  <2>4. b > n /\ b \in 1..p /\ \A i \in 1..H : i < q => i \in 1..p
    BY <1>2, <1>5, <2>2
  <2>5. PICK a \in 1..L, z \in 1..L : a = g[b] /\ z = g[q] /\ f[a] = b /\ f[z] = q
                                      /\ recs[a] = h[b] /\ recs[z] = h[q]
    BY <2>1, <2>3, <2>4
  <2>6. a < z
    <3>1. n < b
      BY <1>5, <2>4
    <3> QED BY <1>5, <2>3, <2>4, <2>5, <3>1
  <2>7. ASSUME NEW k \in 1..L, recs[k].txn = t, recs[k].kind \in {"op", "begin", "prepare"}
        PROVE  k > F /\ f[k] \in 1..p /\ f[k] > n /\ recs[k] = h[f[k]]
    <3>1. k # 1
      BY <1>6, <2>7
    <3>2. k \notin 2..F
      BY <1>8, <2>7 DEF Opens, Fronts
    <3> QED BY <1>3, <3>1, <3>2
  <2>8. \A k, l \in 1..L : F < k /\ F < l /\ f[k] = f[l] => k = l
    <3> SUFFICES ASSUME NEW k \in 1..L, NEW l \in 1..L, F < k, F < l, f[k] = f[l], k # l PROVE FALSE
      OBVIOUS
    <3>1. f[k] \in 1..p /\ f[l] \in 1..p /\ (k < l => f[k] < f[l]) /\ (l < k => f[l] < f[k])
      <4>1. k > F /\ l > F
        BY <1>2
      <4> QED BY <1>2, <4>1 DEF Opens, Tails
    <3> QED BY <3>1
  <2>9. ASSUME NEW k \in 1..L, recs[k].txn = t
        PROVE  /\ recs[k].kind = "op" => recs[k].row \in recs[z].locks
               /\ recs[k].kind = "begin" => k = a
               /\ recs[k].kind = "prepare" => k = z
    <3> SUFFICES ASSUME recs[k].kind \in {"op", "begin", "prepare"}
                 PROVE  /\ recs[k].kind = "op" => recs[k].row \in recs[z].locks
                        /\ recs[k].kind = "begin" => k = a
                        /\ recs[k].kind = "prepare" => k = z
      OBVIOUS
    <3>1. PICK i \in 1..H : i = f[k] /\ recs[k] = h[i] /\ h[i].txn = t /\ k > F
      BY <1>1, <1>2, <2>7, <2>9
    <3>2. /\ h[i].kind = "op" => h[i].row \in h[q].locks
          /\ h[i].kind = "begin" => i = b
          /\ h[i].kind = "prepare" => i = q
      BY <1>5, <3>1
    <3>3. a > F /\ z > F
      BY <2>1, <2>3, <2>4, <2>5
    <3>4. (i = b => k = a) /\ (i = q => k = z)
      <4>1. F < k /\ F < a /\ F < z
        BY <1>2, <3>1, <3>3
      <4> QED BY <2>5, <2>8, <3>1, <4>1
    <3> QED BY <2>5, <3>1, <3>2, <3>4
  <2>10. ASSUME NEW r \in recs[z].locks
         PROVE  \E k \in 1..L : a < k /\ k < z /\ recs[k].txn = t /\ recs[k].kind = "op" /\ recs[k].row = r
    <3>1. PICK i \in 1..H : b < i /\ i < q /\ h[i].txn = t /\ h[i].kind = "op" /\ h[i].row = r
      BY <1>5, <2>5
    <3>2. i > n /\ i \in 1..p /\ n < i /\ n < b
      BY <1>5, <2>2, <2>4, <3>1
    <3>3. PICK k \in 1..L : k = g[i] /\ recs[k] = h[i]
      BY <2>3, <3>2
    <3>4. a < k /\ k < z
      BY <2>3, <2>4, <2>5, <3>1, <3>2, <3>3
    <3> QED BY <3>1, <3>3, <3>4
  <2>11. Program(recs, t, a, z)
    BY <1>2, <1>5, <2>5, <2>6, <2>9, <2>10 DEF Program
  <2> QED BY <2>5, <2>11
<1> QED BY <1>7, <1>8

\* The effects on a row behind the image are in the order of the commits past n.
LEMMA OpensOrder ==
    ASSUME NEW h, Regular(h), NEW p \in 0..Len(h), NEW n \in 0..p, CleanAt(h, n), NEW recs, NEW F,
           NEW g, NEW f, NEW s, Opens(recs, F, g, f, h, n, p, s), NEW r \in Row
    PROVE  InCommitOrder(EffectsOf(recs, <<>>), 2, h, n, p, r)
<1>1. /\ h \in Seq(Records) /\ EndsLast(h) /\ Told(h)
      /\ \A i \in 1..p : i \in 1..Len(h)
      /\ \A i \in 1..n : i \in 1..Len(h) /\ i \in 1..p
  BY DEF Regular
<1>o. /\ F \in Nat /\ Len(recs) \in Nat /\ F >= 1 /\ F <= Len(recs)
      /\ recs[1].kind = "image" /\ recs[1].txn = s /\ recs[1].rows = Shown(h, n).rows
      /\ \A k \in 1..Len(recs) : \/ k = 1
                                 \/ k \in 2..F
                                 \/ k > F /\ f[k] \in 1..p /\ f[k] > n /\ recs[k] = h[f[k]]
  BY OpensIs
<1>2. PICK L \in Nat, H \in Nat : L = Len(recs) /\ H = Len(h) /\ F \in 1..L /\ p <= H /\ n <= p
                                  /\ n \in Nat
  BY <1>o, <1>1
<1>3. \A k \in 2..L : /\ k \in 1..L
                      /\ \/ k \in 2..F
                         \/ k > F /\ f[k] \in 1..p /\ f[k] \in 1..H /\ f[k] > n /\ recs[k] = h[f[k]]
  <2>1. \A k \in 2..L : k \in 1..L /\ k # 1
    OBVIOUS
  <2> QED BY <1>o, <1>1, <1>2, <2>1
<1>4. PICK es, N : es = EffectsOf(recs, <<>>) /\ N = NewCommits(h, n, p, r)
  OBVIOUS
<1>5. /\ Len(es) = L /\ \A k \in 1..L : es[k] = Effect(recs, <<>>, k)
  BY <1>2, <1>4 DEF EffectsOf
<1>6. \A c : c \in N <=> /\ c \in 1..p /\ c > n /\ h[c].kind = "commit"
                         /\ Wrote(h, c, h[c].txn, r)
  BY <1>4 DEF NewCommits, Commits
<1>7. \A c \in 1..H : h[c].kind = "commit" => IsEnd(h[c])
  BY DEF IsEnd
<1>e. \A x : x \notin DOMAIN <<>>
  OBVIOUS
\* What waits at n has written the rows it locks, before n.
<1>8. ASSUME NEW k \in 2..F, recs[k].kind = "op"
      PROVE  /\ recs[k].txn \in WaitingAt(h, n) /\ recs[k].val = recs[k].txn
             /\ \E j \in 1..n : h[j].txn = recs[k].txn /\ h[j].row = recs[k].row /\ h[j].kind = "op"
  <2>1. PICK u \in WaitingAt(h, n) : u = recs[k].txn /\ recs[k].val = u
    BY <1>8 DEF Opens, Fronts
  <2>2. PICK a, z : FrontOf(recs, F, h, n, u, a, z)
    BY DEF Opens, Fronts
  <2>3. recs[k].row \in recs[z].locks /\ HeldAs(recs[z]) = HeldAt(h, n)[u]
    BY <1>8, <2>1, <2>2 DEF FrontOf
  <2>4. PICK q \in 1..n : \E b \in 1..Len(h) :
              /\ h[q].kind = "prepare" /\ h[q].txn = u /\ q \in 1..Len(h)
              /\ Program(h, u, b, q) /\ HeldAt(h, n)[u] = HeldAs(h[q])
    <3>1. n \in 0..Len(h)
      BY <1>2
    <3> QED BY <3>1, WaitingIs
  <2>5. PICK b \in 1..H : Program(h, u, b, q) /\ HeldAs(recs[z]) = HeldAs(h[q])
    BY <1>2, <2>3, <2>4
  <2>6. HeldAs(recs[z]).locks = recs[z].locks /\ HeldAs(h[q]).locks = h[q].locks
    BY HeldFields
  <2>7. recs[k].row \in h[q].locks
    BY <2>3, <2>5, <2>6
  <2>8. PICK j \in 1..H : b < j /\ j < q /\ h[j].txn = u /\ h[j].kind = "op" /\ h[j].row = recs[k].row
    BY <1>2, <2>5, <2>7 DEF Program
  <2>9. j \in 1..n
    BY <2>8
  <2> QED BY <2>1, <2>8, <2>9
\* Whose an effect on r is: of what waited at n, or a write past n.
<1> DEFINE Ahead(k, c) == /\ k \in 2..F
                          /\ \E j \in 1..n : h[j].txn = h[c].txn /\ h[j].row = r /\ h[j].kind = "op"
           Behind(k, c) == /\ k > F /\ f[k] \in 1..H /\ f[k] > n
                           /\ h[f[k]].kind = "op" /\ h[f[k]].txn = h[c].txn /\ h[f[k]].row = r
<1>9. ASSUME NEW k \in 2..L, r \in DOMAIN es[k]
      PROVE  \E c \in N : es[k][r] = h[c].txn /\ (Ahead(k, c) \/ Behind(k, c))
  <2>1. k \in 1..L /\ es[k] = Effect(recs, <<>>, k) /\ recs[k].kind # "image"
    <3>1. k \in 1..L
      OBVIOUS
    <3>2. CASE k \in 2..F
      <4>1. recs[k].kind \in {"begin", "op", "prepare"}
        BY <3>2 DEF Opens, Fronts
      <4> QED BY <1>5, <3>1, <4>1
    <3>3. CASE f[k] \in 1..H /\ recs[k] = h[f[k]]
      <4>1. PICK i \in 1..H : recs[k] = h[i]
        BY <3>3
      <4>2. h[i].kind # "image"
        BY <1>1, <1>2, RecordIs
      <4> QED BY <1>5, <3>1, <4>1, <4>2
    <3> QED BY <1>3, <3>2, <3>3
  <2>2. /\ recs[k].kind = "op" /\ recs[k].txn \in Committed(recs)
        /\ r = recs[k].row /\ es[k][r] = recs[k].val
    BY <1>e, <1>9, <2>1, EffectOn
  <2>3. PICK u : u = recs[k].txn
    OBVIOUS
  <2>4. u = s \/ \E c \in 1..p : c > n /\ h[c].kind = "commit" /\ h[c].txn = u
    BY <2>2, <2>3, OpensEnds
  <2>5. CASE k \in 2..F
    <3>1. u \in WaitingAt(h, n) /\ recs[k].val = u
      BY <1>8, <2>2, <2>3, <2>5
    <3>2. PICK j \in 1..n : h[j].txn = u /\ h[j].row = r /\ h[j].kind = "op"
      BY <1>8, <2>2, <2>3, <2>5
    <3>3. u # s
      BY <3>1 DEF Opens, Fronts
    <3>4. PICK c \in 1..p : c > n /\ h[c].kind = "commit" /\ h[c].txn = u
      BY <2>4, <3>3
    <3>5. Wrote(h, c, u, r)
      <4>1. j \in 1..c
        BY <3>4
      <4> QED BY <3>2, <4>1 DEF Wrote
    <3>6. c \in N
      BY <1>6, <3>4, <3>5
    <3> QED BY <2>2, <2>5, <3>1, <3>2, <3>4, <3>6
  <2>6. CASE k > F /\ f[k] \in 1..p /\ f[k] \in 1..H /\ f[k] > n /\ recs[k] = h[f[k]]
    <3>1. PICK i \in 1..H : /\ i = f[k] /\ i \in 1..p /\ i > n /\ h[i].txn = u /\ h[i].kind = "op"
                            /\ h[i].row = r /\ h[i].val = recs[k].val
      BY <2>2, <2>3, <2>6
    <3>2. u # s
      BY <3>1 DEF Opens
    <3>3. PICK c \in 1..p : c > n /\ h[c].kind = "commit" /\ h[c].txn = u
      BY <2>4, <3>2
    <3>4. es[k][r] = u
      BY <1>1, <1>2, <2>2, <3>1 DEF Told
    <3>5. i < c
      <4>1. c \in 1..H /\ IsEnd(h[c]) /\ i # c
        BY <1>1, <1>2, <1>7, <3>1, <3>3
      <4> QED BY <1>1, <1>2, <3>1, <3>3, <4>1, EndIsLast
    <3>6. Wrote(h, c, u, r)
      <4>1. i \in 1..c
        BY <3>5
      <4> QED BY <3>1, <4>1 DEF Wrote
    <3>7. c \in N
      BY <1>6, <3>3, <3>6
    <3> QED BY <2>6, <3>1, <3>3, <3>4, <3>7
  <2> QED BY <1>3, <2>5, <2>6
\* Every commit has one.
<1>10. ASSUME NEW c \in N PROVE \E k \in 2..L : r \in DOMAIN es[k] /\ es[k][r] = h[c].txn
  <2>1. PICK u : /\ u = h[c].txn /\ c \in 1..p /\ c \in 1..H /\ c > n /\ h[c].kind = "commit"
                 /\ IsEnd(h[c]) /\ Wrote(h, c, u, r) /\ u \in Txn
    BY <1>1, <1>2, <1>6, <1>7, RecordIs
  <2>2. u \in Committed(recs)
    BY <2>1, OpensEnds
  <2>3. PICK i \in 1..c : h[i].txn = u /\ h[i].kind = "op" /\ h[i].row = r
    BY <2>1 DEF Wrote
  <2>4. i \in 1..p /\ i \in 1..H
    BY <1>2, <2>1, <2>3
  <2>5. PICK k \in 2..L : recs[k].kind = "op" /\ recs[k].txn = u /\ recs[k].row = r /\ InProgram(recs, k)
    <3>1. CASE \E q \in 1..p : h[q].kind = "prepare" /\ h[q].txn = u /\ (u \in WaitingAt(h, n) \/ q > n)
      <4>1. PICK q \in 1..p : h[q].kind = "prepare" /\ h[q].txn = u /\ (u \in WaitingAt(h, n) \/ q > n)
        BY <3>1
      <4>2. PICK a, z : Program(recs, u, a, z) /\ HeldAs(recs[z]) = HeldAs(h[q])
        BY <2>1, <4>1, OpensProgram
      <4>3. PICK b \in 1..H : Program(h, u, b, q)
        BY <1>2, <4>1 DEF Regular, Programmed
      <4>4. r \in h[q].locks
        BY <1>2, <2>3, <2>4, <4>3 DEF Program
      <4>5. HeldAs(recs[z]).locks = recs[z].locks /\ HeldAs(h[q]).locks = h[q].locks
        BY HeldFields
      <4>6. r \in recs[z].locks
        BY <4>2, <4>4, <4>5
      <4>7. PICK m \in 1..L : a < m /\ m < z /\ recs[m].txn = u /\ recs[m].kind = "op" /\ recs[m].row = r
        BY <1>2, <4>2, <4>6 DEF Program
      <4>8. InProgram(recs, m)
        BY <1>2, <4>2, <4>7, InItsProgram
      <4>9. m \in 2..L
        <5>1. a \in 1..L
          BY <1>2, <4>2 DEF Program
        <5> QED BY <4>7, <5>1
      <4> QED BY <4>7, <4>8, <4>9
    <3>2. CASE ~\E q \in 1..p : h[q].kind = "prepare" /\ h[q].txn = u /\ (u \in WaitingAt(h, n) \/ q > n)
      <4>1. u \notin WaitingAt(h, n)
        <5> SUFFICES ASSUME u \in WaitingAt(h, n) PROVE FALSE
          OBVIOUS
        <5>1. PICK q \in 1..n : h[q].kind = "prepare" /\ h[q].txn = u
          BY DEF WaitingAt, Has
        <5> QED BY <1>1, <3>2, <5>1
      <4>2. i > n
        <5>1. n \in 0..Len(h) /\ c \in 1..Len(h) /\ i \in 1..Len(h) /\ h[c].kind \in {"commit", "prepare"}
          BY <1>2, <2>1, <2>4
        <5> QED BY <2>1, <2>3, <4>1, <5>1, NewSinceClean
      <4>3. PICK k \in 1..L : k = g[i] /\ k > F /\ recs[k] = h[i]
        BY <1>2, <2>4, <4>2 DEF Opens, Tails
      <4>4. k \in 2..L
        BY <1>2, <4>3
      <4>5. u \notin Named(recs, {"prepare"})
        <5> SUFFICES ASSUME u \in Named(recs, {"prepare"}) PROVE FALSE
          OBVIOUS
        <5>1. PICK l \in 1..L : recs[l].txn = u /\ recs[l].kind = "prepare"
          BY <1>2, NamedIs
        <5>2. l # 1
          BY <1>o, <5>1
        <5>3. l \notin 2..F
          BY <4>1, <5>1 DEF Opens, Fronts
        <5>4. f[l] \in 1..p /\ f[l] > n /\ recs[l] = h[f[l]]
          BY <1>o, <1>2, <5>2, <5>3
        <5> QED BY <3>2, <5>1, <5>4
      <4>6. InProgram(recs, k)
        BY <2>3, <4>3, <4>5 DEF InProgram
      <4> QED BY <2>3, <4>3, <4>4, <4>6
    <3> QED BY <3>1, <3>2
  <2>6. r \in DOMAIN es[k] /\ es[k][r] = recs[k].val
    BY <1>e, <1>3, <1>5, <2>2, <2>5, OpEffect
  <2>7. recs[k].val = u
    <3>1. CASE k \in 2..F
      BY <1>8, <2>5, <3>1
    <3>2. CASE f[k] \in 1..H /\ recs[k] = h[f[k]]
      <4>1. PICK j \in 1..H : recs[k] = h[j]
        BY <3>2
      <4> QED BY <1>1, <1>2, <2>5, <4>1 DEF Told
    <3> QED BY <1>3, <3>1, <3>2
  <2> QED BY <2>1, <2>6, <2>7
\* And they are in the order of the commits.
<1>11. ASSUME NEW k \in 2..L, NEW l \in 2..L, NEW c \in N, NEW d \in N, k < l,
              r \in DOMAIN es[k], r \in DOMAIN es[l], es[k][r] = h[c].txn, es[l][r] = h[d].txn
       PROVE  c <= d
  <2>1. /\ c \in 1..H /\ d \in 1..H /\ c \in Nat /\ d \in Nat /\ IsEnd(h[c]) /\ IsEnd(h[d])
        /\ c > n /\ d > n /\ n \in Nat
    BY <1>1, <1>2, <1>6, <1>7
  <2>2. \A x \in N : h[x].txn = h[c].txn => x = c
    <3> SUFFICES ASSUME NEW x \in N, h[x].txn = h[c].txn PROVE x = c
      OBVIOUS
    <3>1. x \in 1..H /\ IsEnd(h[x])
      BY <1>1, <1>2, <1>6, <1>7
    <3> QED BY <1>1, <1>2, <2>1, <3>1, EndIsLast
  <2>3. \A x \in N : h[x].txn = h[d].txn => x = d
    <3> SUFFICES ASSUME NEW x \in N, h[x].txn = h[d].txn PROVE x = d
      OBVIOUS
    <3>1. x \in 1..H /\ IsEnd(h[x])
      BY <1>1, <1>2, <1>6, <1>7
    <3> QED BY <1>1, <1>2, <2>1, <3>1, EndIsLast
  <2>4. Ahead(k, c) \/ Behind(k, c)
    <3>1. PICK x \in N : es[k][r] = h[x].txn /\ (Ahead(k, x) \/ Behind(k, x))
      BY <1>9, <1>11
    <3>2. x = c
      BY <1>11, <2>2, <3>1
    <3> QED BY <3>1, <3>2
  <2>5. Ahead(l, d) \/ Behind(l, d)
    <3>1. PICK x \in N : es[l][r] = h[x].txn /\ (Ahead(l, x) \/ Behind(l, x))
      BY <1>9, <1>11
    <3>2. x = d
      BY <1>11, <2>3, <3>1
    <3> QED BY <3>1, <3>2
  <2>6. CASE h[c].txn = h[d].txn
    BY <2>1, <2>3, <2>6
  \* A write of c's transaction before one of d's.
  <2>7. ASSUME NEW i \in 1..H, NEW j \in 1..H, i < j, h[i].kind = "op", h[i].row = r,
               h[j].kind = "op", h[j].row = r, h[i].txn = h[c].txn, h[j].txn = h[d].txn,
               h[c].txn # h[d].txn
        PROVE  c < j /\ j <= d
    <3>1. Hands(h, i, j)
      BY <2>7 DEF Hands
    <3>2. c < j
      BY <1>2, <2>1, <2>7, <3>1, WritersInOrder
    <3>3. j <= d
      BY <1>1, <1>2, <2>1, <2>7, EndIsLast
    <3> QED BY <3>2, <3>3
  <2>8. CASE h[c].txn # h[d].txn /\ Ahead(k, c) /\ Ahead(l, d)
    <3>1. PICK i \in 1..n : h[i].txn = h[c].txn /\ h[i].row = r /\ h[i].kind = "op"
      BY <2>8
    <3>2. PICK j \in 1..n : h[j].txn = h[d].txn /\ h[j].row = r /\ h[j].kind = "op"
      BY <2>8
    <3>3. i \in 1..H /\ j \in 1..H /\ i # j /\ i <= n /\ j <= n /\ i \in Nat /\ j \in Nat
      BY <1>1, <1>2, <2>8, <3>1, <3>2
    <3>4. ~(i < j)
      BY <2>1, <2>7, <2>8, <3>1, <3>2, <3>3
    <3>5. j < i
      BY <3>3, <3>4
    <3>6. Hands(h, j, i)
      BY <2>8, <3>1, <3>2, <3>5 DEF Hands
    <3>7. d < i
      BY <1>2, <2>1, <3>2, <3>3, <3>6, WritersInOrder
    <3> QED BY <2>1, <3>3, <3>7
  <2>9. CASE h[c].txn # h[d].txn /\ Ahead(k, c) /\ Behind(l, d)
    <3>1. PICK i \in 1..n : h[i].txn = h[c].txn /\ h[i].row = r /\ h[i].kind = "op"
      BY <2>9
    <3>2. PICK j \in 1..H : j > n /\ h[j].kind = "op" /\ h[j].txn = h[d].txn /\ h[j].row = r
      BY <2>9
    <3>3. i \in 1..H /\ i < j
      BY <1>1, <1>2, <3>2
    <3>4. c < j /\ j <= d
      BY <2>7, <2>9, <3>1, <3>2, <3>3
    <3> QED BY <2>1, <3>4
  <2>10. CASE h[c].txn # h[d].txn /\ Behind(k, c) /\ Behind(l, d)
    <3>1. f[k] < f[l]
      <4>1. F < k /\ k \in 1..L /\ l \in 1..L
        BY <1>2, <2>10
      <4> QED BY <1>2, <1>11, <4>1 DEF Opens, Tails
    <3>2. PICK i \in 1..H, j \in 1..H : /\ i < j /\ h[i].kind = "op" /\ h[i].row = r
               /\ h[j].kind = "op" /\ h[j].row = r /\ h[i].txn = h[c].txn /\ h[j].txn = h[d].txn
      BY <2>10, <3>1
    <3>3. c < j /\ j <= d
      BY <2>7, <2>10, <3>2
    <3> QED BY <2>1, <3>3
  <2>11. ~(Behind(k, c) /\ Ahead(l, d))
    BY <1>2, <1>11
  <2> HIDE DEF Ahead, Behind
  <2> QED BY <2>4, <2>5, <2>6, <2>8, <2>9, <2>10, <2>11
<1>12. InCommitOrder(es, 2, h, n, p, r)
  <2>1. \A k \in 2..L : r \in DOMAIN es[k] => \E c \in N : es[k][r] = h[c].txn
    BY <1>9
  <2> HIDE DEF Ahead, Behind
  <2> QED BY <1>4, <1>5, <1>10, <1>11, <2>1 DEF InCommitOrder
<1> QED BY <1>4, <1>12

\* It makes of an empty memory what is shown at p.
LEMMA OpensReplay ==
    ASSUME NEW h, Regular(h), NEW p \in 0..Len(h), NEW n \in 0..p, CleanAt(h, n), NEW recs, NEW F,
           NEW g, NEW f, NEW s, Opens(recs, F, g, f, h, n, p, s)
    PROVE  Made(recs) = Shown(h, p)
<1>1. /\ h \in Seq(Records) /\ EndsLast(h) /\ Told(h)
      /\ \A i \in 1..p : i \in 1..Len(h)
      /\ \A i \in 1..n : i \in 1..Len(h) /\ i \in 1..p
  BY DEF Regular
<1>o. /\ F \in Nat /\ Len(recs) \in Nat /\ F >= 1 /\ F <= Len(recs)
      /\ recs[1].kind = "image" /\ recs[1].txn = s /\ recs[1].rows = Shown(h, n).rows
      /\ \A k \in 1..Len(recs) : \/ k = 1
                                 \/ k \in 2..F
                                 \/ k > F /\ f[k] \in 1..p /\ f[k] > n /\ recs[k] = h[f[k]]
  BY OpensIs
<1>2. PICK L \in Nat, H \in Nat : L = Len(recs) /\ H = Len(h) /\ F \in 1..L /\ p <= H /\ n <= p
                                  /\ n \in Nat /\ L >= 1
  BY <1>o, <1>1
<1>e. Empty.prepared = <<>> /\ DOMAIN Empty.prepared = {}
  BY DEF Empty
<1>3. PICK mem : mem = Empty /\ mem.prepared = <<>> /\ DOMAIN mem.prepared = {}
  BY <1>e
<1>4. ASSUME NEW r \in Row
      PROVE  LastSet(EffectsOf(recs, mem.prepared), r, mem.rows[r]) = RowAt(h, p, r)
  <2>1. PICK es, d : es = EffectsOf(recs, <<>>) /\ d = mem.rows[r]
    OBVIOUS
  <2>2. Len(es) = L /\ es[1] = Effect(recs, <<>>, 1)
    <3>1. 1 \in 1..L
      BY <1>2
    <3> QED BY <1>2, <2>1, <3>1 DEF EffectsOf
  <2>3. InCommitOrder(es, 2, h, n, p, r)
    BY <2>1, OpensOrder
  <2>4. StartsAt(es, 2, h, n, r, d)
    <3>1. recs[1].txn \in Committed(recs)
      BY <1>o, OpensEnds
    <3>2. es[1] = Shown(h, n).rows
      BY <1>o, <2>2, <3>1, ImageEffect
    <3>3. r \in DOMAIN es[1] /\ es[1][r] = RowAt(h, n, r)
      BY <3>2 DEF Shown
    <3> QED BY <1>2, <2>2, <3>3 DEF StartsAt
  <2>5. LastSet(es, r, d) = RowAt(h, p, r)
    <3>1. Settles(es, 2, h, n, p, r, d)
      BY <1>2, <2>2, <2>3, <2>4 DEF Settles
    <3> QED BY <1>1, <3>1, LastCommit
  <2> QED BY <1>3, <2>1, <2>5
<1>5. PICK W : W = NowWaiting(recs, mem.prepared)
  OBVIOUS
<1>6. StillLive(recs, mem.prepared) = {}
  BY <1>3 DEF StillLive
<1>7. ASSUME NEW t
      PROVE  Has(h, p, t, {"commit", "abort"}) <=>
                \/ Has(h, n, t, {"commit", "abort"})
                \/ \E c \in 1..p : c > n /\ IsEnd(h[c]) /\ h[c].txn = t
  <2>1. \A i \in 1..p : i \in 1..n \/ i > n
    OBVIOUS
  <2> QED BY <1>1, <2>1 DEF Has, IsEnd
<1>8. \A t : t \in W <=> /\ \E k \in 1..L : recs[k].txn = t /\ recs[k].kind = "prepare"
                         /\ ~\E c \in 1..p : c > n /\ IsEnd(h[c]) /\ h[c].txn = t
                         /\ t # s
  <2> SUFFICES ASSUME NEW t
               PROVE  t \in W <=> /\ \E k \in 1..L : recs[k].txn = t /\ recs[k].kind = "prepare"
                                  /\ ~\E c \in 1..p : c > n /\ IsEnd(h[c]) /\ h[c].txn = t
                                  /\ t # s
    OBVIOUS
  <2>1. t \in Named(recs, {"prepare"}) <=> \E k \in 1..L : recs[k].txn = t /\ recs[k].kind = "prepare"
    BY <1>2, NamedIs
  <2>2. /\ t \in Committed(recs) <=>
              t = s \/ \E c \in 1..p : c > n /\ h[c].kind = "commit" /\ h[c].txn = t
        /\ t \in Aborted(recs) <=> \E c \in 1..p : c > n /\ h[c].kind = "abort" /\ h[c].txn = t
    BY OpensEnds
  <2> QED BY <1>3, <1>5, <2>1, <2>2 DEF NowWaiting, IsEnd
\* What waits at p has its program among the records.
<1>9. ASSUME NEW t \in WaitingAt(h, p)
      PROVE  \E q \in 1..p : \E a, z : /\ h[q].kind = "prepare" /\ h[q].txn = t
                                       /\ Program(recs, t, a, z) /\ HeldAs(recs[z]) = HeldAs(h[q])
  <2>1. PICK q \in 1..p : h[q].kind = "prepare" /\ h[q].txn = t
    BY DEF WaitingAt, Has
  <2>2. t \in Txn /\ ~Has(h, p, t, {"commit", "abort"})
    BY DEF WaitingAt
  <2>3. t \in WaitingAt(h, n) \/ q > n
    <3> SUFFICES ASSUME q \in 1..n PROVE t \in WaitingAt(h, n)
      BY <1>2
    <3>1. Has(h, n, t, {"prepare"}) /\ ~Has(h, n, t, {"commit", "abort"})
      BY <1>7, <2>1, <2>2 DEF Has
    <3> QED BY <2>2, <3>1 DEF WaitingAt
  <2>4. \E a, z : Program(recs, t, a, z) /\ HeldAs(recs[z]) = HeldAs(h[q])
    BY <2>1, <2>2, <2>3, OpensProgram
  <2> QED BY <2>1, <2>4
<1>10. W = WaitingAt(h, p)
  <2>1. ASSUME NEW t \in W PROVE t \in WaitingAt(h, p)
    <3>1. PICK k \in 1..L : recs[k].txn = t /\ recs[k].kind = "prepare"
      BY <1>8
    <3>2. k # 1
      BY <1>o, <3>1
    <3>3. CASE k \in 2..F
      <4>1. t \in WaitingAt(h, n)
        BY <3>1, <3>3 DEF Opens, Fronts
      <4>2. t \in Txn /\ Has(h, n, t, {"prepare"}) /\ ~Has(h, n, t, {"commit", "abort"})
        BY <4>1 DEF WaitingAt
      <4>3. Has(h, p, t, {"prepare"})
        BY <1>1, <4>2 DEF Has
      <4>4. ~Has(h, p, t, {"commit", "abort"})
        BY <1>7, <1>8, <4>2
      <4> QED BY <4>2, <4>3, <4>4 DEF WaitingAt
    <3>4. CASE f[k] \in 1..p /\ f[k] > n /\ recs[k] = h[f[k]]
      <4>1. PICK q \in 1..p : q > n /\ h[q].txn = t /\ h[q].kind = "prepare"
        BY <3>1, <3>4
      <4>2. t \in Txn
        BY <1>1, <4>1, RecordIs
      <4>3. Has(h, p, t, {"prepare"})
        BY <4>1 DEF Has
      <4>4. ~Has(h, n, t, {"commit", "abort"})
        <5> SUFFICES ASSUME NEW c \in 1..n, h[c].txn = t, IsEnd(h[c]) PROVE FALSE
          BY DEF Has, IsEnd
        <5>1. c \in 1..Len(h) /\ q \in 1..Len(h)
          BY <1>1, <4>1
        <5>2. q <= c
          BY <1>1, <4>1, <5>1, EndIsLast
        <5> QED BY <1>2, <4>1, <5>2
      <4>5. ~Has(h, p, t, {"commit", "abort"})
        BY <1>7, <1>8, <4>4
      <4> QED BY <4>2, <4>3, <4>5 DEF WaitingAt
    <3> QED BY <1>o, <1>2, <3>2, <3>3, <3>4
  <2>2. ASSUME NEW t \in WaitingAt(h, p) PROVE t \in W
    <3>1. ~\E c \in 1..p : c > n /\ IsEnd(h[c]) /\ h[c].txn = t
      <4>1. ~Has(h, p, t, {"commit", "abort"})
        BY DEF WaitingAt
      <4> QED BY <1>7, <4>1
    <3>3. PICK k \in 1..L : recs[k].txn = t /\ recs[k].kind = "prepare"
      <4>1. \E a1, z1 : Program(recs, t, a1, z1)
        BY <1>9
      <4> QED BY <1>2, <4>1 DEF Program
    <3>4. t # s
      <4>1. k # 1
        BY <1>o, <3>3
      <4>2. CASE k \in 2..F
        BY <3>3, <4>2 DEF Opens, Fronts
      <4>3. CASE f[k] \in 1..p /\ f[k] > n /\ recs[k] = h[f[k]]
        <5>1. \A i \in 1..p : i > n => h[i].txn # s
          BY DEF Opens
        <5> QED BY <3>3, <4>3, <5>1
      <4> QED BY <1>o, <1>2, <4>1, <4>2, <4>3
    <3> QED BY <1>8, <3>1, <3>3, <3>4
  <2> QED BY <2>1, <2>2
<1>11. ASSUME NEW t \in WaitingAt(h, p) PROVE [Waiter(recs, t) EXCEPT !.seq = 0] = HeldAt(h, p)[t]
  <2>1. PICK q \in 1..p : \E a, z : /\ h[q].kind = "prepare" /\ h[q].txn = t
                                    /\ Program(recs, t, a, z) /\ HeldAs(recs[z]) = HeldAs(h[q])
    BY <1>9
  <2>2. PICK a, z : /\ h[q].kind = "prepare" /\ h[q].txn = t
                    /\ Program(recs, t, a, z) /\ HeldAs(recs[z]) = HeldAs(h[q])
    BY <2>1
  <2>3. \A k \in 1..L : recs[k].txn = t /\ recs[k].kind = "op" => recs[k].val = t
    <3> SUFFICES ASSUME NEW k \in 1..L, recs[k].txn = t, recs[k].kind = "op" PROVE recs[k].val = t
      OBVIOUS
    <3>1. k # 1
      BY <1>o
    <3>2. CASE k \in 2..F
      BY <3>2 DEF Opens, Fronts
    <3>3. CASE f[k] \in 1..p /\ recs[k] = h[f[k]]
      BY <1>1, <3>3 DEF Told
    <3> QED BY <1>o, <1>2, <3>1, <3>2, <3>3
  <2>4. [Waiter(recs, t) EXCEPT !.seq = 0] = HeldAs(recs[z])
    BY <1>2, <2>2, <2>3, WaiterTells
  <2>5. HeldAt(h, p)[t] = HeldAs(h[q])
    BY <1>11, <2>2, HeldIs
  <2> QED BY <2>2, <2>4, <2>5
<1>12. Strip(Replay(recs, mem)) = Shown(h, p)
  <2>1. PICK S : S = StillLive(recs, mem.prepared) /\ S = {}
    BY <1>6
  <2>2. S \cup W = WaitingAt(h, p)
    BY <1>10, <2>1
  <2>3. \A t \in S : [mem.prepared[t] EXCEPT !.seq = 0] = HeldAt(h, p)[t]
    BY <2>1
  <2>4. \A t \in WaitingAt(h, p) \ S : [Waiter(recs, t) EXCEPT !.seq = 0] = HeldAt(h, p)[t]
    BY <1>11
  <2>5. S = StillLive(recs, mem.prepared)
    BY <2>1
  <2> HIDE <2>1
  <2> QED BY <1>4, <1>5, <2>2, <2>3, <2>4, <2>5, ReplayIs
<1> QED BY <1>3, <1>12, MadeIs

-----------------------------------------------------------------------------
(* Sequences one after the other                                           *)

Before(p, q) == p[1] < q[1] \/ (p[1] = q[1] /\ p[2] < q[2])

\* Place n of Concat(parts) is place b[n] of part a[n], every place of every part
\* is taken, and they are taken in order.
LEMMA ConcatIs ==
    ASSUME NEW S, NEW parts \in Seq(Seq(S))
    PROVE  \E w :
              /\ Concat(parts) \in Seq(S)
              /\ \A n \in 1..Len(Concat(parts)) :
                    /\ w[n][1] \in 1..Len(parts) /\ w[n][2] \in 1..Len(parts[w[n][1]])
                    /\ Concat(parts)[n] = parts[w[n][1]][w[n][2]]
              /\ \A i \in 1..Len(parts) : \A k \in 1..Len(parts[i]) :
                    \E n \in 1..Len(Concat(parts)) : w[n] = <<i, k>>
              /\ \A m, n \in 1..Len(Concat(parts)) : m < n => Before(w[m], w[n])
<1>1. PICK L \in Nat : L = Len(parts)
  OBVIOUS
<1>2. \A i \in 1..L : parts[i] \in Seq(S) /\ Len(parts[i]) \in Nat
  BY <1>1
<1> DEFINE Part(i) == {<<i, k>> : k \in 1..Len(parts[i])}
           at == UNION {Part(i) : i \in 1..L}
           UpTo(p) == {q \in at : q[1] < p[1] \/ (q[1] = p[1] /\ q[2] <= p[2])}
<1>3. \A p : p \in at <=> \E i \in 1..L : \E k \in 1..Len(parts[i]) : p = <<i, k>>
  OBVIOUS
<1>4. IsFiniteSet(at)
  <2>1. ASSUME NEW i \in 1..L PROVE IsFiniteSet(Part(i))
    <3>1. IsFiniteSet(1..Len(parts[i]))
      BY <1>2, FS_Interval
    <3>2. [k \in 1..Len(parts[i]) |-> <<i, k>>] \in Surjection(1..Len(parts[i]), Part(i))
      BY DEF Surjection
    <3> HIDE DEF Part
    <3> QED BY <3>1, <3>2, FS_Surjection
  <2>2. IsFiniteSet({Part(i) : i \in 1..L})
    <3>1. IsFiniteSet(1..L)
      BY FS_Interval
    <3>2. [i \in 1..L |-> Part(i)] \in Surjection(1..L, {Part(i) : i \in 1..L})
      <4> HIDE DEF Part
      <4> QED BY DEF Surjection
    <3> HIDE DEF Part
    <3> QED BY <3>1, <3>2, FS_Surjection
  <2> HIDE DEF Part
  <2>3. \A T \in {Part(i) : i \in 1..L} : IsFiniteSet(T)
    BY <2>1
  <2> QED BY <2>2, <2>3, FS_UNION
<1>5. \A p \in at : /\ p[1] \in 1..L /\ p[2] \in 1..Len(parts[p[1]])
                    /\ p[1] \in Nat /\ p[2] \in Nat /\ p = <<p[1], p[2]>>
  BY <1>2, <1>3
<1>6. PICK C \in Nat : C = Cardinality(at)
  BY <1>4, FS_CardinalityType
<1>7. \A p \in at : p \in UpTo(p) /\ UpTo(p) \in SUBSET at
  BY <1>5
<1>8. \A p, q \in at : Before(p, q) => UpTo(p) \subseteq UpTo(q) /\ q \notin UpTo(p)
  <2> SUFFICES ASSUME NEW p \in at, NEW q \in at, Before(p, q)
               PROVE  UpTo(p) \subseteq UpTo(q) /\ q \notin UpTo(p)
    OBVIOUS
  <2> HIDE DEF at
  <2>1. q \notin UpTo(p)
    BY <1>5 DEF Before
  <2>2. ASSUME NEW x \in UpTo(p) PROVE x \in UpTo(q)
    <3>1. x \in at /\ (x[1] < p[1] \/ (x[1] = p[1] /\ x[2] <= p[2]))
      BY <2>2
    <3>2. /\ x[1] \in Nat /\ x[2] \in Nat /\ p[1] \in Nat /\ p[2] \in Nat
          /\ q[1] \in Nat /\ q[2] \in Nat
      BY <1>5, <3>1
    <3>3. x[1] < q[1] \/ (x[1] = q[1] /\ x[2] <= q[2])
      BY <3>1, <3>2 DEF Before
    <3> QED BY <3>1, <3>3
  <2> QED BY <2>1, <2>2
<1>9. \A p, q \in at : p = q \/ Before(p, q) \/ Before(q, p)
  <2> SUFFICES ASSUME NEW p \in at, NEW q \in at PROVE p = q \/ Before(p, q) \/ Before(q, p)
    OBVIOUS
  <2>1. /\ p[1] \in Nat /\ p[2] \in Nat /\ q[1] \in Nat /\ q[2] \in Nat
        /\ p = <<p[1], p[2]>> /\ q = <<q[1], q[2]>>
    BY <1>5
  <2>2. CASE p[1] = q[1] /\ p[2] = q[2]
    BY <2>1, <2>2
  <2>3. CASE ~(p[1] = q[1] /\ p[2] = q[2])
    BY <2>1, <2>3 DEF Before
  <2> QED BY <2>2, <2>3
<1> DEFINE rank == [p \in at |-> Cardinality(UpTo(p))]
<1>10. \A p \in at : rank[p] \in 1..C
  <2> SUFFICES ASSUME NEW p \in at PROVE rank[p] \in 1..C
    OBVIOUS
  <2>1. PICK U : U = UpTo(p) /\ U \in SUBSET at /\ U # {}
    BY <1>7
  <2>2. IsFiniteSet(U) /\ Cardinality(U) <= C
    BY <1>4, <1>6, <2>1, FS_Subset
  <2>3. Cardinality(U) \in Nat /\ Cardinality(U) # 0
    BY <2>1, <2>2, FS_CardinalityType, FS_EmptySet
  <2>4. rank[p] = Cardinality(U)
    BY <2>1
  <2> QED BY <2>2, <2>3, <2>4
<1>11. \A p, q \in at : Before(p, q) => rank[p] < rank[q]
  <2> SUFFICES ASSUME NEW p \in at, NEW q \in at, Before(p, q) PROVE rank[p] < rank[q]
    OBVIOUS
  <2>1. PICK U, V : U = UpTo(p) /\ V = UpTo(q) /\ U \in SUBSET at /\ V \in SUBSET at
                    /\ U \subseteq V /\ q \in V /\ q \notin U
    <3> HIDE DEF UpTo
    <3> QED BY <1>7, <1>8
  <2>2. IsFiniteSet(U) /\ IsFiniteSet(V)
    BY <1>4, <2>1, FS_Subset
  <2>3. Cardinality(U) <= Cardinality(V) /\ (Cardinality(V) = Cardinality(U) => V = U)
    BY <2>1, <2>2, FS_Subset
  <2>4. Cardinality(U) \in Nat /\ Cardinality(V) \in Nat
    BY <2>2, FS_CardinalityType
  <2>5. rank[p] = Cardinality(U) /\ rank[q] = Cardinality(V)
    BY <2>1
  <2>6. U # V
    BY <2>1
  <2>7. PICK u \in Nat, v \in Nat : u = Cardinality(U) /\ v = Cardinality(V)
    BY <2>4
  <2>8. u <= v /\ u # v
    BY <2>3, <2>6, <2>7
  <2>9. u < v
    BY <2>8
  <2> HIDE DEF rank
  <2> QED BY <2>5, <2>7, <2>9
<1>12. rank \in [at -> 1..C]
  <2>1. rank = [p \in at |-> rank[p]]
    OBVIOUS
  <2> HIDE DEF rank, at
  <2> QED BY <1>10, <2>1
<1>13. \A p, q \in at : rank[p] = rank[q] => p = q
  <2> HIDE DEF rank, at
  <2> QED BY <1>9, <1>10, <1>11
<1>14. \A n \in 1..C : \E p \in at : rank[p] = n
  <2>1. IsFiniteSet(1..C) /\ Cardinality(1..C) = C
    BY FS_Interval
  <2>2. rank \in Injection(at, 1..C)
    <3> HIDE DEF rank, at
    <3> QED BY <1>12, <1>13 DEF Injection, IsInjective
  <2>3. rank \in Surjection(at, 1..C)
    <3> HIDE DEF rank, at
    <3> QED BY <1>6, <2>1, <2>2, FS_Injection
  <2> HIDE DEF rank, at
  <2> QED BY <2>3 DEF Surjection
<1> DEFINE w == [n \in 1..C |-> CHOOSE p \in at : Cardinality(UpTo(p)) = n]
<1>15. \A n \in 1..C : w[n] \in at /\ rank[w[n]] = n
  <2>1. \A p \in at : rank[p] = Cardinality(UpTo(p))
    OBVIOUS
  <2> SUFFICES ASSUME NEW n \in 1..C PROVE w[n] \in at /\ rank[w[n]] = n
    OBVIOUS
  <2>2. \E p \in at : Cardinality(UpTo(p)) = n
    <3> HIDE DEF rank, at, UpTo
    <3> QED BY <1>14, <2>1
  <2>3. w[n] \in at /\ Cardinality(UpTo(w[n])) = n
    <3> HIDE DEF at, UpTo
    <3> QED BY <2>2
  <2> HIDE DEF rank, at, UpTo, w
  <2> QED BY <2>1, <2>3
<1>16. Concat(parts) = [n \in 1..C |-> parts[w[n][1]][w[n][2]]]
  <2>1. Concat(parts) = [n \in 1..Cardinality(at) |->
                            parts[(CHOOSE p \in at : Cardinality(UpTo(p)) = n)[1]]
                                 [(CHOOSE p \in at : Cardinality(UpTo(p)) = n)[2]]]
    BY <1>1 DEF Concat
  <2> HIDE DEF at, UpTo
  <2> QED BY <1>6, <2>1
<1>17. \A n \in 1..C : /\ w[n][1] \in 1..L /\ w[n][2] \in 1..Len(parts[w[n][1]])
                       /\ parts[w[n][1]][w[n][2]] \in S
  <2> HIDE DEF at, w, rank
  <2>1. \A n \in 1..C : w[n][1] \in 1..L /\ w[n][2] \in 1..Len(parts[w[n][1]])
    BY <1>5, <1>15
  <2>2. \A i \in 1..L : \A k \in 1..Len(parts[i]) : parts[i][k] \in S
    BY <1>2
  <2> QED BY <2>1, <2>2
<1> HIDE DEF w
<1>18. Concat(parts) \in Seq(S) /\ Len(Concat(parts)) = C
  BY <1>16, <1>17
<1>19. \A i \in 1..L : \A k \in 1..Len(parts[i]) : \E n \in 1..C : w[n] = <<i, k>>
  <2> SUFFICES ASSUME NEW i \in 1..L, NEW k \in 1..Len(parts[i])
               PROVE  \E n \in 1..C : w[n] = <<i, k>>
    OBVIOUS
  <2>1. <<i, k>> \in at
    BY <1>3
  <2> HIDE DEF at, rank
  <2> QED BY <1>10, <1>13, <1>15, <2>1
<1>20. \A m, n \in 1..C : m < n => Before(w[m], w[n])
  <2> HIDE DEF at, rank
  <2> QED BY <1>9, <1>11, <1>15
<1> QED BY <1>1, <1>16, <1>17, <1>18, <1>19, <1>20

-----------------------------------------------------------------------------
(* The records of an image                                                 *)

\* The records of a prepare: its begin, a write for every row it locks, its prepare.
IsProgram(rs, t, g, ls) ==
    /\ rs \in Seq(Records) /\ Len(rs) >= 2
    /\ rs[1] = PrepareBegin(t) /\ rs[Len(rs)] = Prepare(t, g, ls)
    /\ \A i \in 2..(Len(rs) - 1) : \E r \in ls : rs[i] = Op(t, r, t)
    /\ \A r \in ls : \E i \in 2..(Len(rs) - 1) : rs[i] = Op(t, r, t)

LEMMA RecordsAre ==
    ASSUME NEW t \in Txn
    PROVE  /\ PrepareBegin(t) \in Records /\ PrepareBegin(t).txn = t
           /\ PrepareBegin(t).kind = "begin"
           /\ \A g \in Gid, ls \in SUBSET Row :
                 /\ Prepare(t, g, ls) \in Records /\ Prepare(t, g, ls).txn = t
                 /\ Prepare(t, g, ls).kind = "prepare"
                 /\ Prepare(t, g, ls).gid = g /\ Prepare(t, g, ls).locks = ls
           /\ \A r \in Row :
                 /\ Op(t, r, t) \in Records /\ Op(t, r, t).txn = t /\ Op(t, r, t).kind = "op"
                 /\ Op(t, r, t).row = r /\ Op(t, r, t).val = t
BY DEF PrepareBegin, Prepare, Op, Records

LEMMA ProgramIs ==
    ASSUME NEW t \in Txn, NEW g \in Gid, NEW ls \in SUBSET Row, IsFiniteSet(ls)
    PROVE  IsProgram(PrepareRecords(t, g, ls, [r \in ls |-> t]), t, g, ls)
<1>s. PICK s : s = [r \in ls |-> t]
  OBVIOUS
<1>0. s = [r \in ls |-> t] /\ DOMAIN s = ls /\ \A r \in ls : s[r] = t
  BY <1>s
<1>1. PICK names : /\ names = SetToSeq(ls) /\ names \in Seq(ls)
                   /\ \A x \in ls : \E i \in 1..Len(names) : names[i] = x
  BY Listed
<1>2. PICK n \in Nat : n = Len(names) /\ \A i \in 1..n : names[i] \in ls
  BY <1>1
<1>3. PICK ops : ops = [i \in 1..n |-> Op(t, names[i], s[names[i]])]
  OBVIOUS
<1>4. \A i \in 1..n : ops[i] \in Records /\ ops[i] = Op(t, names[i], t)
  <2>1. \A r \in ls : Op(t, r, t) \in Records
    BY RecordsAre
  <2> QED BY <1>0, <1>2, <1>3, <2>1
<1>5. ops \in Seq(Records) /\ Len(ops) = n
  BY <1>3, <1>4
<1>6. PICK b \in Records, p \in Records : b = PrepareBegin(t) /\ p = Prepare(t, g, ls)
  BY RecordsAre
<1>7. PICK rs : rs = (<<b>> \o ops) \o <<p>>
  OBVIOUS
<1>8. /\ rs \in Seq(Records) /\ Len(rs) = n + 2
      /\ rs[1] = b /\ rs[n + 2] = p /\ \A i \in 1..n : rs[i + 1] = ops[i]
  BY <1>5, <1>6, <1>7
<1>9. PrepareRecords(t, g, ls, s) = rs
  BY <1>0, <1>1, <1>2, <1>3, <1>6, <1>7 DEF PrepareRecords
<1>10. \A i \in 2..(n + 1) : \E r \in ls : rs[i] = Op(t, r, t)
  <2> SUFFICES ASSUME NEW i \in 2..(n + 1) PROVE \E r \in ls : rs[i] = Op(t, r, t)
    OBVIOUS
  <2>1. i - 1 \in 1..n /\ (i - 1) + 1 = i
    OBVIOUS
  <2> QED BY <1>2, <1>4, <1>8, <2>1
<1>11. \A r \in ls : \E i \in 2..(n + 1) : rs[i] = Op(t, r, t)
  <2> SUFFICES ASSUME NEW r \in ls PROVE \E i \in 2..(n + 1) : rs[i] = Op(t, r, t)
    OBVIOUS
  <2>1. PICK i \in 1..n : names[i] = r
    BY <1>1, <1>2
  <2>2. i + 1 \in 2..(n + 1)
    OBVIOUS
  <2> QED BY <1>4, <1>8, <2>1, <2>2
<1>12. (n + 2) - 1 = n + 1 /\ n + 2 >= 2
  OBVIOUS
<1> QED BY <1>0, <1>6, <1>8, <1>9, <1>10, <1>11, <1>12 DEF IsProgram

\* Record k of one.
IsPart(rs, k, t, ls) ==
    /\ rs[k].txn = t /\ rs[k].kind \in {"begin", "op", "prepare"}
    /\ rs[k].kind = "begin" => k = 1
    /\ rs[k].kind = "prepare" => k = Len(rs)
    /\ rs[k].kind = "op" => rs[k].row \in ls /\ rs[k].val = t

LEMMA ProgramRecords ==
    ASSUME NEW t \in Txn, NEW g \in Gid, NEW ls \in SUBSET Row, NEW rs, IsProgram(rs, t, g, ls)
    PROVE  \A k \in 1..Len(rs) : IsPart(rs, k, t, ls)
<1> SUFFICES ASSUME NEW k \in 1..Len(rs) PROVE IsPart(rs, k, t, ls)
  OBVIOUS
<1>1. PICK n \in Nat : n = Len(rs) /\ n >= 2
  BY DEF IsProgram
<1>2. k = 1 \/ k = n \/ k \in 2..(n - 1)
  BY <1>1
<1>3. CASE k = 1
  BY <1>3, RecordsAre DEF IsProgram, IsPart
<1>4. CASE k = n
  <2>1. rs[k] = Prepare(t, g, ls)
    BY <1>1, <1>4 DEF IsProgram
  <2>2. rs[k].txn = t /\ rs[k].kind = "prepare"
    BY <2>1, RecordsAre
  <2> QED BY <1>1, <1>4, <2>2 DEF IsPart
<1>5. CASE k \in 2..(n - 1)
  <2>1. PICK r \in ls : rs[k] = Op(t, r, t)
    BY <1>1, <1>5 DEF IsProgram
  <2>2. rs[k].txn = t /\ rs[k].kind = "op" /\ rs[k].row = r /\ rs[k].val = t
    BY <2>1, RecordsAre
  <2> QED BY <2>2 DEF IsPart
<1> QED BY <1>2, <1>3, <1>4, <1>5

\* A transaction that waits was given an id and a name, and locks finitely many rows.
IsWaiter(held, t, g, ls) ==
    /\ t \in Txn /\ g \in Gid /\ ls \in SUBSET Row /\ IsFiniteSet(ls)
    /\ held.gid = g /\ held.locks = ls
    /\ held.sets = [r \in ls |-> t]
    /\ held = HeldAs(Prepare(t, g, ls))

LEMMA WaiterIs ==
    ASSUME NEW h, Regular(h), NEW n \in 0..Len(h), NEW t \in WaitingAt(h, n)
    PROVE  \E g, ls : IsWaiter(HeldAt(h, n)[t], t, g, ls)
<1>1. PICK q \in 1..n : \E b \in 1..Len(h) :
              /\ h[q].kind = "prepare" /\ h[q].txn = t /\ q \in 1..Len(h)
              /\ Program(h, t, b, q) /\ HeldAt(h, n)[t] = HeldAs(h[q])
  BY WaitingIs
<1>2. PICK b \in 1..Len(h) : Program(h, t, b, q)
  BY <1>1
<1>3. h \in Seq(Records) /\ Len(h) \in Nat
  BY DEF Regular
<1>4. PICK rec : rec = h[q]
  OBVIOUS
<1>5. rec \in Records /\ rec.kind = "prepare" /\ rec.txn = t
  BY <1>1, <1>3, <1>4
<1>6. rec.gid \in Gid /\ rec.locks \in SUBSET Row /\ t \in Txn
  BY <1>5 DEF Records
<1>7. PICK g \in Gid, ls \in SUBSET Row : g = rec.gid /\ ls = rec.locks
  BY <1>6
<1>8. IsFiniteSet(ls)
  <2> DEFINE at == {i \in 1..Len(h) : h[i].kind = "op" /\ h[i].txn = t}
             rowOf == [i \in at |-> h[i].row]
             rows == {h[i].row : i \in at}
  <2>1. IsFiniteSet(at)
    <3>1. IsFiniteSet(1..Len(h))
      BY <1>3, FS_Interval
    <3> QED BY <3>1, FS_Subset
  <2>2. rowOf \in Surjection(at, rows)
    BY DEF Surjection
  <2>3. IsFiniteSet(rows)
    <3> HIDE DEF rowOf, rows, at
    <3> QED BY <2>1, <2>2, FS_Surjection
  <2>4. ls \subseteq rows
    BY <1>2, <1>4, <1>7 DEF Program
  <2> QED BY <2>3, <2>4, FS_Subset
<1>9. HeldAt(h, n)[t] = HeldAs(rec)
  BY <1>1, <1>4
<1>10. /\ HeldAs(rec).gid = g /\ HeldAs(rec).locks = ls
       /\ HeldAs(rec).sets = [r \in ls |-> t]
  BY <1>5, <1>7, HeldFields
<1>11. HeldAs(rec) = HeldAs(Prepare(t, g, ls))
  <2>1. PICK new : new = Prepare(t, g, ls)
    OBVIOUS
  <2>2. new.txn = rec.txn /\ new.gid = rec.gid /\ new.locks = rec.locks
    BY <1>5, <1>6, <1>7, <2>1, RecordsAre
  <2>3. HeldAs(new) = HeldAs(rec)
    BY <2>2 DEF HeldAs
  <2> QED BY <2>1, <2>3
<1>12. IsWaiter(HeldAs(rec), t, g, ls)
  BY <1>6, <1>8, <1>10, <1>11 DEF IsWaiter
<1> QED BY <1>9, <1>12

\* The records of c are the programs of what waits at n; those of t are from a to z.
CarriesOne(c, h, n, t, a, z) ==
    /\ a \in 1..Len(c) /\ z \in 1..Len(c)
    /\ a < z /\ c[a].txn = t /\ c[a].kind = "begin"
    /\ c[z].txn = t /\ c[z].kind = "prepare" /\ HeldAs(c[z]) = HeldAt(h, n)[t]
    /\ \A r \in c[z].locks : \E i \in 1..Len(c) :
          a < i /\ i < z /\ c[i].txn = t /\ c[i].kind = "op" /\ c[i].row = r
    /\ \A i \in 1..Len(c) : c[i].txn = t => /\ c[i].kind = "op" => c[i].row \in c[z].locks
                                            /\ c[i].kind = "begin" => i = a
                                            /\ c[i].kind = "prepare" => i = z
Carries(c, h, n) ==
    /\ c \in Seq(Records)
    /\ \A k \in 1..Len(c) : /\ c[k].txn \in WaitingAt(h, n)
                            /\ c[k].kind \in {"begin", "op", "prepare"}
                            /\ c[k].kind = "op" => c[k].val = c[k].txn
    /\ \A t \in WaitingAt(h, n) : \E a, z : CarriesOne(c, h, n, t, a, z)

LEMMA ImageIs ==
    ASSUME NEW h, Regular(h), NEW n \in 0..Len(h), NEW img, img.prepared = HeldAt(h, n)
    PROVE  \E c : Carries(c, h, n) /\ ImageRecords(img) = <<Image(img.stamp, img.rows)>> \o c
<1>1. PICK W, P : W = WaitingAt(h, n) /\ P = HeldAt(h, n) /\ DOMAIN P = W
  BY DEF HeldAt
<1>2. W \subseteq Txn /\ IsFiniteSet(W)
  <2>1. W \subseteq Txn
    BY <1>1 DEF WaitingAt
  <2>2. IsFiniteSet(Txn)
    BY StandbyAssumption, FS_Interval DEF Txn
  <2> QED BY <2>1, <2>2, FS_Subset
<1>3. PICK ts : /\ ts = SetToSeq(W) /\ ts \in Seq(W)
                /\ \A x \in W : \E i \in 1..Len(ts) : ts[i] = x
                /\ \A i, j \in 1..Len(ts) : ts[i] = ts[j] => i = j
  BY <1>2, Listed
<1>4. PICK L \in Nat : /\ L = Len(ts) /\ \A i \in 1..L : ts[i] \in W
                      /\ \A i, j \in 1..L : ts[i] = ts[j] => i = j
  BY <1>3
<1>5. PICK parts : parts = [i \in 1..L |-> PrepareRecords(ts[i], P[ts[i]].gid, P[ts[i]].locks, P[ts[i]].sets)]
  OBVIOUS
<1>6. ASSUME NEW i \in 1..L
      PROVE  \E g \in Gid, ls \in SUBSET Row :
                /\ IsProgram(parts[i], ts[i], g, ls) /\ ts[i] \in Txn
                /\ P[ts[i]] = HeldAs(Prepare(ts[i], g, ls))
  <2>1. PICK t : t = ts[i] /\ t \in W
    BY <1>4
  <2>2. PICK g \in Gid, ls \in SUBSET Row :
              /\ t \in Txn /\ IsFiniteSet(ls) /\ P[t].gid = g /\ P[t].locks = ls
              /\ P[t].sets = [r \in ls |-> t] /\ P[t] = HeldAs(Prepare(t, g, ls))
    <3>1. t \in WaitingAt(h, n)
      BY <1>1, <2>1
    <3>2. PICK g, ls : IsWaiter(HeldAt(h, n)[t], t, g, ls)
      BY <3>1, WaiterIs
    <3> QED BY <1>1, <3>2 DEF IsWaiter
  <2>3. parts[i] = PrepareRecords(t, g, ls, [r \in ls |-> t])
    BY <1>5, <2>1, <2>2
  <2>4. IsProgram(parts[i], t, g, ls)
    BY <2>2, <2>3, ProgramIs
  <2> QED BY <2>1, <2>2, <2>4
<1>7. parts \in Seq(Seq(Records)) /\ Len(parts) = L
  <2>1. \A i \in 1..L : parts[i] \in Seq(Records)
    BY <1>6 DEF IsProgram
  <2> QED BY <1>5, <2>1
<1>8. PICK c : c = Concat(parts)
  OBVIOUS
<1>9. ImageRecords(img) = <<Image(img.stamp, img.rows)>> \o c
  BY <1>1, <1>3, <1>4, <1>5, <1>8 DEF ImageRecords
<1>10. PICK w : /\ c \in Seq(Records)
                /\ \A m \in 1..Len(c) :
                     /\ w[m][1] \in 1..L /\ w[m][2] \in 1..Len(parts[w[m][1]])
                     /\ c[m] = parts[w[m][1]][w[m][2]]
                /\ \A i \in 1..L : \A k \in 1..Len(parts[i]) : \E m \in 1..Len(c) : w[m] = <<i, k>>
                /\ \A m, x \in 1..Len(c) : m < x => Before(w[m], w[x])
  <2>1. \E w :
              /\ Concat(parts) \in Seq(Records)
              /\ \A m \in 1..Len(Concat(parts)) :
                    /\ w[m][1] \in 1..Len(parts) /\ w[m][2] \in 1..Len(parts[w[m][1]])
                    /\ Concat(parts)[m] = parts[w[m][1]][w[m][2]]
              /\ \A i \in 1..Len(parts) : \A k \in 1..Len(parts[i]) :
                    \E m \in 1..Len(Concat(parts)) : w[m] = <<i, k>>
              /\ \A m, x \in 1..Len(Concat(parts)) : m < x => Before(w[m], w[x])
    BY <1>7, ConcatIs, Zenon
  <2>2. Len(parts) = L /\ Concat(parts) = c
    BY <1>7, <1>8
  <2> QED BY <2>1, <2>2, Zenon
<1>11. PICK C \in Nat : C = Len(c)
  BY <1>10
\* The place of a record is that of its part, and in it.
<1>12. ASSUME NEW m \in 1..C, NEW x \in 1..C, w[x][1] = w[m][1], w[m][2] < w[x][2] PROVE m < x
  <2>1. PICK i, k \in Nat, l \in Nat : w[x][1] = i /\ w[m][1] = i /\ i \in Nat /\ k = w[m][2] /\ l = w[x][2]
    <3>1. /\ w[x][1] \in Nat /\ w[m][2] \in Int /\ w[x][2] \in Int /\ w[m][2] >= 1 /\ w[x][2] >= 1
      BY <1>10, <1>11
    <3> QED BY <1>12, <3>1
  <2>2. k < l
    BY <1>12, <2>1
  <2>3. ~Before(w[x], w[m])
    BY <2>1, <2>2 DEF Before
  <2>4. m # x
    BY <2>1, <2>2
  <2>5. ~(x < m)
    BY <1>10, <1>11, <2>3
  <2> QED BY <2>4, <2>5
<1>13. ASSUME NEW m \in 1..C, NEW x \in 1..C, w[x][1] = w[m][1], w[m][2] = w[x][2] PROVE m = x
  <2>1. w[x][1] \in Nat /\ w[m][2] \in Int
    BY <1>10, <1>11
  <2>2. ~Before(w[x], w[m]) /\ ~Before(w[m], w[x])
    BY <1>13, <2>1 DEF Before
  <2>3. ~(x < m) /\ ~(m < x)
    BY <1>10, <1>11, <2>2
  <2> QED BY <2>3
<1>14. ASSUME NEW m \in 1..C
       PROVE  \E i \in 1..L : \E k \in 1..Len(parts[i]) :
                 i = w[m][1] /\ k = w[m][2] /\ c[m] = parts[i][k]
  BY <1>10, <1>11
<1>15. ASSUME NEW m \in 1..C
       PROVE  /\ c[m].txn \in W /\ c[m].kind \in {"begin", "op", "prepare"}
              /\ c[m].kind = "op" => c[m].val = c[m].txn
  <2>1. PICK i \in 1..L : \E k \in 1..Len(parts[i]) : c[m] = parts[i][k]
    BY <1>14
  <2>2. PICK k \in 1..Len(parts[i]) : c[m] = parts[i][k]
    BY <2>1
  <2>3. PICK g \in Gid, ls \in SUBSET Row : IsProgram(parts[i], ts[i], g, ls) /\ ts[i] \in Txn
    BY <1>6
  <2>4. /\ c[m].txn = ts[i] /\ c[m].kind \in {"begin", "op", "prepare"}
        /\ c[m].kind = "op" => c[m].val = ts[i]
    <3>1. PICK rs, u : rs = parts[i] /\ u = ts[i]
      OBVIOUS
    <3>2. IsProgram(rs, u, g, ls) /\ u \in Txn /\ k \in 1..Len(rs)
      BY <2>3, <3>1
    <3>3. /\ rs[k].txn = u /\ rs[k].kind \in {"begin", "op", "prepare"}
          /\ rs[k].kind = "op" => rs[k].val = u
      <4>1. IsPart(rs, k, u, ls)
        BY <2>3, <3>2, ProgramRecords
      <4> QED BY <4>1 DEF IsPart
    <3> QED BY <2>2, <3>1, <3>3
  <2> QED BY <1>4, <2>4
<1>16. ASSUME NEW t \in W PROVE \E a, z : CarriesOne(c, h, n, t, a, z)
  <2>1. PICK j \in 1..L : ts[j] = t
    BY <1>3, <1>4
  <2>2. PICK g \in Gid, ls \in SUBSET Row : /\ IsProgram(parts[j], t, g, ls) /\ t \in Txn
                                            /\ P[t] = HeldAs(Prepare(t, g, ls))
    BY <1>6, <2>1
  <2>r. PICK rs : rs = parts[j]
    OBVIOUS
  <2>3. PICK K \in Nat : rs = parts[j] /\ K = Len(rs) /\ K >= 2
    BY <2>2, <2>r DEF IsProgram
  <2>4. \A k \in 1..K : \E m \in 1..C : w[m][1] = j /\ w[m][2] = k /\ c[m] = rs[k]
    <3> SUFFICES ASSUME NEW k \in 1..K PROVE \E m \in 1..C : w[m][1] = j /\ w[m][2] = k /\ c[m] = rs[k]
      OBVIOUS
    <3>1. PICK m \in 1..C : w[m] = <<j, k>>
      BY <1>10, <1>11, <2>3
    <3>2. w[m][1] = j /\ w[m][2] = k
      BY <3>1
    <3> QED BY <1>10, <1>11, <2>3, <3>2
  <2>5. 1 \in 1..K /\ K \in 1..K
    BY <2>3
  <2>6. PICK a \in 1..C : w[a][1] = j /\ w[a][2] = 1 /\ c[a] = rs[1]
    BY <2>4, <2>5
  <2>7. PICK z \in 1..C : w[z][1] = j /\ w[z][2] = K /\ c[z] = rs[K]
    BY <2>4, <2>5
  <2>8. /\ c[a].txn = t /\ c[a].kind = "begin"
        /\ c[z].txn = t /\ c[z].kind = "prepare" /\ c[z].locks = ls /\ c[z] = Prepare(t, g, ls)
    BY <2>2, <2>3, <2>6, <2>7, RecordsAre DEF IsProgram
  <2>9. a < z
    <3>1. w[z][1] = w[a][1] /\ w[a][2] < w[z][2]
      BY <2>3, <2>6, <2>7
    <3> QED BY <1>12, <3>1
  <2>10. ASSUME NEW r \in ls
         PROVE  \E i \in 1..C : a < i /\ i < z /\ c[i].txn = t /\ c[i].kind = "op" /\ c[i].row = r
    <3>1. PICK k \in 2..(K - 1) : rs[k] = Op(t, r, t)
      BY <2>2, <2>3, <2>10 DEF IsProgram
    <3>2. k \in 1..K /\ 1 < k /\ k < K
      BY <2>3
    <3>3. PICK i \in 1..C : w[i][1] = j /\ w[i][2] = k /\ c[i] = rs[k]
      BY <2>4, <3>2
    <3>4. a < i
      BY <1>12, <2>6, <3>2, <3>3
    <3>5. i < z
      BY <1>12, <2>7, <3>2, <3>3
    <3>6. c[i].txn = t /\ c[i].kind = "op" /\ c[i].row = r
      BY <2>2, <3>1, <3>3, RecordsAre
    <3> QED BY <3>4, <3>5, <3>6
  <2>11. ASSUME NEW i \in 1..C, c[i].txn = t
         PROVE  /\ c[i].kind = "op" => c[i].row \in ls
                /\ c[i].kind = "begin" => i = a
                /\ c[i].kind = "prepare" => i = z
    <3>1. PICK l \in 1..L : \E k \in 1..Len(parts[l]) : l = w[i][1] /\ k = w[i][2] /\ c[i] = parts[l][k]
      BY <1>14
    <3>2. PICK k \in 1..Len(parts[l]) : l = w[i][1] /\ k = w[i][2] /\ c[i] = parts[l][k]
      BY <3>1
    <3>3. PICK g1 \in Gid, ls1 \in SUBSET Row : IsProgram(parts[l], ts[l], g1, ls1) /\ ts[l] \in Txn
      BY <1>6
    <3>4. parts[l][k].txn = ts[l]
      <4>1. PICK ps, u : ps = parts[l] /\ u = ts[l]
        OBVIOUS
      <4>2. IsProgram(ps, u, g1, ls1) /\ u \in Txn /\ k \in 1..Len(ps)
        BY <3>3, <4>1
      <4>3. ps[k].txn = u
        <5>1. IsPart(ps, k, u, ls1)
          BY <3>3, <4>2, ProgramRecords
        <5> QED BY <5>1 DEF IsPart
      <4> QED BY <4>1, <4>3
    <3>5. l = j
      <4>1. ts[l] = ts[j]
        BY <2>1, <2>11, <3>2, <3>4
      <4> QED BY <1>4, <4>1
    <3>6. k \in 1..Len(rs) /\ c[i] = rs[k] /\ w[i][1] = j /\ w[i][2] = k
      BY <2>3, <3>2, <3>5
    <3>7. /\ c[i].kind = "op" => c[i].row \in ls
          /\ c[i].kind = "begin" => k = 1
          /\ c[i].kind = "prepare" => k = K
      <4>1. IsProgram(rs, t, g, ls) /\ t \in Txn
        BY <2>2, <2>3
      <4>2. /\ rs[k].kind = "begin" => k = 1
            /\ rs[k].kind = "prepare" => k = Len(rs)
            /\ rs[k].kind = "op" => rs[k].row \in ls
        <5>1. IsPart(rs, k, t, ls)
          BY <2>2, <3>6, <4>1, ProgramRecords
        <5> QED BY <5>1 DEF IsPart
      <4> QED BY <2>3, <3>6, <4>2
    <3>8. (k = 1 => i = a) /\ (k = K => i = z)
      BY <1>13, <2>6, <2>7, <3>6
    <3> QED BY <3>7, <3>8
  <2>12. HeldAs(c[z]) = HeldAt(h, n)[t]
    BY <1>1, <2>2, <2>8
  <2>13. CarriesOne(c, h, n, t, a, z)
    BY <1>11, <2>8, <2>9, <2>10, <2>11, <2>12 DEF CarriesOne
  <2> QED BY <2>13
<1>17. Carries(c, h, n)
  BY <1>1, <1>10, <1>11, <1>15, <1>16 DEF Carries
<1> QED BY <1>9, <1>17

LEMMA FrontsAre ==
    ASSUME NEW h, NEW n, NEW s, s \notin WaitingAt(h, n), NEW c, Carries(c, h, n), NEW recs,
           recs[1] = Image(s, Shown(h, n).rows), \A k \in 1..Len(c) : recs[k + 1] = c[k]
    PROVE  Fronts(recs, Len(c) + 1, h, n, s)
<1>1. PICK C \in Nat, F \in Nat : C = Len(c) /\ F = C + 1
  BY DEF Carries
<1>2. \A k \in 2..F : k - 1 \in 1..C /\ recs[k] = c[k - 1]
  <2>1. \A k \in 2..F : k - 1 \in 1..C /\ (k - 1) + 1 = k
    BY <1>1
  <2> QED BY <1>1, <2>1
<1>3. \A k \in 1..C : k + 1 \in 2..F /\ recs[k + 1] = c[k]
  BY <1>1
<1>4. \A k \in 2..F : /\ recs[k].txn \in WaitingAt(h, n)
                      /\ recs[k].kind \in {"begin", "op", "prepare"}
                      /\ recs[k].kind = "op" => recs[k].val = recs[k].txn
  BY <1>1, <1>2 DEF Carries
<1>5. ASSUME NEW t \in WaitingAt(h, n) PROVE \E a, z : FrontOf(recs, F, h, n, t, a, z)
  <2>1. PICK a, z : CarriesOne(c, h, n, t, a, z)
    BY DEF Carries
  <2>2. /\ a \in 1..C /\ z \in 1..C /\ a < z
        /\ c[a].txn = t /\ c[a].kind = "begin"
        /\ c[z].txn = t /\ c[z].kind = "prepare" /\ HeldAs(c[z]) = HeldAt(h, n)[t]
        /\ \A r \in c[z].locks : \E i \in 1..C :
              a < i /\ i < z /\ c[i].txn = t /\ c[i].kind = "op" /\ c[i].row = r
        /\ \A i \in 1..C : c[i].txn = t => /\ c[i].kind = "op" => c[i].row \in c[z].locks
                                           /\ c[i].kind = "begin" => i = a
                                           /\ c[i].kind = "prepare" => i = z
    BY <1>1, <2>1 DEF CarriesOne
  <2>3. PICK b, y : b = a + 1 /\ y = z + 1
    OBVIOUS
  <2>4. b \in 2..F /\ y \in 2..F /\ b < y /\ recs[b] = c[a] /\ recs[y] = c[z]
    BY <1>1, <1>3, <2>2, <2>3
  <2>5. ASSUME NEW r \in recs[y].locks
        PROVE  \E i \in 2..F : b < i /\ i < y /\ recs[i].txn = t /\ recs[i].kind = "op" /\ recs[i].row = r
    <3>1. PICK i \in 1..C : a < i /\ i < z /\ c[i].txn = t /\ c[i].kind = "op" /\ c[i].row = r
      BY <2>2, <2>4
    <3>2. i + 1 \in 2..F /\ b < i + 1 /\ i + 1 < y /\ recs[i + 1] = c[i]
      BY <1>3, <2>2, <2>3, <3>1
    <3> QED BY <3>1, <3>2
  <2>6. ASSUME NEW i \in 2..F, recs[i].txn = t
        PROVE  /\ recs[i].kind = "op" => recs[i].row \in recs[y].locks
               /\ recs[i].kind = "begin" => i = b
               /\ recs[i].kind = "prepare" => i = y
    <3>1. PICK j \in 1..C : j = i - 1 /\ recs[i] = c[j]
      BY <1>2
    <3>2. /\ c[j].kind = "op" => c[j].row \in c[z].locks
          /\ c[j].kind = "begin" => j = a
          /\ c[j].kind = "prepare" => j = z
      BY <2>2, <2>6, <3>1
    <3>3. (j = a => i = b) /\ (j = z => i = y)
      BY <2>3, <3>1
    <3> QED BY <2>4, <3>1, <3>2, <3>3
  <2>7. FrontOf(recs, F, h, n, t, b, y)
    BY <2>2, <2>4, <2>5, <2>6 DEF FrontOf
  <2> QED BY <2>7
<1>6. F \in Nat \ {0}
  BY <1>1
<1>7. Fronts(recs, F, h, n, s)
  BY <1>4, <1>5, <1>6 DEF Fronts
<1> QED BY <1>1, <1>7

LEMMA TailsAre ==
    ASSUME NEW h, NEW p \in Nat, NEW n \in 0..p, NEW F \in Nat, NEW recs,
           Len(recs) = F + (p - n), \A k \in 1..(p - n) : recs[F + k] = h[n + k]
    PROVE  \E g, f : Tails(recs, F, h, n, p, g, f)
<1>1. PICK L \in Nat : L = Len(recs) /\ F <= L /\ L = F + (p - n) /\ n \in Nat /\ n <= p
  OBVIOUS
<1>g. PICK g : g = [i \in 1..p |-> F + (i - n)]
  OBVIOUS
<1>f. PICK f : f = [k \in 1..L |-> n + (k - F)]
  OBVIOUS
<1>2. ASSUME NEW k \in 1..L, k > F PROVE f[k] \in 1..p /\ f[k] > n /\ recs[k] = h[f[k]]
  <2>1. k - F \in 1..(p - n) /\ F + (k - F) = k /\ n + (k - F) \in 1..p /\ n + (k - F) > n
    BY <1>1, <1>2
  <2>2. f[k] = n + (k - F)
    BY <1>f
  <2> QED BY <2>1, <2>2
<1>3. ASSUME NEW i \in 1..p, i > n
      PROVE  g[i] \in 1..L /\ g[i] > F /\ f[g[i]] = i /\ recs[g[i]] = h[i]
  <2>1. PICK k \in 1..L : k = F + (i - n) /\ k > F /\ n + (k - F) = i
    BY <1>1, <1>3
  <2>2. g[i] = k /\ f[k] = i
    BY <1>f, <1>g, <2>1
  <2> QED BY <1>2, <2>1, <2>2
<1>4. \A k, l \in 1..L : F < k /\ k < l => f[k] < f[l]
  BY <1>1, <1>f
<1>5. \A i, j \in 1..p : n < i /\ i < j => g[i] < g[j]
  BY <1>1, <1>g
<1>6. Tails(recs, F, h, n, p, g, f)
  BY <1>1, <1>2, <1>3, <1>4, <1>5 DEF Tails
<1> QED BY <1>6

LEMMA Joined ==
    ASSUME NEW T, NEW a \in Seq(T), NEW b \in Seq(T)
    PROVE  /\ Len(a \o b) = Len(a) + Len(b) /\ a \o b \in Seq(T)
           /\ \A k \in 1..Len(a) : (a \o b)[k] = a[k]
           /\ \A k \in 1..Len(b) : (a \o b)[Len(a) + k] = b[k]
<1>1. PICK A \in Nat, B \in Nat : A = Len(a) /\ B = Len(b)
  OBVIOUS
<1>2. a \o b \in Seq(T) /\ Len(a \o b) = A + B
  BY <1>1
<1>3. \A k \in 1..(A + B) : (a \o b)[k] = IF k <= A THEN a[k] ELSE b[k - A]
  BY <1>1
<1>4. \A k \in 1..A : k \in 1..(A + B) /\ k <= A
  OBVIOUS
<1>5. \A k \in 1..B : A + k \in 1..(A + B) /\ ~(A + k <= A) /\ (A + k) - A = k
  OBVIOUS
<1>6. \A k \in 1..B : (a \o b)[A + k] = b[k]
  BY <1>3, <1>5
<1> QED BY <1>1, <1>2, <1>3, <1>4, <1>6

\* One record, those of c, and those of h from n to p.
IsDisk(recs, im, c, h, n, p) ==
    /\ Len(recs) = (Len(c) + 1) + (p - n)
    /\ recs[1] = im /\ \A k \in 1..Len(c) : recs[k + 1] = c[k]
    /\ \A k \in 1..(p - n) : recs[(Len(c) + 1) + k] = h[n + k]

LEMMA DiskIs ==
    ASSUME NEW h \in Seq(Records), NEW p \in 0..Len(h), NEW n \in 0..p, NEW im,
           NEW c \in Seq(Records), NEW recs, recs = (<<im>> \o c) \o SubSeq(h, n + 1, p)
    PROVE  IsDisk(recs, im, c, h, n, p)
<1>1. p \in Nat /\ n \in Nat /\ n <= p /\ p <= Len(h)
  OBVIOUS
<1>2. PICK T : T = Records \cup {im}
  OBVIOUS
<1>3. im \in T /\ c \in Seq(T) /\ h \in Seq(T) /\ Len(c) \in Nat
  BY <1>2
<1>4. PICK F \in Nat, m \in Nat : F = Len(c) + 1 /\ m = p - n
  BY <1>1, <1>3
<1>4a. PICK front, tail : front = <<im>> \o c /\ tail = SubSeq(h, n + 1, p)
  OBVIOUS
<1>5a. /\ front \in Seq(T) /\ Len(front) = F /\ front[1] = im
       /\ \A k \in 1..Len(c) : front[k + 1] = c[k]
  BY <1>3, <1>4, <1>4a
<1>6a. /\ tail \in Seq(T) /\ Len(tail) = p - n
       /\ \A k \in 1..(p - n) : tail[k] = h[n + k]
  BY <1>1, <1>3, <1>4a
<1>5. PICK a \in Seq(T), b \in Seq(T) : a = front /\ b = tail
  BY <1>5a, <1>6a
<1>7. recs = a \o b
  BY <1>4a, <1>5
<1>8. /\ Len(a \o b) = Len(a) + Len(b)
      /\ \A k \in 1..Len(a) : (a \o b)[k] = a[k]
      /\ \A k \in 1..Len(b) : (a \o b)[Len(a) + k] = b[k]
  BY Joined
<1>9. /\ Len(recs) = F + m
      /\ \A k \in 1..F : recs[k] = front[k]
      /\ \A k \in 1..m : recs[F + k] = tail[k]
  <2>1. Len(a) = F /\ Len(b) = m
    BY <1>4, <1>5, <1>5a, <1>6a
  <2> QED BY <1>5, <1>7, <1>8, <2>1
<1>10. 1 \in 1..F /\ \A k \in 1..Len(c) : k + 1 \in 1..F
  BY <1>3, <1>4
<1> QED BY <1>4, <1>5a, <1>6a, <1>9, <1>10 DEF IsDisk

\* What a standby makes of its image and its log when it opens.
LEMMA OpenIs ==
    ASSUME NEW h, Regular(h), NEW p \in 0..Len(h), NEW n \in 0..p, CleanAt(h, n), NEW img,
           img.rows = Shown(h, n).rows, img.prepared = HeldAt(h, n),
           img.stamp \notin WaitingAt(h, n), \A i \in 1..p : i > n => h[i].txn # img.stamp
    PROVE  Made(ImageRecords(img) \o SubSeq(h, n + 1, p)) = Shown(h, p)
<1>1. h \in Seq(Records) /\ p \in Nat /\ n \in Nat /\ n <= p /\ p <= Len(h) /\ n \in 0..Len(h)
  BY DEF Regular
<1>2. PICK c : Carries(c, h, n) /\ ImageRecords(img) = <<Image(img.stamp, img.rows)>> \o c
  BY <1>1, ImageIs
<1>3. PICK im, recs : /\ im = Image(img.stamp, img.rows)
                      /\ recs = (<<im>> \o c) \o SubSeq(h, n + 1, p)
  OBVIOUS
<1>4. c \in Seq(Records)
  BY <1>2 DEF Carries
<1>5. PICK F \in Nat : F = Len(c) + 1
  BY <1>4
<1>6. /\ Len(recs) = F + (p - n)
      /\ recs[1] = im /\ \A k \in 1..Len(c) : recs[k + 1] = c[k]
      /\ \A k \in 1..(p - n) : recs[F + k] = h[n + k]
  <2>1. IsDisk(recs, im, c, h, n, p)
    <3>1. recs = (<<im>> \o c) \o SubSeq(h, n + 1, p)
      BY <1>3
    <3> QED BY <1>1, <1>4, <3>1, DiskIs
  <2> QED BY <1>5, <2>1 DEF IsDisk
<1>12. Fronts(recs, F, h, n, img.stamp)
  <2>1. recs[1] = Image(img.stamp, Shown(h, n).rows)
    BY <1>3, <1>6
  <2> QED BY <1>2, <1>5, <1>6, <2>1, FrontsAre
<1>13. PICK g, f : Tails(recs, F, h, n, p, g, f)
  BY <1>1, <1>6, TailsAre
<1>14. Opens(recs, F, g, f, h, n, p, img.stamp)
  BY <1>12, <1>13 DEF Opens
<1>15. Made(recs) = Shown(h, p)
  BY <1>14, OpensReplay
<1> QED BY <1>2, <1>3, <1>15

-----------------------------------------------------------------------------
(* A history that grows                                                    *)

\* g is h, followed by records of t; its end comes last.
Adds(h, g, t) ==
    /\ h \in Seq(Records) /\ g \in Seq(Records) /\ Len(h) <= Len(g)
    /\ \A i \in 1..Len(h) : g[i] = h[i]
    /\ \A i \in 1..Len(g) : i > Len(h) => /\ g[i].txn = t
                                          /\ IsEnd(g[i]) => i = Len(g)
                                          /\ g[i].kind = "op" => g[i].val = t

LEMMA OldOrNew ==
    ASSUME NEW h, NEW g, NEW t, Adds(h, g, t)
    PROVE  /\ Len(h) \in Nat /\ Len(g) \in Nat /\ Len(h) <= Len(g)
           /\ \A i \in 1..Len(h) : i \in 1..Len(g) /\ g[i] = h[i]
           /\ \A i \in 1..Len(g) : i \in 1..Len(h) \/ (i > Len(h) /\ g[i].txn = t)
<1>1. Len(h) \in Nat /\ Len(g) \in Nat /\ Len(h) <= Len(g)
  BY DEF Adds
<1> QED BY <1>1 DEF Adds

LEMMA HasStays ==
    ASSUME NEW h, NEW g, NEW t, Adds(h, g, t), NEW K
    PROVE  /\ \A u : Has(h, Len(h), u, K) => Has(g, Len(g), u, K)
           /\ \A u : u # t /\ Has(g, Len(g), u, K) => Has(h, Len(h), u, K)
           /\ \A u : Has(g, Len(g), u, K) =>
                 \/ Has(h, Len(h), u, K)
                 \/ \E i \in 1..Len(g) : i > Len(h) /\ g[i].kind \in K
BY OldOrNew DEF Has

LEMMA ProgramStays ==
    ASSUME NEW h, NEW g, NEW t, Adds(h, g, t), NEW u, NEW b, NEW q, Program(h, u, b, q),
           u # t \/ \A i \in 1..Len(g) : i > Len(h) => IsEnd(g[i])
    PROVE  Program(g, u, b, q)
<1>1. /\ Len(h) \in Nat /\ Len(g) \in Nat /\ Len(h) <= Len(g)
      /\ \A i \in 1..Len(h) : i \in 1..Len(g) /\ g[i] = h[i]
      /\ \A i \in 1..Len(g) : i \in 1..Len(h) \/ (i > Len(h) /\ g[i].txn = t)
  BY OldOrNew
<1>2. /\ b \in 1..Len(h) /\ q \in 1..Len(h) /\ b < q
      /\ h[b].txn = u /\ h[b].kind = "begin" /\ h[q].txn = u /\ h[q].kind = "prepare"
  BY DEF Program
<1>3. \A r \in g[q].locks : \E i \in 1..Len(g) :
          b < i /\ i < q /\ g[i].txn = u /\ g[i].kind = "op" /\ g[i].row = r
  <2>1. ASSUME NEW r \in h[q].locks
        PROVE  \E i \in 1..Len(h) : b < i /\ i < q /\ h[i].txn = u /\ h[i].kind = "op" /\ h[i].row = r
    BY DEF Program
  <2> QED BY <1>1, <1>2, <2>1
<1>4. ASSUME NEW i \in 1..Len(g), g[i].txn = u
      PROVE  /\ g[i].kind = "op" => g[i].row \in g[q].locks
             /\ g[i].kind = "begin" => i = b
             /\ g[i].kind = "prepare" => i = q
  <2>1. CASE i \in 1..Len(h)
    <3>1. /\ h[i].kind = "op" => h[i].row \in h[q].locks
          /\ h[i].kind = "begin" => i = b
          /\ h[i].kind = "prepare" => i = q
      BY <1>1, <1>4, <2>1 DEF Program
    <3> QED BY <1>1, <1>2, <2>1, <3>1
  <2>2. CASE i > Len(h)
    <3>1. IsEnd(g[i])
      BY <1>1, <1>4, <2>2
    <3> QED BY <3>1 DEF IsEnd
  <2> QED BY <1>1, <2>1, <2>2
<1> QED BY <1>1, <1>2, <1>3, <1>4 DEF Program

\* What is left of the records of a log.
Apart(h, g, t) ==
    /\ \A i \in 1..Len(h) : IsEnd(h[i]) => h[i].txn # t
    /\ \A i, j \in 1..Len(h) : Hands(h, i, j) => h[i].txn # t
    /\ \A i \in 1..Len(h), j \in 1..Len(g) :
          j > Len(h) /\ Hands(g, i, j) /\ Closed(h, Len(h), h[i].txn) =>
             \E e \in 1..Len(h) : IsEnd(h[e]) /\ h[e].txn = h[i].txn

LEMMA StaysTold ==
    ASSUME NEW h, NEW g, NEW t, Adds(h, g, t), Told(h)
    PROVE  Told(g)
BY OldOrNew DEF Told, Adds

LEMMA EndsStayLast ==
    ASSUME NEW h, NEW g, NEW t, Adds(h, g, t), Apart(h, g, t), EndsLast(h)
    PROVE  EndsLast(g)
<1>1. /\ Len(h) \in Nat /\ Len(g) \in Nat /\ Len(h) <= Len(g)
      /\ \A i \in 1..Len(h) : i \in 1..Len(g) /\ g[i] = h[i]
      /\ \A i \in 1..Len(g) : i \in 1..Len(h) \/ (i > Len(h) /\ g[i].txn = t)
  BY OldOrNew
<1> SUFFICES ASSUME NEW i \in 1..Len(g), NEW j \in 1..Len(g), i < j, IsEnd(g[i])
             PROVE  g[j].txn # g[i].txn
  BY DEF EndsLast
<1>2. CASE i \in 1..Len(h) /\ j \in 1..Len(h)
  BY <1>1, <1>2 DEF EndsLast
<1>3. CASE i \in 1..Len(h) /\ j > Len(h)
  <2>1. g[j].txn = t /\ g[i] = h[i] /\ IsEnd(h[i])
    BY <1>1, <1>3
  <2> QED BY <1>3, <2>1 DEF Apart
<1>4. CASE i > Len(h)
  <2>1. i = Len(g)
    BY <1>4 DEF Adds
  <2> QED BY <1>1, <2>1
<1>5. i \in 1..Len(h) /\ i < j => j \in 1..Len(h) \/ j > Len(h)
  BY <1>1
<1> QED BY <1>1, <1>2, <1>3, <1>4, <1>5

LEMMA RowsStayApart ==
    ASSUME NEW h, NEW g, NEW t, Adds(h, g, t), Apart(h, g, t), EndsLast(h), RowsApart(h)
    PROVE  RowsApart(g)
<1>1. /\ Len(h) \in Nat /\ Len(g) \in Nat /\ Len(h) <= Len(g)
      /\ \A i \in 1..Len(h) : i \in 1..Len(g) /\ g[i] = h[i]
      /\ \A i \in 1..Len(g) : i \in 1..Len(h) \/ (i > Len(h) /\ g[i].txn = t)
  BY OldOrNew
<1> SUFFICES ASSUME NEW i \in 1..Len(g), NEW j \in 1..Len(g), Hands(g, i, j),
                    Closed(g, Len(g), g[i].txn)
             PROVE  \E e \in 1..Len(g) : i < e /\ e < j /\ IsEnd(g[e]) /\ g[e].txn = g[i].txn
  BY DEF RowsApart
<1>2. i < j /\ g[i].txn # g[j].txn /\ g[i].kind = "op"
  BY DEF Hands
<1>3. CASE j \in 1..Len(h)
  <2>1. i \in 1..Len(h)
    BY <1>1, <1>2, <1>3
  <2>2. g[i] = h[i] /\ g[j] = h[j] /\ Hands(h, i, j)
    BY <1>1, <1>3, <2>1 DEF Hands
  <2>3. h[i].txn # t
    BY <1>3, <2>1, <2>2 DEF Apart
  <2>4. Closed(h, Len(h), h[i].txn)
    BY <2>2, <2>3, HasStays DEF Closed
  <2>5. PICK e \in 1..Len(h) : i < e /\ e < j /\ IsEnd(h[e]) /\ h[e].txn = h[i].txn
    BY <1>3, <2>1, <2>2, <2>4 DEF RowsApart
  <2> QED BY <1>1, <2>2, <2>5
<1>4. CASE j > Len(h)
  <2>1. g[j].txn = t /\ g[i].txn # t
    BY <1>1, <1>2, <1>4
  <2>2. i \in 1..Len(h) /\ g[i] = h[i]
    BY <1>1, <2>1
  <2>3. Closed(h, Len(h), h[i].txn)
    BY <2>1, <2>2, HasStays DEF Closed
  <2>4. PICK e \in 1..Len(h) : IsEnd(h[e]) /\ h[e].txn = h[i].txn
    BY <1>4, <2>2, <2>3 DEF Apart
  <2>5. i < e
    <3>1. i # e
      BY <1>2, <2>2, <2>4 DEF IsEnd
    <3>2. ~(e < i)
      BY <2>2, <2>4 DEF EndsLast
    <3> QED BY <1>1, <2>2, <3>1, <3>2
  <2> QED BY <1>1, <1>4, <2>2, <2>4, <2>5
<1> QED BY <1>1, <1>3, <1>4

LEMMA StaysRegular ==
    ASSUME NEW h, NEW g, NEW t, Regular(h), Adds(h, g, t), Apart(h, g, t),
           \A q \in 1..Len(g) : g[q].kind = "prepare" /\ g[q].txn = t =>
              \E b \in 1..Len(g) : Program(g, t, b, q),
           \A i \in 1..Len(g) : i > Len(h) /\ g[i].kind = "begin" => Has(g, Len(g), t, {"prepare"})
    PROVE  Regular(g)
<1>1. /\ Len(h) \in Nat /\ Len(g) \in Nat /\ Len(h) <= Len(g)
      /\ \A i \in 1..Len(h) : i \in 1..Len(g) /\ g[i] = h[i]
      /\ \A i \in 1..Len(g) : i \in 1..Len(h) \/ (i > Len(h) /\ g[i].txn = t)
  BY OldOrNew
<1>2. ASSUME NEW q \in 1..Len(g), g[q].kind = "prepare"
      PROVE  \E b \in 1..Len(g) : Program(g, g[q].txn, b, q)
  <2>1. CASE g[q].txn = t
    BY <1>2, <2>1
  <2>2. CASE g[q].txn # t
    <3>1. q \in 1..Len(h) /\ g[q] = h[q]
      BY <1>1, <2>2
    <3>2. PICK b \in 1..Len(h) : Program(h, h[q].txn, b, q)
      BY <1>2, <3>1 DEF Regular, Programmed
    <3>3. h[q].txn # t
      BY <2>2, <3>1
    <3>4. Program(g, h[q].txn, b, q)
      BY <3>2, <3>3, ProgramStays
    <3> QED BY <1>1, <3>1, <3>4
  <2> QED BY <2>1, <2>2
<1>3. ASSUME NEW i \in 1..Len(g), g[i].kind = "begin"
      PROVE  Has(g, Len(g), g[i].txn, {"prepare"})
  <2>1. CASE i \in 1..Len(h)
    <3>1. Has(h, Len(h), g[i].txn, {"prepare"})
      BY <1>1, <1>3, <2>1 DEF Regular, Programmed
    <3> QED BY <3>1, HasStays
  <2>2. CASE i > Len(h)
    BY <1>1, <1>3, <2>2
  <2> QED BY <1>1, <2>1, <2>2
<1>4. Told(g) /\ EndsLast(g) /\ RowsApart(g)
  BY StaysTold, EndsStayLast, RowsStayApart DEF Regular
<1>5. g \in Seq(Records)
  BY DEF Adds
<1> QED BY <1>2, <1>3, <1>4, <1>5 DEF Regular, Programmed

-----------------------------------------------------------------------------
(* The primary goes on                                                     *)

LEMMA ShownArchived ==
    ASSUME StandbyInv
    PROVE  /\ Archived(ShownAt) /\ Archived(image.at) /\ Archived(position)
           /\ ShownAt \in 0..End /\ image.at \in 0..End /\ position \in 0..End
           /\ End \in Nat /\ image.at \in 0..position
<1>1. PrimaryInv /\ ImagesInv /\ DiskInv /\ EngineInv
  BY DEF StandbyInv
<1>2. Archived(ShownAt)
  BY <1>1 DEF DiskInv, EngineInv, ShownAt
<1>3. Archived(image.at) /\ Archived(position) /\ image.at \in 0..position
  <2>1. Archived(position) /\ image.at \in 0..position
    BY <1>1 DEF DiskInv
  <2> QED BY <1>1, <2>1, ArchivedBelow
<1>4. ShownAt \in 0..End /\ image.at \in 0..End /\ position \in 0..End
  BY <1>1, <1>2, <1>3, ArchivedIs
<1>5. End \in Nat
  BY <1>1 DEF PrimaryInv, End
<1> QED BY <1>2, <1>3, <1>4, <1>5

\* What the standby shows is behind an image, where the history stays.
LEMMA ShownStays ==
    ASSUME StandbyInv, ShownInv, StandbyStays, CleanAt(history', image.at),
           \A n : Archived(n) => \A i \in 1..n : history'[i] = history[i]
    PROVE  ShownInv'
<1>1. /\ image' = image /\ up' = up /\ memory' = memory /\ position' = position
      /\ apply' = apply /\ failed' = failed /\ segment' = segment
  BY DEF StandbyStays, diskVars, engineVars, threadVars
<1>2. ShownAt' = ShownAt
  BY <1>1 DEF ShownAt
<1>3. Shown(history', ShownAt) = Shown(history, ShownAt)
  <2>1. ShownAt \in Nat /\ \A i \in 1..ShownAt : history'[i] = history[i]
    BY ShownArchived DEF Archived
  <2> QED BY <2>1, SamePrefix
<1>4. Shown(history', image.at) = Shown(history, image.at)
  <2>1. image.at \in Nat /\ \A i \in 1..image.at : history'[i] = history[i]
    BY ShownArchived DEF Archived
  <2> QED BY <2>1, SamePrefix
<1>5. CleanAt(history, image.at)' /\ Shown(history, image.at)' = Shown(history', image.at)
  BY <1>1 DEF CleanAt, Left, Logged, Closed, Has, Shown, RowAt, Commits, Wrote, HeldAt, WaitingAt,
              PreparesOf, HeldAs, Highest
<1>6. Shown(history, ShownAt)' = Shown(history', ShownAt)
  BY <1>2
<1> QED BY <1>1, <1>3, <1>4, <1>5, <1>6 DEF ShownInv

\* Transaction t, which has not ended, adds to the history and comes to `state`.
Grows(t, state) ==
    /\ Adds(history, history', t) /\ t \in Txn
    /\ Unended(t) \/ (pstate[t] = "none" /\ t = nextTxn)
    /\ pstate' = [pstate EXCEPT ![t] = state]
    /\ UNCHANGED <<logFrom, segments, images>> /\ StandbyStays
    /\ \A i \in 1..End, j \in 1..Len(history') :
          j > End /\ Hands(history', i, j) => pstate[history[i].txn] = "ended"

\* It was not done, and comes to a state its records justify.
ComesTo(t, state) ==
    \/ /\ state = "running" /\ pstate[t] # "prepared"
       /\ \A i \in 1..Len(history') : i > End => history'[i].kind \notin Closing
    \/ state = "prepared" /\ Has(history', Len(history'), t, {"prepare"})
    \/ state = "ended" /\ Has(history', Len(history'), t, {"commit", "abort"})

LEMMA GrowsFrom ==
    ASSUME StandbyInv, TableInv, NEW t, NEW state, Grows(t, state)
    PROVE  /\ pstate[t] # "ended" /\ pstate \in [Txn -> {"none", "running", "prepared", "ended"}]
           /\ \A u \in Txn : u # t => pstate'[u] = pstate[u]
           /\ pstate'[t] = state /\ t \in Txn
           /\ \A i \in 1..End : history[i].txn = t => Unended(t)
           /\ \A i \in 1..End : IsEnd(history[i]) => history[i].txn # t
           /\ \A i \in 1..End : history[i].txn \in Txn
           /\ End = Len(history) /\ End' = Len(history') /\ Adds(history, history', t)
<1>1. /\ pstate \in [Txn -> {"none", "running", "prepared", "ended"}] /\ nextTxn \in Nat
      /\ history \in Seq(Records)
      /\ \A i \in 1..End : history[i].txn < nextTxn
      /\ \A u \in Txn : Unended(u) => \A i \in 1..End : ~(IsEnd(history[i]) /\ history[i].txn = u)
  BY StandbyAssumption DEF StandbyInv, PrimaryInv
<1>2. /\ Unended(t) \/ (t = nextTxn /\ pstate[t] = "none")
      /\ t \in Txn
      /\ pstate' = [pstate EXCEPT ![t] = state]
  BY DEF Grows
<1>3. \A i \in 1..End : history[i].txn = t => Unended(t)
  BY <1>1, <1>2
<1>4. \A i \in 1..End : history[i].txn \in Txn
  BY <1>1, RecordIs DEF End
<1>5. pstate[t] # "ended" /\ t \in Txn
  BY <1>2 DEF Unended, Grows
<1>6. \A i \in 1..End : IsEnd(history[i]) => history[i].txn # t
  BY <1>1, <1>3, <1>5
<1>7. pstate'[t] = state /\ \A u \in Txn : u # t => pstate'[u] = pstate[u]
  BY <1>1, <1>2, <1>5
<1>8. End = Len(history) /\ End' = Len(history') /\ Adds(history, history', t)
  BY DEF End, Grows
<1> QED BY <1>1, <1>3, <1>4, <1>5, <1>6, <1>7, <1>8

LEMMA GrowsApart ==
    ASSUME StandbyInv, TableInv, Regular(history), NEW t, NEW state, Grows(t, state)
    PROVE  Apart(history, history', t)
<1>1. /\ pstate[t] # "ended"
      /\ \A i \in 1..End : IsEnd(history[i]) => history[i].txn # t
      /\ \A i \in 1..End : history[i].txn \in Txn
      /\ End = Len(history)
  BY GrowsFrom
<1>2. \A i, j \in 1..End : Hands(history, i, j) => history[i].txn # t
  BY <1>1 DEF TableInv
<1>3. ASSUME NEW i \in 1..End, NEW j \in 1..Len(history'), j > End, Hands(history', i, j),
             Closed(history, End, history[i].txn)
      PROVE  \E e \in 1..End : IsEnd(history[e]) /\ history[e].txn = history[i].txn
  <2>1. PICK u \in Txn : u = history[i].txn
    BY <1>1
  <2>2. pstate[u] = "ended"
    BY <1>3, <2>1 DEF Grows
  <2>3. Has(history, End, u, {"prepare"}) => Has(history, End, u, {"commit", "abort"})
    BY <2>2 DEF TableInv
  <2>4. Has(history, End, u, {"commit", "abort"})
    BY <1>3, <2>1, <2>3 DEF Closed, Closing, Has
  <2> QED BY <2>1, <2>4 DEF Has, IsEnd
<1> QED BY <1>1, <1>2, <1>3 DEF Apart

LEMMA TableGrows ==
    ASSUME StandbyInv, TableInv, NEW t, NEW state, Grows(t, state), ComesTo(t, state)
    PROVE  TableInv'
<1>0. Adds(history, history', t)
  BY DEF Grows
<1>1. /\ pstate[t] # "ended" /\ pstate \in [Txn -> {"none", "running", "prepared", "ended"}]
      /\ \A u \in Txn : u # t => pstate'[u] = pstate[u]
      /\ pstate'[t] = state /\ t \in Txn
      /\ \A i \in 1..End : history[i].txn = t => Unended(t)
      /\ \A i \in 1..End : IsEnd(history[i]) => history[i].txn # t
      /\ \A i \in 1..End : history[i].txn \in Txn
      /\ End = Len(history) /\ End' = Len(history')
  BY GrowsFrom
<1>2. /\ Len(history) \in Nat /\ Len(history') \in Nat /\ Len(history) <= Len(history')
      /\ \A i \in 1..Len(history) : i \in 1..Len(history') /\ history'[i] = history[i]
      /\ \A i \in 1..Len(history') : \/ i \in 1..Len(history)
                                     \/ i > Len(history) /\ history'[i].txn = t
  BY <1>0, OldOrNew
<1>3. state \in {"running", "prepared", "ended"}
  BY DEF ComesTo
<1>4. ASSUME NEW i \in 1..Len(history') PROVE pstate'[history'[i].txn] # "none"
  <2>1. CASE history'[i].txn = t
    BY <1>1, <1>3, <2>1
  <2>2. CASE history'[i].txn # t
    <3>1. i \in 1..End /\ history'[i] = history[i]
      BY <1>1, <1>2, <2>2
    <3>2. pstate[history[i].txn] # "none"
      BY <3>1 DEF TableInv
    <3> QED BY <1>1, <2>2, <3>1, <3>2
  <2> QED BY <2>1, <2>2
<1>5. ASSUME NEW i \in 1..Len(history'), NEW j \in 1..Len(history'), Hands(history', i, j)
      PROVE  pstate'[history'[i].txn] = "ended"
  <2>1. i < j /\ history'[i].txn # history'[j].txn
    BY <1>5 DEF Hands
  <2>2. i \in 1..End /\ history'[i] = history[i]
    BY <1>1, <1>2, <2>1
  <2>3. pstate[history[i].txn] = "ended"
    <3>1. CASE j \in 1..End
      <4>1. Hands(history, i, j)
        BY <1>1, <1>2, <1>5, <2>2, <3>1 DEF Hands
      <4> QED BY <2>2, <3>1, <4>1 DEF TableInv
    <3>2. CASE j > End
      BY <1>1, <1>5, <2>2, <3>2 DEF Grows
    <3> QED BY <1>1, <1>2, <3>1, <3>2
  <2> QED BY <1>1, <2>2, <2>3
<1>6. ASSUME NEW u \in Txn
      PROVE  /\ pstate'[u] = "running" => ~Closed(history', Len(history'), u)
             /\ pstate'[u] = "prepared" => Has(history', Len(history'), u, {"prepare"})
             /\ pstate'[u] = "ended" /\ Has(history', Len(history'), u, {"prepare"}) =>
                   Has(history', Len(history'), u, {"commit", "abort"})
  <2>1. /\ pstate[u] = "running" => ~Closed(history, Len(history), u)
        /\ pstate[u] = "prepared" => Has(history, Len(history), u, {"prepare"})
        /\ pstate[u] = "ended" /\ Has(history, Len(history), u, {"prepare"}) =>
              Has(history, Len(history), u, {"commit", "abort"})
    BY <1>1 DEF TableInv
  <2>2. \A K : /\ Has(history, Len(history), u, K) => Has(history', Len(history'), u, K)
               /\ u # t /\ Has(history', Len(history'), u, K) => Has(history, Len(history), u, K)
               /\ Has(history', Len(history'), u, K) =>
                     \/ Has(history, Len(history), u, K)
                     \/ \E i \in 1..Len(history') : i > Len(history) /\ history'[i].kind \in K
    BY <1>0, HasStays
  <2>3. CASE u # t
    <3>1. pstate'[u] = pstate[u]
      BY <1>1, <2>3
    <3> QED BY <2>1, <2>2, <2>3, <3>1 DEF Closed
  <2>4. CASE u = t
    <3>1. CASE state = "running"
      <4>1. \A i \in 1..Len(history') : i > Len(history) => history'[i].kind \notin Closing
        BY <1>1, <3>1 DEF ComesTo
      <4>2. ~Closed(history, Len(history), t)
        <5>1. CASE Unended(t)
          <6>1. pstate[t] = "prepared" => FALSE
            BY <2>4, <3>1 DEF ComesTo
          <6> QED BY <1>1, <2>1, <2>4, <5>1, <6>1 DEF Unended
        <5>2. CASE ~Unended(t)
          BY <1>1, <5>2 DEF Closed, Has
        <5> QED BY <5>1, <5>2
      <4> QED BY <1>1, <2>2, <2>4, <3>1, <4>1, <4>2 DEF Closed
    <3>2. CASE state = "prepared"
      BY <1>1, <2>4, <3>2 DEF ComesTo
    <3>3. CASE state = "ended"
      BY <1>1, <2>4, <3>3 DEF ComesTo
    <3> QED BY <1>3, <3>1, <3>2, <3>3
  <2> QED BY <2>3, <2>4
<1>7. End' = Len(history')
  BY <1>1
<1> QED BY <1>4, <1>5, <1>6, <1>7 DEF TableInv

LEMMA QuietGrows ==
    ASSUME StandbyInv, FollowInv, NEW t, NEW state, Grows(t, state)
    PROVE  QuietInv'
<1>0. Adds(history, history', t) /\ TableInv /\ QuietInv
  BY DEF Grows, FollowInv
<1>1. /\ pstate[t] # "ended"
      /\ \A u \in Txn : u # t => pstate'[u] = pstate[u]
      /\ End = Len(history) /\ End' = Len(history')
  BY <1>0, GrowsFrom
<1>2. /\ Len(history) \in Nat /\ Len(history') \in Nat /\ Len(history) <= Len(history')
      /\ \A i \in 1..Len(history) : i \in 1..Len(history') /\ history'[i] = history[i]
      /\ \A i \in 1..Len(history') : \/ i \in 1..Len(history)
                                     \/ i > Len(history) /\ history'[i].txn = t
  BY <1>0, OldOrNew
<1>3. ASSUME NEW m \in images
      PROVE  /\ QuietAt(history', m.at)
             /\ \A u \in Txn : Left(history', m.at, u) => pstate'[u] = "ended"
  <2>1. m.at \in Nat /\ m.at <= Len(history)
    BY <1>1, <1>2 DEF StandbyInv, ImagesInv
  <2>2. \A i \in 1..(m.at) : history'[i] = history[i]
    BY <1>2, <2>1
  <2>3. \A u : Left(history', m.at, u) <=> Left(history, m.at, u)
    BY <2>1, <2>2, SamePrefix
  <2>4. ASSUME NEW u \in Txn, Left(history', m.at, u)
        PROVE  /\ pstate'[u] = "ended"
               /\ \A j \in 1..Len(history') : j > m.at => history'[j].txn # u
    <3>1. pstate[u] = "ended" /\ \A j \in 1..Len(history) : j > m.at => history[j].txn # u
      BY <1>0, <2>3, <2>4 DEF QuietInv, QuietAt
    <3>2. u # t
      BY <1>1, <3>1
    <3> QED BY <1>1, <1>2, <3>1, <3>2
  <2> QED BY <2>4 DEF QuietAt
<1>4. /\ images' = images /\ segments' = segments /\ logFrom' = logFrom /\ apply' = apply
      /\ segment' = segment /\ position' = position
  BY DEF Grows, StandbyStays, diskVars, threadVars
<1>5. \A n : AtImage(n)' <=> AtImage(n)
  BY <1>4 DEF AtImage
<1>6. \A m \in images' : /\ QuietAt(history', m.at)
                         /\ \A u \in Txn : Left(history', m.at, u) => pstate'[u] = "ended"
  BY <1>3, <1>4
<1>7. /\ AtImage(logFrom - 1)'
      /\ \A s \in segments' : AtImage(s.from - 1)'
      /\ apply' # "idle" => AtImage(segment.from - 1)' /\ segment'.from <= position' + 1
  BY <1>0, <1>4 DEF QuietInv, AtImage
<1> QED BY <1>6, <1>7 DEF QuietInv

LEMMA CleanGrows ==
    ASSUME StandbyInv, FollowInv, NEW t, NEW state, Grows(t, state)
    PROVE  CleanAt(history', image.at)
<1>0. Adds(history, history', t) /\ TableInv /\ QuietInv /\ CleanAt(history, image.at)
  BY DEF Grows, FollowInv, ShownInv
<1>1. /\ pstate[t] # "ended" /\ End = Len(history)
      /\ \A i \in 1..End : IsEnd(history[i]) => history[i].txn # t
  BY <1>0, GrowsFrom
<1>2. /\ Len(history) \in Nat /\ Len(history') \in Nat /\ Len(history) <= Len(history')
      /\ \A i \in 1..Len(history) : i \in 1..Len(history') /\ history'[i] = history[i]
      /\ \A i \in 1..Len(history') : \/ i \in 1..Len(history)
                                     \/ i > Len(history) /\ history'[i].txn = t
  BY <1>0, OldOrNew
<1>3. PICK n \in Nat : n = image.at /\ Archived(n) /\ n <= End
  BY ShownArchived DEF Archived
<1>4. \A u : Left(history', n, u) <=> Left(history, n, u)
  <2>1. \A i \in 1..n : history'[i] = history[i]
    BY <1>1, <1>2, <1>3
  <2> QED BY <2>1, SamePrefix
<1>5. ~Left(history, n, t)
  <2> SUFFICES ASSUME Left(history, n, t) PROVE FALSE
    OBVIOUS
  <2>1. n # 0
    BY DEF Left, Logged
  <2>2. PICK m \in images : n <= m.at
    BY <1>3, <2>1 DEF Archived
  <2>3. m.at \in Nat /\ m.at <= End
    BY <1>1, <1>2 DEF StandbyInv, ImagesInv
  <2>4. t \in Txn
    BY DEF Grows
  <2>5. CASE Closed(history, m.at, t)
    <3>1. PICK j \in 1..(m.at) : history[j].txn = t /\ history[j].kind \in Closing
      BY <2>5 DEF Closed, Has
    <3>2. ~(j \in 1..n)
      BY <3>1 DEF Left, Closed, Has
    <3>3. j \in 1..Len(history) /\ j > n
      BY <1>1, <1>2, <2>3, <3>2
    <3>4. history[j].kind \notin {"commit", "prepare"}
      BY <1>0, <1>3, <2>4, <3>1, <3>3 DEF CleanAt
    <3>5. IsEnd(history[j])
      BY <3>1, <3>4 DEF Closing, IsEnd
    <3> QED BY <1>1, <3>1, <3>3, <3>5
  <2>6. CASE ~Closed(history, m.at, t)
    <3>1. Left(history, m.at, t)
      BY <2>2, <2>3, <2>6 DEF Left, Logged
    <3> QED BY <1>0, <1>1, <2>4, <3>1 DEF QuietInv
  <2> QED BY <2>5, <2>6
<1>6. ASSUME NEW u \in Txn, Left(history', n, u), NEW j \in 1..Len(history'), j > n
      PROVE  ~(history'[j].txn = u /\ history'[j].kind \in {"commit", "prepare"})
  <2>1. Left(history, n, u) /\ u # t
    BY <1>4, <1>5, <1>6
  <2>2. CASE j \in 1..Len(history)
    BY <1>0, <1>2, <1>3, <1>6, <2>1, <2>2 DEF CleanAt
  <2> QED BY <1>2, <2>1, <2>2
<1>7. CleanAt(history', n)
  BY <1>6 DEF CleanAt
<1> QED BY <1>3, <1>7

\* A transaction of the primary logs.
LEMMA FollowGrows ==
    ASSUME StandbyInv, FollowInv, NEW t, NEW state, Grows(t, state), ComesTo(t, state),
           \A q \in 1..Len(history') : history'[q].kind = "prepare" /\ history'[q].txn = t =>
              \E b \in 1..Len(history') : Program(history', t, b, q),
           \A i \in 1..Len(history') : i > Len(history) /\ history'[i].kind = "begin" =>
              Has(history', Len(history'), t, {"prepare"})
    PROVE  FollowInv'
<1>1. Regular(history) /\ TableInv /\ ShownInv
  BY DEF FollowInv
<1>2. Adds(history, history', t) /\ Apart(history, history', t) /\ StandbyStays
  BY <1>1, GrowsApart DEF Grows
<1>3. Regular(history')
  BY <1>1, <1>2, StaysRegular
<1>4. TableInv' /\ QuietInv'
  BY <1>1, TableGrows, QuietGrows
<1>5. \A n : Archived(n) => \A i \in 1..n : history'[i] = history[i]
  <2>1. PrimaryInv /\ ImagesInv /\ End = Len(history)
    BY DEF StandbyInv, End
  <2>2. ASSUME NEW n, Archived(n), NEW i \in 1..n PROVE i \in 1..Len(history)
    <3>1. n \in 0..Len(history) /\ Len(history) \in Nat
      BY <1>2, <2>1, <2>2, ArchivedIs, OldOrNew
    <3> QED BY <3>1
  <2> QED BY <1>2, <2>2, OldOrNew
<1>6. ShownInv'
  BY <1>1, <1>2, <1>5, CleanGrows, ShownStays
<1> QED BY <1>3, <1>4, <1>6 DEF FollowInv

\* g is h and then recs.
Appended(h, recs, g) ==
    /\ Len(g) = Len(h) + Len(recs)
    /\ \A j \in 1..Len(g) : j > Len(h) =>
          j - Len(h) \in 1..Len(recs) /\ g[j] = recs[j - Len(h)]
    /\ \A k \in 1..Len(recs) : Len(h) + k \in 1..Len(g) /\ g[Len(h) + k] = recs[k]

LEMMA LogsAdds ==
    ASSUME NEW h \in Seq(Records), NEW recs, NEW t, OfOne(recs, t), NEW g, g = h \o recs,
           \A k \in 1..Len(recs) : recs[k].kind = "op" => recs[k].val = t
    PROVE  Adds(h, g, t) /\ Appended(h, recs, g)
<1>1. PICK c \in Seq(Records) : c = recs
  BY DEF OfOne
<1>2. /\ Len(h \o c) = Len(h) + Len(c) /\ h \o c \in Seq(Records)
      /\ \A k \in 1..Len(h) : (h \o c)[k] = h[k]
      /\ \A k \in 1..Len(c) : (h \o c)[Len(h) + k] = c[k]
  BY Joined
<1>3. PICK H \in Nat, C \in Nat : H = Len(h) /\ C = Len(recs)
  BY <1>1
<1>4. /\ Len(g) = H + C /\ g \in Seq(Records)
      /\ \A k \in 1..H : g[k] = h[k]
      /\ \A k \in 1..C : g[H + k] = recs[k]
  BY <1>1, <1>2, <1>3
<1>5. ASSUME NEW j \in 1..(H + C), j > H
      PROVE  j - H \in 1..C /\ g[j] = recs[j - H]
  <2>1. j - H \in 1..C /\ H + (j - H) = j
    BY <1>5
  <2> QED BY <1>4, <2>1
<1>6. \A k \in 1..C : H + k \in 1..(H + C)
  OBVIOUS
<1>7. ASSUME NEW j \in 1..(H + C), j > H
      PROVE  /\ g[j].txn = t /\ (IsEnd(g[j]) => j = H + C)
             /\ g[j].kind = "op" => g[j].val = t
  <2>1. PICK k \in 1..C : k = j - H /\ g[j] = recs[k]
    BY <1>5, <1>7
  <2>2. recs[k].txn = t /\ (IsEnd(recs[k]) => k = C) /\ (recs[k].kind = "op" => recs[k].val = t)
    BY <1>3 DEF OfOne
  <2>3. k = C => j = H + C
    BY <2>1
  <2> QED BY <2>1, <2>2, <2>3
<1>8. H <= H + C
  OBVIOUS
<1>9. Adds(h, g, t)
  BY <1>3, <1>4, <1>7, <1>8 DEF Adds
<1>10. Appended(h, recs, g)
  BY <1>3, <1>4, <1>5, <1>6 DEF Appended
<1> QED BY <1>9, <1>10

LEMMA FollowWrite ==
    ASSUME StandbyInv, FollowInv, NEW t \in Txn, NEW r \in Row, Write(t, r)
    PROVE  FollowInv'
<1>0. Regular(history) /\ TableInv /\ history \in Seq(Records) /\ PrimaryInv
  BY DEF FollowInv, StandbyInv, PrimaryInv
<1>1. PICK rec : rec = Op(t, r, t)
  OBVIOUS
<1>2. rec \in Records /\ rec.txn = t /\ ~IsEnd(rec) /\ rec.kind = "op" /\ rec.row = r /\ rec.val = t
  BY <1>1 DEF Op, Records, IsEnd
<1>3. /\ history' = history \o <<rec>>
      /\ pstate[t] = "running" \/ (pstate[t] = "none" /\ t = nextTxn)
      /\ pstate' = [pstate EXCEPT ![t] = "running"]
      /\ UNCHANGED <<logFrom, segments, images>> /\ StandbyStays
      /\ Locks(r) = {}
  BY <1>1 DEF Write, Logs
<1>4. /\ OfOne(<<rec>>, t) /\ Len(<<rec>>) = 1 /\ <<rec>>[1] = rec
      /\ \A k \in 1..Len(<<rec>>) : <<rec>>[k].kind = "op" => <<rec>>[k].val = t
  BY <1>2, OneOfOne
<1>5. /\ Adds(history, history', t)
      /\ \A j \in 1..Len(history') : j > Len(history) => history'[j] = rec
  <2>1. PICK recs : recs = <<rec>>
    OBVIOUS
  <2>2. /\ OfOne(recs, t) /\ Len(recs) = 1 /\ recs[1] = rec /\ history' = history \o recs
        /\ \A k \in 1..Len(recs) : recs[k].kind = "op" => recs[k].val = t
    BY <1>3, <1>4, <2>1
  <2>3. Adds(history, history', t) /\ Appended(history, recs, history')
    BY <1>0, <2>2, LogsAdds
  <2>4. \A k \in 1..Len(recs) : recs[k] = rec
    BY <2>2
  <2>5. Len(history) \in Nat
    BY <1>0
  <2> QED BY <2>2, <2>3, <2>4, <2>5 DEF Appended
<1>6. ASSUME NEW i \in 1..End, NEW j \in 1..Len(history'), j > End, Hands(history', i, j)
      PROVE  pstate[history[i].txn] = "ended"
  <2>1. history'[j] = rec /\ history'[i] = history[i]
    BY <1>5, <1>6 DEF End, Adds
  <2>2. history[i].kind = "op" /\ history[i].row = r
    BY <1>2, <1>6, <2>1 DEF Hands
  <2>3. history[i].txn \in Txn
    BY <1>0, RecordIs DEF End
  <2>4. r \in RowsOf(history[i].txn)
    BY <2>2 DEF RowsOf, OpsOf
  <2>5. pstate[history[i].txn] \notin {"running", "prepared"}
    BY <1>3, <2>3, <2>4 DEF Locks
  <2>6. pstate[history[i].txn] # "none"
    BY <1>0 DEF TableInv
  <2> QED BY <1>0, <2>3, <2>5, <2>6 DEF PrimaryInv
<1>7. Grows(t, "running")
  BY <1>3, <1>5, <1>6 DEF Grows, Unended
<1>8. ComesTo(t, "running")
  BY <1>2, <1>3, <1>5 DEF ComesTo, Closing, End
<1>9. ~Has(history, Len(history), t, {"prepare"})
  <2>1. pstate[t] = "running" => ~Closed(history, End, t)
    BY <1>0 DEF TableInv
  <2>2. pstate[t] = "none" => \A i \in 1..End : history[i].txn # t
    BY <1>0 DEF TableInv
  <2> QED BY <1>3, <2>1, <2>2 DEF Closed, Closing, Has, End
<1>10. \A q \in 1..Len(history') : ~(history'[q].kind = "prepare" /\ history'[q].txn = t)
  BY <1>2, <1>5, <1>9, OldOrNew DEF Has
<1>11. \A i \in 1..Len(history') : i > Len(history) => history'[i].kind # "begin"
  BY <1>2, <1>5
<1> QED BY <1>7, <1>8, <1>10, <1>11, FollowGrows

LEMMA FollowEnd ==
    ASSUME StandbyInv, FollowInv, NEW t \in Txn, Commit(t) \/ Abort(t)
    PROVE  FollowInv'
<1>0. Regular(history) /\ TableInv /\ history \in Seq(Records) /\ PrimaryInv
  BY DEF FollowInv, StandbyInv, PrimaryInv
<1>1. PICK rec : (rec = CommitTxn(t) \/ rec = AbortTxn(t)) /\ Ends(t, <<rec>>, "ended")
  BY DEF Commit, Abort
<1>2. rec \in Records /\ rec.txn = t /\ IsEnd(rec)
  BY <1>1 DEF CommitTxn, AbortTxn, Records, IsEnd
<1>3. /\ history' = history \o <<rec>> /\ Unended(t)
      /\ pstate' = [pstate EXCEPT ![t] = "ended"]
      /\ UNCHANGED <<logFrom, segments, images>> /\ StandbyStays
  BY <1>1 DEF Commit, Abort, Unended, Ends, Logs
<1>4. /\ OfOne(<<rec>>, t) /\ Len(<<rec>>) = 1 /\ <<rec>>[1] = rec
      /\ \A k \in 1..Len(<<rec>>) : <<rec>>[k].kind = "op" => <<rec>>[k].val = t
  BY <1>2, OneOfOne DEF IsEnd
<1>5. /\ Adds(history, history', t) /\ Len(history) \in Nat /\ Len(history') = Len(history) + 1
      /\ \A j \in 1..Len(history') : j > Len(history) => history'[j] = rec
  <2>1. PICK recs : recs = <<rec>>
    OBVIOUS
  <2>2. /\ OfOne(recs, t) /\ Len(recs) = 1 /\ recs[1] = rec /\ history' = history \o recs
        /\ \A k \in 1..Len(recs) : recs[k].kind = "op" => recs[k].val = t
    BY <1>3, <1>4, <2>1
  <2>3. Adds(history, history', t) /\ Appended(history, recs, history')
    BY <1>0, <2>2, LogsAdds
  <2>4. \A k \in 1..Len(recs) : recs[k] = rec
    BY <2>2
  <2>5. Len(history) \in Nat
    BY <1>0
  <2> QED BY <2>2, <2>3, <2>4, <2>5 DEF Appended
<1>6. ASSUME NEW i \in 1..End, NEW j \in 1..Len(history'), j > End, Hands(history', i, j)
      PROVE  FALSE
  BY <1>2, <1>5, <1>6 DEF Hands, IsEnd, End
<1>7. Grows(t, "ended")
  BY <1>3, <1>5, <1>6 DEF Grows
<1>8. ComesTo(t, "ended")
  <2>1. Len(history') \in 1..Len(history') /\ history'[Len(history')] = rec
    BY <1>5
  <2>2. Has(history', Len(history'), t, {"commit", "abort"})
    BY <1>2, <2>1 DEF Has, IsEnd
  <2> QED BY <2>2 DEF ComesTo
<1>9. ASSUME NEW q \in 1..Len(history'), history'[q].kind = "prepare", history'[q].txn = t
      PROVE  \E b \in 1..Len(history') : Program(history', t, b, q)
  <2>1. q \in 1..Len(history) /\ history'[q] = history[q]
    BY <1>2, <1>5, <1>9, OldOrNew DEF IsEnd
  <2>2. PICK b \in 1..Len(history) : Program(history, t, b, q)
    BY <1>0, <1>9, <2>1 DEF Regular, Programmed
  <2>3. \A i \in 1..Len(history') : i > Len(history) => IsEnd(history'[i])
    BY <1>2, <1>5
  <2>4. Program(history', t, b, q)
    BY <1>5, <2>2, <2>3, ProgramStays
  <2> QED BY <1>5, <2>4
<1>10. \A i \in 1..Len(history') : i > Len(history) => history'[i].kind # "begin"
  BY <1>2, <1>5 DEF IsEnd
<1> QED BY <1>7, <1>8, <1>9, <1>10, FollowGrows

LEMMA FollowPrepare ==
    ASSUME StandbyInv, FollowInv, NEW t \in Txn, NEW g \in Gid, PrepareTxn(t, g)
    PROVE  FollowInv'
<1>0. Regular(history) /\ TableInv /\ history \in Seq(Records) /\ PrimaryInv /\ Len(history) \in Nat
  BY DEF FollowInv, StandbyInv, PrimaryInv
<1>1. PICK ls, recs : ls = RowsOf(t) /\ recs = PrepareRecords(t, g, ls, [r \in ls |-> t])
  OBVIOUS
<1>2. ls \in SUBSET Row /\ IsFiniteSet(ls)
  BY <1>0, <1>1, RowsFinite
<1>3. IsProgram(recs, t, g, ls)
  BY <1>1, <1>2, ProgramIs
<1>4. \A k \in 1..Len(recs) : IsPart(recs, k, t, ls)
  BY <1>2, <1>3, ProgramRecords
<1>5. /\ history' = history \o recs /\ pstate[t] = "running"
      /\ pstate' = [pstate EXCEPT ![t] = "prepared"]
      /\ UNCHANGED <<logFrom, segments, images>> /\ StandbyStays
  BY <1>1 DEF PrepareTxn, Ends, Logs
<1>6. OfOne(recs, t) /\ \A k \in 1..Len(recs) : recs[k].kind = "op" => recs[k].val = t
  <2>1. recs \in Seq(Records)
    BY <1>3 DEF IsProgram
  <2> QED BY <1>4, <2>1 DEF OfOne, IsPart, IsEnd
<1>7. /\ Adds(history, history', t) /\ Len(history') = Len(history) + Len(recs)
      /\ \A j \in 1..Len(history') : j > Len(history) =>
            j - Len(history) \in 1..Len(recs) /\ history'[j] = recs[j - Len(history)]
      /\ \A k \in 1..Len(recs) : /\ Len(history) + k \in 1..Len(history')
                                 /\ history'[Len(history) + k] = recs[k]
  <2>1. Adds(history, history', t) /\ Appended(history, recs, history')
    BY <1>0, <1>5, <1>6, LogsAdds
  <2> QED BY <2>1 DEF Appended
<1>8. ~Has(history, Len(history), t, {"prepare"}) /\ ~Has(history, Len(history), t, {"begin"})
  <2>1. ~Closed(history, End, t)
    BY <1>0, <1>5 DEF TableInv
  <2>2. ~Has(history, Len(history), t, {"prepare"})
    BY <2>1 DEF Closed, Closing, Has, End
  <2> QED BY <1>0, <2>2 DEF Has, Regular, Programmed
<1>9. ASSUME NEW i \in 1..End, NEW j \in 1..Len(history'), j > End, Hands(history', i, j)
      PROVE  pstate[history[i].txn] = "ended"
  <2>1. PICK k \in 1..Len(recs) : history'[j] = recs[k]
    BY <1>7, <1>9 DEF End
  <2>2. history'[i] = history[i]
    BY <1>7, <1>9 DEF End, Adds
  <2>3. recs[k].kind = "op" => recs[k].row \in ls /\ recs[k].txn = t
    BY <1>4 DEF IsPart
  <2>4. history[i].kind = "op" /\ history[i].row \in ls /\ history[i].txn # t
    BY <1>9, <2>1, <2>2, <2>3 DEF Hands
  <2>5. PICK l \in 1..End : history[l].kind = "op" /\ history[l].txn = t
                            /\ history[l].row = history[i].row
    BY <1>1, <2>4 DEF RowsOf, OpsOf
  <2>6. i < l \/ l < i
    BY <1>0, <2>4, <2>5 DEF End
  <2>7. ~(l < i)
    <3> SUFFICES ASSUME l < i PROVE FALSE
      OBVIOUS
    <3>1. Hands(history, l, i)
      BY <2>4, <2>5 DEF Hands
    <3>2. pstate[t] = "ended"
      BY <1>0, <2>5, <3>1 DEF TableInv
    <3> QED BY <1>5, <3>2
  <2>8. Hands(history, i, l)
    BY <2>4, <2>5, <2>6, <2>7 DEF Hands
  <2> QED BY <1>0, <2>8 DEF TableInv
<1>10. Grows(t, "prepared")
  BY <1>5, <1>7, <1>9 DEF Grows, Unended
<1>11. PICK H \in Nat, C \in Nat : H = Len(history) /\ C = Len(recs) /\ C >= 2
  BY <1>0, <1>3 DEF IsProgram
<1>12. PICK h : h = history' /\ Len(h) = H + C
  BY <1>7, <1>11
<1>13. /\ \A k \in 1..C : H + k \in 1..Len(h) /\ h[H + k] = recs[k]
       /\ \A i \in 1..Len(h) : i > H => i - H \in 1..C /\ h[i] = recs[i - H]
       /\ \A i \in 1..Len(h) : i <= H /\ h[i].txn = t => h[i].kind \notin {"begin", "prepare"}
       /\ \A i \in 1..Len(h) : i <= H /\ h[i].txn = t /\ h[i].kind = "op" => h[i].row \in ls
  <2>1. \A i \in 1..Len(h) : i <= H => i \in 1..Len(history) /\ h[i] = history[i]
    BY <1>7, <1>11, <1>12 DEF Adds
  <2>2. \A i \in 1..Len(history) : history[i].txn = t /\ history[i].kind = "op" => history[i].row \in ls
    BY <1>1 DEF RowsOf, OpsOf, End
  <2>3. \A i \in 1..Len(history) : history[i].txn = t => history[i].kind \notin {"begin", "prepare"}
    BY <1>8 DEF Has
  <2> QED BY <1>7, <1>11, <1>12, <2>1, <2>2, <2>3
<1>14. PICK b \in 1..Len(h), q \in 1..Len(h) : b = H + 1 /\ q = H + C /\ b < q
  BY <1>11, <1>12
<1>15. /\ h[b] = PrepareBegin(t) /\ h[q] = Prepare(t, g, ls)
  <2>1. 1 \in 1..C /\ C \in 1..C
    BY <1>11
  <2> QED BY <1>3, <1>11, <1>13, <1>14, <2>1 DEF IsProgram
<1>16. /\ h[b].txn = t /\ h[b].kind = "begin"
       /\ h[q].txn = t /\ h[q].kind = "prepare" /\ h[q].locks = ls
  BY <1>2, <1>15, RecordsAre
<1>17. ASSUME NEW r \in ls
       PROVE  \E i \in 1..Len(h) : b < i /\ i < q /\ h[i].txn = t /\ h[i].kind = "op" /\ h[i].row = r
  <2>1. PICK k \in 2..(C - 1) : recs[k] = Op(t, r, t)
    BY <1>3, <1>11 DEF IsProgram
  <2>2. H + k \in 1..Len(h) /\ h[H + k] = recs[k] /\ b < H + k /\ H + k < q
    BY <1>11, <1>13, <1>14
  <2>3. Op(t, r, t).txn = t /\ Op(t, r, t).kind = "op" /\ Op(t, r, t).row = r
    BY DEF Op
  <2> QED BY <2>1, <2>2, <2>3
<1>18. ASSUME NEW i \in 1..Len(h), h[i].txn = t
       PROVE  /\ h[i].kind = "op" => h[i].row \in ls
              /\ h[i].kind = "begin" => i = b
              /\ h[i].kind = "prepare" => i = q
  <2>1. CASE i <= H
    BY <1>13, <1>18, <2>1
  <2>2. CASE i > H
    <3>1. PICK k \in 1..C : k = i - H /\ h[i] = recs[k]
      BY <1>13, <2>2
    <3>2. /\ recs[k].kind = "begin" => k = 1
          /\ recs[k].kind = "prepare" => k = C
          /\ recs[k].kind = "op" => recs[k].row \in ls
      BY <1>4, <1>11 DEF IsPart
    <3>3. (k = 1 => i = b) /\ (k = C => i = q)
      BY <1>11, <1>14, <3>1
    <3> QED BY <3>1, <3>2, <3>3
  <2> QED BY <1>11, <2>1, <2>2
<1>19. Program(h, t, b, q)
  BY <1>14, <1>16, <1>17, <1>18 DEF Program
<1>20. ASSUME NEW p \in 1..Len(h), h[p].kind = "prepare", h[p].txn = t
       PROVE  \E a \in 1..Len(h) : Program(h, t, a, p)
  BY <1>18, <1>19, <1>20
<1>21. Has(h, Len(h), t, {"prepare"})
  BY <1>14, <1>16 DEF Has
<1>22. ComesTo(t, "prepared")
  BY <1>12, <1>21 DEF ComesTo
<1> QED BY <1>10, <1>12, <1>20, <1>21, <1>22, FollowGrows

LEMMA FollowCheckpoint ==
    ASSUME StandbyInv, FollowInv, PrimaryCheckpoint
    PROVE  FollowInv'
<1>0. Regular(history) /\ TableInv /\ QuietInv /\ ShownInv /\ PrimaryInv /\ history \in Seq(Records)
  BY DEF FollowInv, StandbyInv, PrimaryInv
<1>1. PICK e, n, m : e = End /\ n = nextTxn /\ m = [at |-> e, stamp |-> n]
  OBVIOUS
<1>2. /\ images' = images \cup {m} /\ pstate' = [pstate EXCEPT ![n] = "ended"]
      /\ history' = history /\ End' = e /\ logFrom' \in {logFrom, e + 1}
      /\ segments' \in {segments, segments \cup {[from |-> logFrom, to |-> e]}}
      /\ StandbyStays /\ n <= MaxTxn
      /\ \A t \in Txn : pstate[t] # "running"
  BY <1>1 DEF PrimaryCheckpoint, End
<1>3. /\ e \in Nat /\ e = Len(history) /\ n \in Txn
      /\ pstate \in [Txn -> {"none", "running", "prepared", "ended"}]
      /\ \A i \in 1..e : history[i].txn < n /\ history[i].txn \in Txn /\ history[i].txn # n
  <2>1. e \in Nat /\ e = Len(history) /\ n \in Txn
    BY <1>0, <1>1, <1>2, StandbyAssumption DEF PrimaryInv, End, Txn
  <2>2. \A i \in 1..e : history[i].txn < n /\ history[i].txn \in Txn
    BY <1>0, <1>1, <2>1, RecordIs DEF PrimaryInv
  <2>3. \A t \in Txn : t < n => t # n
    BY <2>1, StandbyAssumption DEF Txn
  <2> QED BY <1>0, <2>1, <2>2, <2>3 DEF PrimaryInv
<1>4. \A t \in Txn : t # n => pstate'[t] = pstate[t]
  BY <1>2, <1>3
<1>5. pstate'[n] = "ended"
  BY <1>2, <1>3
<1>6. \A K : ~Has(history, e, n, K)
  BY <1>3 DEF Has
<1>7. TableInv'
  <2>1. \A i \in 1..e : pstate'[history[i].txn] = pstate[history[i].txn]
    BY <1>3, <1>4
  <2>2. \A i \in 1..e : pstate'[history[i].txn] # "none"
    BY <1>0, <1>1, <2>1 DEF TableInv
  <2>3. \A i, j \in 1..e : Hands(history, i, j) => pstate'[history[i].txn] = "ended"
    BY <1>0, <1>1, <2>1 DEF TableInv
  <2>4. ASSUME NEW t \in Txn
        PROVE  /\ pstate'[t] = "running" => ~Closed(history, e, t)
               /\ pstate'[t] = "prepared" => Has(history, e, t, {"prepare"})
               /\ pstate'[t] = "ended" /\ Has(history, e, t, {"prepare"}) =>
                     Has(history, e, t, {"commit", "abort"})
    <3>1. CASE t = n
      BY <1>5, <1>6, <3>1
    <3>2. CASE t # n
      <4>1. pstate'[t] = pstate[t]
        BY <1>4, <3>2
      <4> QED BY <1>0, <1>1, <4>1 DEF TableInv
    <3> QED BY <3>1, <3>2
  <2> QED BY <1>2, <2>2, <2>3, <2>4 DEF TableInv
<1>8. ASSUME NEW k \in images \cup {m}
      PROVE  /\ QuietAt(history, k.at)
             /\ \A t \in Txn : Left(history, k.at, t) => pstate'[t] = "ended"
  <2>1. CASE k \in images
    <3>1. QuietAt(history, k.at) /\ \A t \in Txn : Left(history, k.at, t) => pstate[t] = "ended"
      BY <1>0, <2>1 DEF QuietInv
    <3> QED BY <1>4, <1>5, <3>1
  <2>2. CASE k = m
    <3>1. k.at = e
      BY <1>1, <2>2
    <3>2. QuietAt(history, e)
      BY <1>3 DEF QuietAt
    <3>3. ASSUME NEW t \in Txn, Left(history, e, t) PROVE pstate'[t] = "ended"
      <4>1. pstate[t] # "none"
        BY <1>0, <1>1, <3>3 DEF Left, Logged, TableInv
      <4>2. pstate[t] # "prepared"
        <5>1. ~Has(history, e, t, {"prepare"})
          BY <3>3 DEF Left, Closed, Closing, Has
        <5> QED BY <1>0, <1>1, <5>1 DEF TableInv
      <4>3. pstate[t] = "ended"
        BY <1>2, <1>3, <4>1, <4>2
      <4> QED BY <1>4, <1>5, <4>3
    <3> QED BY <3>1, <3>2, <3>3
  <2> QED BY <2>1, <2>2
<1>9. QuietInv'
  <2>1. /\ apply' = apply /\ segment' = segment /\ position' = position
    BY <1>2 DEF StandbyStays, diskVars, threadVars
  <2>2. \A x : AtImage(x) => (x = 0 \/ \E k \in images' : k.at = x)
    BY <1>2 DEF AtImage
  <2>3. \E k \in images' : k.at = e
    BY <1>1, <1>2
  <2>4. AtImage(logFrom - 1) /\ logFrom \in Nat
    BY <1>0 DEF QuietInv, StandbyInv, ArchiveInv
  <2>5. logFrom' - 1 = 0 \/ \E k \in images' : k.at = logFrom' - 1
    <3>1. CASE logFrom' = logFrom
      BY <2>2, <2>4, <3>1
    <3>2. CASE logFrom' = e + 1
      <4>1. logFrom' - 1 = e
        BY <1>3, <3>2
      <4> QED BY <2>3, <4>1
    <3> QED BY <1>2, <3>1, <3>2
  <2>6. ASSUME NEW s \in segments' PROVE s.from - 1 = 0 \/ \E k \in images' : k.at = s.from - 1
    <3>1. s \in segments \/ s.from = logFrom
      BY <1>2
    <3>2. AtImage(s.from - 1)
      BY <1>0, <2>4, <3>1 DEF QuietInv
    <3> QED BY <2>2, <3>2
  <2>7. apply # "idle" => AtImage(segment.from - 1) /\ segment.from <= position + 1
    BY <1>0 DEF QuietInv
  <2>8. \A x : AtImage(x)' <=> (x = 0 \/ \E k \in images' : k.at = x)
    BY DEF AtImage
  <2>9. /\ AtImage(logFrom - 1)'
        /\ \A s \in segments' : AtImage(s.from - 1)'
        /\ apply' # "idle" => AtImage(segment.from - 1)' /\ segment'.from <= position' + 1
    BY <2>1, <2>2, <2>5, <2>6, <2>7 DEF AtImage
  <2>10. \A k \in images' : /\ QuietAt(history', k.at)
                            /\ \A t \in Txn : Left(history', k.at, t) => pstate'[t] = "ended"
    BY <1>2, <1>8
  <2> QED BY <2>9, <2>10 DEF QuietInv
<1>10. ShownInv'
  BY <1>0, <1>2, ShownStays DEF ShownInv
<1>11. Regular(history')
  BY <1>0, <1>2
<1> QED BY <1>7, <1>9, <1>10, <1>11 DEF FollowInv

\* g is what a crash leaves of h: nothing is gone that someone waited for.
Cuts(h, g, k) ==
    /\ h \in Seq(Records) /\ g \in Seq(Records) /\ Len(g) = k /\ k \in 0..Len(h)
    /\ \A i \in 1..k : g[i] = h[i]
    /\ \A i \in 1..Len(h) : i > k => /\ h[i].kind \notin {"commit", "prepare"}
                                     /\ ~(h[i].kind = "abort" /\ Has(h, Len(h), h[i].txn, {"prepare"}))

LEMMA CutHas ==
    ASSUME NEW h, NEW g, NEW k, Cuts(h, g, k)
    PROVE  /\ k \in Nat /\ Len(h) \in Nat /\ k <= Len(h) /\ Len(g) = k
           /\ \A i \in 1..k : i \in 1..Len(h) /\ g[i] = h[i]
           /\ \A u, K : Has(g, k, u, K) => Has(h, Len(h), u, K)
           /\ \A u, K : K \subseteq {"commit", "prepare"} /\ Has(h, Len(h), u, K) => Has(g, k, u, K)
           /\ \A u : Has(h, Len(h), u, {"prepare"}) /\ Has(h, Len(h), u, {"commit", "abort"}) =>
                 Has(g, k, u, {"commit", "abort"})
<1>1. k \in Nat /\ Len(h) \in Nat /\ k <= Len(h) /\ Len(g) = k
  BY DEF Cuts
<1>2. \A i \in 1..k : i \in 1..Len(h) /\ g[i] = h[i]
  BY <1>1 DEF Cuts
<1>3. \A i \in 1..Len(h) : i > k \/ i \in 1..k
  BY <1>1
<1>4. \A u, K : Has(g, k, u, K) => Has(h, Len(h), u, K)
  BY <1>2 DEF Has
<1>5. ASSUME NEW u, NEW K, K \subseteq {"commit", "prepare"}, Has(h, Len(h), u, K)
      PROVE  Has(g, k, u, K)
  <2>1. PICK i \in 1..Len(h) : h[i].txn = u /\ h[i].kind \in K
    BY <1>5 DEF Has
  <2>2. i \in 1..k
    BY <1>3, <1>5, <2>1 DEF Cuts
  <2> QED BY <1>2, <2>1, <2>2 DEF Has
<1>6. ASSUME NEW u, Has(h, Len(h), u, {"prepare"}), Has(h, Len(h), u, {"commit", "abort"})
      PROVE  Has(g, k, u, {"commit", "abort"})
  <2>1. PICK i \in 1..Len(h) : h[i].txn = u /\ h[i].kind \in {"commit", "abort"}
    BY <1>6 DEF Has
  <2>2. i \in 1..k
    BY <1>3, <1>6, <2>1 DEF Cuts
  <2> QED BY <1>2, <2>1, <2>2 DEF Has
<1> QED BY <1>1, <1>2, <1>4, <1>5, <1>6

LEMMA CutRegular ==
    ASSUME NEW h, NEW g, NEW k, Regular(h), Cuts(h, g, k)
    PROVE  Regular(g)
<1>1. /\ k \in Nat /\ Len(h) \in Nat /\ k <= Len(h) /\ Len(g) = k
      /\ \A i \in 1..k : i \in 1..Len(h) /\ g[i] = h[i]
      /\ \A u, K : Has(g, k, u, K) => Has(h, Len(h), u, K)
      /\ \A u, K : K \subseteq {"commit", "prepare"} /\ Has(h, Len(h), u, K) => Has(g, k, u, K)
  BY CutHas
<1>2. \A i \in 1..Len(h) : h[i].kind = "prepare" => i \in 1..k
  <2>1. \A i \in 1..Len(h) : i > k \/ i \in 1..k
    BY <1>1
  <2> QED BY <2>1 DEF Cuts
<1>3. Told(g) /\ EndsLast(g)
  <2>1. Told(h) /\ EndsLast(h)
    BY DEF Regular
  <2> QED BY <1>1, <2>1 DEF Told, EndsLast
<1>4. RowsApart(g)
  <2> SUFFICES ASSUME NEW i \in 1..k, NEW j \in 1..k, Hands(g, i, j), Closed(g, k, g[i].txn)
               PROVE  \E e \in 1..k : i < e /\ e < j /\ IsEnd(g[e]) /\ g[e].txn = g[i].txn
    BY <1>1 DEF RowsApart
  <2>1. Hands(h, i, j) /\ Closed(h, Len(h), h[i].txn)
    BY <1>1 DEF Hands, Closed
  <2>2. PICK e \in 1..Len(h) : i < e /\ e < j /\ IsEnd(h[e]) /\ h[e].txn = h[i].txn
    BY <1>1, <2>1 DEF Regular, RowsApart
  <2>3. e \in 1..k
    BY <1>1, <2>2
  <2> QED BY <1>1, <2>2, <2>3
<1>5. ASSUME NEW q \in 1..k, g[q].kind = "prepare"
      PROVE  \E b \in 1..k : Program(g, g[q].txn, b, q)
  <2>1. q \in 1..Len(h) /\ g[q] = h[q] /\ h[q].kind = "prepare"
    BY <1>1, <1>5
  <2>2. PICK b \in 1..Len(h) : Program(h, h[q].txn, b, q)
    BY <2>1 DEF Regular, Programmed
  <2>3. PICK t : t = h[q].txn
    OBVIOUS
  <2>4. b < q /\ h[b].txn = t /\ h[b].kind = "begin"
    BY <2>2, <2>3 DEF Program
  <2>5. b \in 1..k /\ g[b] = h[b]
    BY <1>1, <2>4
  <2>6. ASSUME NEW r \in g[q].locks
        PROVE  \E i \in 1..k : b < i /\ i < q /\ g[i].txn = t /\ g[i].kind = "op" /\ g[i].row = r
    <3>1. PICK i \in 1..Len(h) : b < i /\ i < q /\ h[i].txn = t /\ h[i].kind = "op" /\ h[i].row = r
      BY <2>1, <2>2, <2>3 DEF Program
    <3>2. i \in 1..k
      BY <1>1, <3>1
    <3> QED BY <1>1, <3>1, <3>2
  <2>7. ASSUME NEW i \in 1..k, g[i].txn = t
        PROVE  /\ g[i].kind = "op" => g[i].row \in g[q].locks
               /\ g[i].kind = "begin" => i = b
               /\ g[i].kind = "prepare" => i = q
    <3>1. i \in 1..Len(h) /\ g[i] = h[i]
      BY <1>1
    <3>2. /\ h[i].kind = "op" => h[i].row \in h[q].locks
          /\ h[i].kind = "begin" => i = b
          /\ h[i].kind = "prepare" => i = q
      BY <2>2, <2>3, <2>7, <3>1 DEF Program
    <3> QED BY <2>1, <3>1, <3>2
  <2>8. Program(g, t, b, q)
    BY <1>1, <1>5, <2>1, <2>3, <2>4, <2>5, <2>6, <2>7 DEF Program
  <2> QED BY <2>1, <2>3, <2>5, <2>8
<1>6. ASSUME NEW i \in 1..k, g[i].kind = "begin" PROVE Has(g, k, g[i].txn, {"prepare"})
  <2>1. Has(h, Len(h), g[i].txn, {"prepare"})
    BY <1>1, <1>6 DEF Regular, Programmed
  <2>2. {"prepare"} \subseteq {"commit", "prepare"}
    OBVIOUS
  <2> QED BY <1>1, <2>1, <2>2
<1>7. g \in Seq(Records)
  BY DEF Cuts
<1> QED BY <1>1, <1>3, <1>4, <1>5, <1>6, <1>7 DEF Regular, Programmed

LEMMA CrashCuts ==
    ASSUME StandbyInv, PrimaryCrash
    PROVE  \E k : Cuts(history, history', k)
<1>0. PrimaryInv
  BY DEF StandbyInv
<1> DEFINE must == {i \in 1..End : \/ history[i].kind \in {"commit", "prepare"}
                                   \/ history[i].kind = "abort"
                                      /\ history[i].txn \in Named(history, {"prepare"})
                                   \/ \E m \in images : i <= m.at}
<1>1. PICK k \in Highest(must \cup {0})..End : history' = SubSeq(history, 1, k)
  BY Zenon DEF PrimaryCrash
<1>2. PICK e \in Nat : e = End /\ history \in Seq(Records) /\ Len(history) = e
  BY <1>0 DEF PrimaryInv, End
<1>3. \A i \in 1..e : \/ history[i].kind \in {"commit", "prepare"}
                      \/ history[i].kind = "abort" /\ Has(history, e, history[i].txn, {"prepare"})
                      => i \in must
  BY <1>2 DEF Has, Named
<1>4. PICK top : /\ top = Highest(must \cup {0}) /\ top \in 0..e
                 /\ \A y \in must : y <= top
  <2>1. must \cup {0} \in SUBSET (0..e) /\ must \cup {0} # {}
    BY <1>2
  <2> HIDE DEF must
  <2> QED BY <1>2, <2>1, HighestIs
<1>5. must \subseteq 1..e
  BY <1>2
<1> HIDE DEF must
<1>6. k \in Nat /\ top <= k /\ k <= e
  BY <1>1, <1>2, <1>4
<1>7. \A i \in 1..e : i > k => i \notin must
  BY <1>4, <1>5, <1>6
<1>8. /\ Len(SubSeq(history, 1, k)) = k /\ SubSeq(history, 1, k) \in Seq(Records)
      /\ \A i \in 1..k : SubSeq(history, 1, k)[i] = history[i]
  BY <1>2, <1>6
<1>9. \A i \in 1..e : i > k =>
          /\ history[i].kind \notin {"commit", "prepare"}
          /\ ~(history[i].kind = "abort" /\ Has(history, e, history[i].txn, {"prepare"}))
  BY <1>3, <1>7
<1>10. k \in 0..e
  BY <1>6
<1>11. Cuts(history, history', k)
  BY <1>1, <1>2, <1>8, <1>9, <1>10 DEF Cuts
<1> QED BY <1>11

LEMMA FollowCrash ==
    ASSUME StandbyInv, FollowInv, PrimaryCrash
    PROVE  FollowInv'
<1>0. Regular(history) /\ TableInv /\ QuietInv /\ ShownInv /\ PrimaryInv /\ history \in Seq(Records)
  BY DEF FollowInv, StandbyInv, PrimaryInv
<1>1. PICK k : Cuts(history, history', k)
  BY CrashCuts
<1>2. /\ k \in Nat /\ Len(history) \in Nat /\ k <= Len(history) /\ Len(history') = k
      /\ \A i \in 1..k : i \in 1..Len(history) /\ history'[i] = history[i]
      /\ \A u, K : Has(history', k, u, K) => Has(history, Len(history), u, K)
      /\ \A u, K : K \subseteq {"commit", "prepare"} /\ Has(history, Len(history), u, K) =>
            Has(history', k, u, K)
      /\ \A u : /\ Has(history, Len(history), u, {"prepare"})
                /\ Has(history, Len(history), u, {"commit", "abort"})
                => Has(history', k, u, {"commit", "abort"})
  BY <1>1, CutHas
<1>3. /\ pstate' = [t \in Txn |-> IF t >= nextTxn' THEN "none"
                                  ELSE IF pstate[t] = "running" THEN "ended" ELSE pstate[t]]
      /\ UNCHANGED <<logFrom, segments, images>> /\ StandbyStays
  BY DEF PrimaryCrash
<1>4. PrimaryInv' /\ ImagesInv'
  BY PrimaryCrashStep DEF StandbyInv
<1>5. /\ End = Len(history) /\ End' = k /\ nextTxn' \in Nat
      /\ \A i \in 1..k : history[i].txn < nextTxn'
      /\ \A m \in images : m.at \in 0..k
  <2>1. End = Len(history) /\ End' = k /\ nextTxn' \in Nat
    BY <1>2, <1>4, StandbyAssumption DEF End, PrimaryInv
  <2>2. \A i \in 1..k : history'[i].txn < nextTxn'
    BY <1>4, <2>1 DEF PrimaryInv
  <2>3. \A m \in images' : m.at \in 0..k
    BY <1>4, <2>1 DEF ImagesInv
  <2> QED BY <1>2, <1>3, <2>1, <2>2, <2>3
<1>6. pstate \in [Txn -> {"none", "running", "prepared", "ended"}] /\ \A t \in Txn : t \in Nat
  BY <1>0, StandbyAssumption DEF PrimaryInv, Txn
<1>7. \A i \in 1..k : history[i].txn \in Txn
  BY <1>0, <1>2, RecordIs
<1>8. \A t \in Txn : /\ t < nextTxn' => pstate'[t] = IF pstate[t] = "running" THEN "ended" ELSE pstate[t]
                     /\ ~(t < nextTxn') => pstate'[t] = "none"
  BY <1>3, <1>5, <1>6
<1>9. \A i \in 1..k : /\ pstate'[history[i].txn] # "none"
                      /\ pstate[history[i].txn] = "ended" => pstate'[history[i].txn] = "ended"
  <2>1. \A i \in 1..k : pstate[history[i].txn] # "none"
    BY <1>0, <1>2, <1>5 DEF TableInv
  <2> QED BY <1>5, <1>7, <1>8, <2>1
<1>10. TableInv'
  <2>1. ASSUME NEW i \in 1..k, NEW j \in 1..k, Hands(history', i, j)
        PROVE  pstate'[history'[i].txn] = "ended"
    <3>1. Hands(history, i, j) /\ history'[i] = history[i]
      BY <1>2, <2>1 DEF Hands
    <3>2. pstate[history[i].txn] = "ended"
      BY <1>0, <1>2, <1>5, <3>1 DEF TableInv
    <3> QED BY <1>9, <3>1, <3>2
  <2>2. ASSUME NEW t \in Txn
        PROVE  /\ pstate'[t] = "running" => ~Closed(history', k, t)
               /\ pstate'[t] = "prepared" => Has(history', k, t, {"prepare"})
               /\ pstate'[t] = "ended" /\ Has(history', k, t, {"prepare"}) =>
                     Has(history', k, t, {"commit", "abort"})
    <3>0. /\ pstate[t] = "running" => ~Closed(history, Len(history), t)
          /\ pstate[t] = "prepared" => Has(history, Len(history), t, {"prepare"})
          /\ pstate[t] = "ended" /\ Has(history, Len(history), t, {"prepare"}) =>
                Has(history, Len(history), t, {"commit", "abort"})
      BY <1>0, <1>5 DEF TableInv
    <3>1. pstate'[t] # "running"
      BY <1>6, <1>8
    <3>2. CASE pstate'[t] = "prepared"
      <4>1. pstate[t] = "prepared"
        BY <1>8, <3>2
      <4>2. Has(history, Len(history), t, {"prepare"}) /\ {"prepare"} \subseteq {"commit", "prepare"}
        BY <3>0, <4>1
      <4> QED BY <1>2, <3>2, <4>2
    <3>3. CASE pstate'[t] = "ended" /\ Has(history', k, t, {"prepare"})
      <4>1. Has(history, Len(history), t, {"prepare"})
        BY <1>2, <3>3
      <4>2. pstate[t] \in {"running", "ended"}
        BY <1>8, <3>3
      <4>3. pstate[t] # "running"
        BY <3>0, <4>1 DEF Closed, Closing, Has
      <4>4. Has(history, Len(history), t, {"commit", "abort"})
        BY <3>0, <4>1, <4>2, <4>3
      <4> QED BY <1>2, <3>3, <4>1, <4>4
    <3> QED BY <3>1, <3>2, <3>3
  <2>3. \A i \in 1..k : pstate'[history'[i].txn] # "none"
    BY <1>2, <1>9
  <2> QED BY <1>5, <2>1, <2>2, <2>3 DEF TableInv
<1>11. QuietInv'
  <2>1. /\ images' = images /\ segments' = segments /\ logFrom' = logFrom /\ apply' = apply
        /\ segment' = segment /\ position' = position
    BY <1>3 DEF StandbyStays, diskVars, threadVars
  <2>2. /\ AtImage(logFrom - 1)'
        /\ \A s \in segments' : AtImage(s.from - 1)'
        /\ apply' # "idle" => AtImage(segment.from - 1)' /\ segment'.from <= position' + 1
    BY <1>0, <2>1 DEF QuietInv, AtImage
  <2>3. ASSUME NEW m \in images
        PROVE  /\ QuietAt(history', m.at)
               /\ \A u \in Txn : Left(history', m.at, u) => pstate'[u] = "ended"
    <3>1. m.at \in Nat /\ m.at <= k
      BY <1>2, <1>5
    <3>2. \A i \in 1..(m.at) : i \in 1..k /\ history'[i] = history[i]
      BY <1>2, <3>1
    <3>3. \A u : Left(history', m.at, u) <=> Left(history, m.at, u)
      BY <3>1, <3>2, SamePrefix
    <3>4. ASSUME NEW u \in Txn, Left(history', m.at, u)
          PROVE  /\ pstate'[u] = "ended"
                 /\ \A j \in 1..k : j > m.at => history'[j].txn # u
      <4>1. pstate[u] = "ended" /\ \A j \in 1..Len(history) : j > m.at => history[j].txn # u
        BY <1>0, <3>3, <3>4 DEF QuietInv, QuietAt
      <4>2. PICK i \in 1..(m.at) : history[i].txn = u
        BY <3>3, <3>4 DEF Left, Logged
      <4>3. pstate'[u] = "ended"
        BY <1>9, <3>2, <4>1, <4>2
      <4> QED BY <1>2, <4>1, <4>3
    <3> QED BY <1>2, <3>4 DEF QuietAt
  <2> QED BY <2>1, <2>2, <2>3 DEF QuietInv
<1>12. \A n : Archived(n) => n \in Nat /\ n <= k /\ \A i \in 1..n : i \in 1..k /\ history'[i] = history[i]
  <2> SUFFICES ASSUME NEW n, Archived(n)
               PROVE  n \in Nat /\ n <= k /\ \A i \in 1..n : i \in 1..k /\ history'[i] = history[i]
    OBVIOUS
  <2>1. n \in Nat /\ n <= k
    <3>1. \A m \in images : m.at \in Nat /\ m.at <= k
      BY <1>2, <1>5
    <3> QED BY <1>2, <3>1 DEF Archived
  <2> QED BY <1>2, <2>1
<1>13. CleanAt(history', image.at)
  <2>1. PICK n : n = image.at /\ Archived(n)
    BY ShownArchived
  <2>2. \A u : Left(history', n, u) <=> Left(history, n, u)
    BY <1>12, <2>1, SamePrefix
  <2>3. CleanAt(history, n)
    BY <1>0, <2>1 DEF ShownInv
  <2>4. CleanAt(history', n)
    BY <1>2, <2>2, <2>3 DEF CleanAt
  <2> QED BY <2>1, <2>4
<1>14. ShownInv'
  BY <1>0, <1>3, <1>12, <1>13, ShownStays
<1>15. Regular(history')
  BY <1>0, <1>1, CutRegular
<1> QED BY <1>10, <1>11, <1>14, <1>15 DEF FollowInv

-----------------------------------------------------------------------------
(* The standby goes on                                                     *)

LEMMA QuietBehind ==
    ASSUME QuietInv, NEW n, AtImage(n)
    PROVE  QuietAt(history, n)
BY DEF QuietInv, AtImage, QuietAt, Left, Logged

\* A step of the standby that keeps what it shows and where.
LEMMA FollowStays ==
    ASSUME FollowInv, UNCHANGED primaryVars, ShownInv',
           apply' # "idle" => AtImage(segment'.from - 1) /\ segment'.from <= position' + 1
    PROVE  FollowInv'
<1>1. /\ history' = history /\ pstate' = pstate /\ images' = images /\ segments' = segments
      /\ logFrom' = logFrom /\ End' = End
  BY DEF primaryVars, End
<1>2. Regular(history')
  BY <1>1 DEF FollowInv
<1>3. TableInv'
  BY <1>1 DEF FollowInv, TableInv
<1>4. QuietInv
  BY DEF FollowInv
<1>5. /\ AtImage(logFrom - 1)'
      /\ \A s \in segments' : AtImage(s.from - 1)'
      /\ apply' # "idle" => AtImage(segment.from - 1)' /\ segment'.from <= position' + 1
  BY <1>1, <1>4 DEF QuietInv, AtImage
<1>6. \A m \in images' : /\ QuietAt(history', m.at)
                         /\ \A t \in Txn : Left(history', m.at, t) => pstate'[t] = "ended"
  BY <1>1, <1>4 DEF QuietInv
<1>7. QuietInv'
  BY <1>5, <1>6 DEF QuietInv
<1> QED BY <1>2, <1>3, <1>7 DEF FollowInv

LEMMA ShownSame ==
    ASSUME ShownInv, UNCHANGED <<primaryVars, image, up, memory>>, up => ShownAt' = ShownAt
    PROVE  ShownInv'
<1>1. history' = history /\ image' = image /\ up' = up /\ memory' = memory
  BY DEF primaryVars
<1>2. CleanAt(history, image.at)' /\ Shown(history, image.at)' = Shown(history, image.at)
  <2>1. CleanAt(history', image'.at) /\ Shown(history', image'.at) = Shown(history, image.at)
    BY <1>1 DEF ShownInv
  <2> QED BY <2>1
<1>3. up => Shown(history, ShownAt)' = Shown(history, ShownAt)
  <2>1. up => Shown(history', ShownAt') = Shown(history, ShownAt)
    BY <1>1
  <2> QED BY <2>1
<1> QED BY <1>1, <1>2, <1>3 DEF ShownInv

LEMMA FollowSeed ==
    ASSUME StandbyInv, FollowInv, Seed
    PROVE  FollowInv'
<1>0. Regular(history) /\ QuietInv /\ ImagesInv /\ EngineInv
  BY DEF FollowInv, StandbyInv
<1>1. PICK m \in images : image' = [at |-> m.at, stamp |-> m.stamp, rows |-> Truth(m.at).rows,
                                    prepared |-> Truth(m.at).prepared]
  BY DEF Seed
<1>2. ~up /\ up' = up /\ apply' = apply /\ UNCHANGED primaryVars /\ history' = history
  BY DEF Seed, primaryVars, engineVars, threadVars
<1>3. apply' = "idle"
  BY <1>0, <1>2 DEF EngineInv
<1>4. m.at \in 0..Len(history)
  BY <1>0 DEF ImagesInv, End
<1>5. Truth(m.at) = Shown(history, m.at)
  BY <1>0, <1>4, TruthIs DEF Truth
<1>6. CleanAt(history, m.at)
  BY <1>0 DEF QuietInv, QuietAt, CleanAt
<1>7. /\ image'.at = m.at /\ image'.rows = Shown(history, m.at).rows
      /\ image'.prepared = Shown(history, m.at).prepared
  BY <1>1, <1>5
<1>8. ShownInv'
  <2>1. /\ CleanAt(history', image'.at) /\ image'.rows = Shown(history', image'.at).rows
        /\ image'.prepared = Shown(history', image'.at).prepared /\ ~up'
    BY <1>2, <1>6, <1>7
  <2> QED BY <2>1 DEF ShownInv
<1> QED BY <1>2, <1>3, <1>8, FollowStays

LEMMA StampGone ==
    ASSUME StandbyInv, Regular(history)
    PROVE  /\ image.stamp \notin WaitingAt(history, image.at)
           /\ \A i \in 1..position : i > image.at => history[i].txn # image.stamp
<1>1. PICK s, n : s = image.stamp /\ n = image.at /\ Spent(s, n)
  BY DEF StandbyInv, DiskInv
<1>2. /\ n \in Nat /\ position \in Nat /\ n <= position /\ position <= End /\ End \in Nat
      /\ End = Len(history)
  BY <1>1, ShownArchived DEF End
<1>3. history \in Seq(Records) /\ EndsLast(history)
  BY DEF Regular
<1>4. \A i \in 1..End : history[i].txn \in Txn
  BY <1>2, <1>3, RecordIs
<1>5. \A i \in 1..n : i \in 1..End
  BY <1>2
<1>6. \A i \in 1..position : i \in 1..End
  BY <1>2
<1>7. CASE \A i \in 1..End : history[i].txn # s
  BY <1>1, <1>5, <1>6, <1>7 DEF WaitingAt, Has
<1>8. CASE \E i \in 1..n : IsEnd(history[i]) /\ history[i].txn = s
  <2>1. PICK c \in 1..n : IsEnd(history[c]) /\ history[c].txn = s
    BY <1>8
  <2>2. s \notin WaitingAt(history, n)
    BY <2>1 DEF WaitingAt, Has, IsEnd
  <2>3. \A i \in 1..position : i > n => history[i].txn # s
    <3>1. \A i \in 1..position : i > n => c < i
      BY <1>2, <2>1
    <3> QED BY <1>2, <1>3, <1>5, <1>6, <2>1, <3>1 DEF EndsLast
  <2> QED BY <1>1, <2>2, <2>3
<1>9. s = 0 => \A i \in 1..End : history[i].txn # s
  <2>1. \A t \in Txn : t # 0
    BY StandbyAssumption DEF Txn
  <2> QED BY <1>4, <2>1
<1>10. \A m \in images : m.stamp = s => \A i \in 1..End : history[i].txn # s
  BY DEF StandbyInv, ImagesInv
<1> QED BY <1>1, <1>7, <1>8, <1>9, <1>10 DEF Spent

LEMMA FollowOpen ==
    ASSUME StandbyInv, FollowInv, Open
    PROVE  FollowInv'
<1>0. Regular(history) /\ ShownInv /\ EngineInv
  BY DEF FollowInv, StandbyInv
<1>1. /\ ~up /\ up' /\ memory' = Made(OnDisk(position)) /\ UNCHANGED primaryVars
      /\ image' = image /\ position' = position /\ failed' = failed /\ apply' = apply
      /\ history' = history
  BY DEF Open, primaryVars, threadVars
<1>2. apply = "idle" /\ ~failed
  BY <1>0, <1>1 DEF EngineInv
<1>3. /\ position \in 0..Len(history) /\ image.at \in 0..position
  BY ShownArchived DEF End
<1>4. /\ CleanAt(history, image.at) /\ image.rows = Shown(history, image.at).rows
      /\ image.prepared = HeldAt(history, image.at)
  <2>1. Shown(history, image.at).prepared = HeldAt(history, image.at)
    BY DEF Shown
  <2> QED BY <1>0, <2>1 DEF ShownInv
<1>5. /\ image.stamp \notin WaitingAt(history, image.at)
      /\ \A i \in 1..position : i > image.at => history[i].txn # image.stamp
  BY <1>0, StampGone
<1>6. Made(ImageRecords(image) \o SubSeq(history, image.at + 1, position)) = Shown(history, position)
  BY <1>0, <1>3, <1>4, <1>5, OpenIs
<1>7. memory' = Shown(history', ShownAt')
  <2>1. ShownAt' = position
    BY <1>1, <1>2 DEF ShownAt
  <2> QED BY <1>1, <1>6, <2>1 DEF OnDisk
<1>8. ShownInv'
  <2>1. /\ CleanAt(history', image'.at) /\ image'.rows = Shown(history', image'.at).rows
        /\ image'.prepared = Shown(history', image'.at).prepared
    BY <1>0, <1>1 DEF ShownInv
  <2> QED BY <1>7, <2>1 DEF ShownInv
<1> QED BY <1>1, <1>2, <1>8, FollowStays

\* A crash; the pauses, the readers, and reading a segment.
LEMMA FollowKeeps ==
    ASSUME StandbyInv, FollowInv,
           \/ Close
           \/ \E r \in Reader : ReaderBegin(r) \/ ReaderEnd(r)
           \/ ApplyBusy \/ ApplyQuiet \/ ApplyAppend \/ ApplyAppendFails
           \/ FoldHold \/ FoldGivesUp
    PROVE  FollowInv'
<1>0. ShownInv /\ QuietInv /\ EngineInv
  BY DEF FollowInv, StandbyInv
<1>1. UNCHANGED <<primaryVars, image>>
  BY DEF Close, ReaderBegin, ReaderEnd, ApplyBusy, ApplyQuiet, ApplyAppend, ApplyAppendFails,
         FoldHold, FoldGivesUp, diskVars
<1>2. apply # "idle" => AtImage(segment.from - 1) /\ segment.from <= position + 1
  BY <1>0 DEF QuietInv
<1>3. CASE Close
  <2>1. ~up' /\ apply' = "idle" /\ image' = image /\ history' = history
    BY <1>3 DEF Close, primaryVars
  <2>2. /\ CleanAt(history', image'.at) /\ image'.rows = Shown(history', image'.at).rows
        /\ image'.prepared = Shown(history', image'.at).prepared
    BY <1>0, <2>1 DEF ShownInv
  <2>3. ShownInv'
    BY <2>1, <2>2 DEF ShownInv
  <2> QED BY <1>1, <2>1, <2>3, FollowStays
<1>4. CASE ~Close
  <2>1. UNCHANGED <<up, memory>>
    BY <1>4 DEF ReaderBegin, ReaderEnd, ApplyBusy, ApplyQuiet, ApplyAppend, ApplyAppendFails,
                FoldHold, FoldGivesUp, engineVars
  <2>2. ShownAt' = ShownAt
    <3>1. CASE ApplyAppend
      <4>1. apply = "replayed" /\ apply' = "idle" /\ position' = segment.to /\ failed' = failed
        BY <3>1 DEF ApplyAppend
      <4>2. ~failed
        BY <1>0, <4>1 DEF EngineInv
      <4> QED BY <4>1, <4>2 DEF ShownAt
    <3>2. CASE ApplyAppendFails
      BY <3>2 DEF ApplyAppendFails, ShownAt
    <3>3. CASE ~ApplyAppend /\ ~ApplyAppendFails
      <4>1. UNCHANGED <<failed, position>>
        BY <1>4, <3>3 DEF ReaderBegin, ReaderEnd, ApplyBusy, ApplyQuiet, FoldHold, FoldGivesUp,
                          engineVars, diskVars
      <4>2. \/ apply' = apply /\ segment' = segment
            \/ apply = "holding" /\ apply' \in {"idle", "quiet"}
        BY <1>4, <3>3 DEF ReaderBegin, ReaderEnd, ApplyBusy, ApplyQuiet, FoldHold, FoldGivesUp,
                          threadVars
      <4>3. apply # "idle" => ~failed
        BY <1>0 DEF EngineInv
      <4> QED BY <4>1, <4>2, <4>3 DEF ShownAt
    <3> QED BY <3>1, <3>2, <3>3
  <2>3. ShownInv'
    BY <1>0, <1>1, <2>1, <2>2, ShownSame
  <2>4. apply' # "idle" => apply # "idle" /\ segment' = segment /\ position' = position
    BY <1>4 DEF ReaderBegin, ReaderEnd, ApplyBusy, ApplyQuiet, ApplyAppend, ApplyAppendFails,
                FoldHold, FoldGivesUp, threadVars, diskVars
  <2> QED BY <1>1, <1>2, <2>3, <2>4, FollowStays
<1> QED BY <1>3, <1>4

LEMMA FollowRead ==
    ASSUME StandbyInv, FollowInv, NEW s \in segments, NEW to, ApplyRead(s, to)
    PROVE  FollowInv'
<1>0. ShownInv /\ QuietInv /\ EngineInv
  BY DEF FollowInv, StandbyInv
<1>1. /\ UNCHANGED <<primaryVars, image, up, memory>> /\ position' = position
      /\ failed' = failed /\ ~failed /\ apply = "idle" /\ apply' = "holding"
      /\ segment'.from = s.from /\ s.from <= position + 1
  BY DEF ApplyRead, diskVars
<1>2. ShownAt' = ShownAt
  BY <1>1 DEF ShownAt
<1>3. ShownInv'
  BY <1>0, <1>1, <1>2, ShownSame
<1>4. AtImage(segment'.from - 1) /\ segment'.from <= position' + 1
  BY <1>0, <1>1 DEF QuietInv
<1> QED BY <1>1, <1>3, <1>4, FollowStays

LEMMA FollowReplay ==
    ASSUME StandbyInv, FollowInv, ApplyReplay
    PROVE  FollowInv'
<1>0. Regular(history) /\ ShownInv /\ QuietInv /\ EngineInv /\ PrimaryInv /\ ImagesInv
  BY DEF FollowInv, StandbyInv
<1>1. /\ UNCHANGED <<primaryVars, image, up>> /\ position' = position /\ segment' = segment
      /\ failed' = failed /\ apply = "quiet" /\ apply' = "replayed" /\ history' = history
      /\ memory' = Strip(Replay(RecordsPast(segment, position), memory))
  BY DEF ApplyReplay, diskVars, primaryVars, Strip
<1>2. /\ up /\ ~failed /\ Archived(segment.to) /\ segment.from \in Nat \ {0}
      /\ position <= segment.to
  BY <1>0, <1>1 DEF EngineInv
<1>3. AtImage(segment.from - 1) /\ segment.from <= position + 1
  BY <1>0, <1>1 DEF QuietInv
<1>4. QuietAt(history, segment.from - 1)
  BY <1>0, <1>3, QuietBehind
<1>5. segment.to \in 0..End
  BY <1>0, <1>2, ArchivedIs
<1>6. position \in 0..segment.to
  <2>1. position \in Nat /\ End \in Nat
    BY ShownArchived
  <2> QED BY <1>2, <1>5, <2>1
<1>7. memory = Shown(history, position)
  BY <1>0, <1>1, <1>2 DEF ShownInv, ShownAt
<1>8. Strip(Replay(RecordsPast(segment, position), Shown(history, position)))
          = Shown(history, segment.to)
  BY <1>0, <1>2, <1>3, <1>4, <1>5, <1>6, PastIs
<1>9. ShownInv'
  <2>1. /\ CleanAt(history', image'.at) /\ image'.rows = Shown(history', image'.at).rows
        /\ image'.prepared = Shown(history', image'.at).prepared
    BY <1>0, <1>1 DEF ShownInv
  <2>2. ShownAt' = segment.to
    BY <1>1 DEF ShownAt
  <2>3. memory' = Shown(history', ShownAt')
    BY <1>1, <1>7, <1>8, <2>2
  <2> QED BY <2>1, <2>3 DEF ShownInv
<1> QED BY <1>1, <1>3, <1>9, FollowStays

\* An image of the standby's own; not inside a transaction.
LEMMA FollowFold ==
    ASSUME StandbyInv, FollowInv, FoldWrite, ~CutImages
    PROVE  FollowInv'
<1>0. Regular(history) /\ ShownInv /\ QuietInv /\ EngineInv
  BY DEF FollowInv, StandbyInv
<1>1. /\ UNCHANGED <<primaryVars, up, memory>> /\ position' = position /\ segment' = segment
      /\ failed' = failed /\ ~failed /\ apply # "replayed" /\ apply' = apply /\ history' = history
      /\ image'.at = position /\ image'.rows = memory.rows /\ image'.prepared = memory.prepared
      /\ ~EndsInside(position) /\ fold = "holding"
  BY DEF FoldWrite, primaryVars
<1>2. up
  BY <1>0, <1>1 DEF EngineInv
<1>3. memory = Shown(history, position) /\ ShownAt' = position
  BY <1>0, <1>1, <1>2 DEF ShownInv, ShownAt
<1>4. PICK n \in Nat, e \in Nat : n = position /\ e = End /\ n <= e
  BY ShownArchived
<1>5. CleanAt(history, n)
  <2> SUFFICES ASSUME NEW t \in Txn, Left(history, n, t), NEW j \in 1..Len(history), j > n,
                      history[j].txn = t, history[j].kind \in {"commit", "prepare"}
               PROVE  FALSE
    BY DEF CleanAt
  <2>1. PICK i \in 1..n : history[i].txn = t
    BY DEF Left, Logged
  <2>2. ASSUME NEW k \in i..n, history[k].txn = history[i].txn
        PROVE  history[k].kind \in {"op", "begin"}
    <3>1. k \in 1..n /\ k \in 1..Len(history)
      BY <1>4, <2>1 DEF End
    <3>2. history[k].kind \notin Closing
      BY <2>1, <2>2, <3>1 DEF Left, Closed, Has
    <3>3. history[k].kind \in {"op", "begin", "prepare", "commit", "abort"}
      BY <1>0, <3>1, RecordIs DEF Regular
    <3> QED BY <3>2, <3>3 DEF Closing
  <2>3. j \in (n + 1)..End
    BY <1>4 DEF End
  <2>4. EndsInside(n)
    BY <2>1, <2>2, <2>3 DEF EndsInside
  <2> QED BY <1>1, <1>4, <2>4
<1>6. ShownInv'
  <2>1. /\ CleanAt(history', image'.at) /\ image'.rows = Shown(history', image'.at).rows
        /\ image'.prepared = Shown(history', image'.at).prepared
    BY <1>1, <1>3, <1>4, <1>5
  <2>2. memory' = Shown(history', ShownAt')
    BY <1>1, <1>3
  <2> QED BY <2>1, <2>2 DEF ShownInv
<1>7. apply' # "idle" => AtImage(segment'.from - 1) /\ segment'.from <= position' + 1
  BY <1>0, <1>1 DEF QuietInv
<1> QED BY <1>1, <1>6, <1>7, FollowStays

-----------------------------------------------------------------------------
(* A standby follows                                                       *)

LEMMA FollowInit == Init => FollowInv
<1> SUFFICES ASSUME Init PROVE FollowInv
  OBVIOUS
<1>1. /\ history = <<>> /\ Len(history) = 0 /\ End = 0 /\ images = {} /\ segments = {} /\ logFrom = 1
      /\ image.at = 0 /\ ~up /\ apply = "idle" /\ pstate = [t \in Txn |-> "none"]
      /\ image.rows = Empty.rows /\ image.prepared = <<>>
  BY DEF Init, End
<1>2. \A i \in 1..0 : FALSE
  OBVIOUS
<1>3. Regular(history)
  <2>1. history \in Seq(Records)
    BY <1>1
  <2> QED BY <1>1, <1>2, <2>1 DEF Regular, Told, EndsLast, Programmed, RowsApart
<1>4. TableInv
  BY <1>1, <1>2 DEF TableInv
<1>5. QuietInv
  BY <1>1 DEF QuietInv, AtImage
<1>6. CleanAt(history, 0)
  BY <1>2 DEF CleanAt, Left, Logged
<1>7. Shown(history, 0).rows = Empty.rows /\ Shown(history, 0).prepared = <<>>
  <2>1. Empty.prepared = <<>>
    BY DEF Empty
  <2> QED BY <2>1, NothingShown
<1>8. ShownInv
  BY <1>1, <1>6, <1>7 DEF ShownInv
<1> QED BY <1>3, <1>4, <1>5, <1>8 DEF FollowInv

LEMMA FollowStutter ==
    ASSUME StandbyInv, FollowInv, UNCHANGED vars
    PROVE  FollowInv'
<1>1. /\ UNCHANGED <<primaryVars, image, up, memory>> /\ position' = position
      /\ segment' = segment /\ failed' = failed /\ apply' = apply
  BY DEF vars, primaryVars, diskVars, engineVars, threadVars
<1>2. ShownAt' = ShownAt
  BY <1>1 DEF ShownAt
<1>3. ShownInv /\ QuietInv
  BY DEF FollowInv
<1>4. ShownInv'
  BY <1>1, <1>2, <1>3, ShownSame
<1> QED BY <1>1, <1>3, <1>4, FollowStays DEF QuietInv

LEMMA FollowStep ==
    ASSUME StandbyInv, FollowInv, ~CutImages, [Next]_vars
    PROVE  FollowInv'
<1>1. CASE Primary
  BY <1>1, FollowEnd, FollowWrite, FollowPrepare, FollowCheckpoint, FollowCrash DEF Primary
<1>2. CASE ReadWhole \/ ReadCut
  BY <1>2, FollowRead DEF ReadWhole, ReadCut
<1>3. CASE Seed \/ Open \/ ApplyReplay \/ FoldWrite
  BY <1>3, FollowSeed, FollowOpen, FollowReplay, FollowFold
<1>4. CASE \/ Close
           \/ \E r \in Reader : ReaderBegin(r) \/ ReaderEnd(r)
           \/ ApplyBusy \/ ApplyQuiet \/ ApplyAppend \/ ApplyAppendFails
           \/ FoldHold \/ FoldGivesUp
  BY <1>4, FollowKeeps
<1>5. CASE UNCHANGED vars
  BY <1>5, FollowStutter
<1> QED BY <1>1, <1>2, <1>3, <1>4, <1>5 DEF Next, Poll, Fold

\* Standby.Follows for every instance: a standby that takes its own images between
\* transactions only shows exactly what the primary had at its position, its rows and its
\* prepared transactions with what they wrote and lock: after any cut segment, partial
\* append, crash or restart of either machine (apply_shipped_segment, records_past,
\* append_shipped, open_impl, seed_standby).  With images inside a transaction it is false
\* (AppliedSurvives).
THEOREM StandbyFollows == ~CutImages => (Spec => []Follows)
<1> SUFFICES ASSUME ~CutImages PROVE Spec => []Follows
  OBVIOUS
<1>1. Init => StandbyInv /\ FollowInv
  BY StandbyInit, FollowInit
<1>2. StandbyInv /\ FollowInv /\ [Next]_vars => (StandbyInv /\ FollowInv)'
  BY StandbyStep, FollowStep
<1>3. StandbyInv /\ FollowInv => Follows
  <2> SUFFICES ASSUME StandbyInv, FollowInv, up PROVE memory = Truth(ShownAt)
    BY DEF Follows, ShownAt
  <2>1. Regular(history) /\ memory = Shown(history, ShownAt)
    BY DEF FollowInv, ShownInv
  <2>2. ShownAt \in 0..Len(history)
    BY ShownArchived DEF End
  <2> QED BY <2>1, <2>2, TruthIs DEF Truth
<1> QED BY <1>1, <1>2, <1>3, PTL DEF Spec

\* What was applied survives a restart, where images are taken between transactions: a
\* standby opens to exactly what the primary had at the end of the standby's log
\* (open_impl after append_shipped).
THEOREM AppliedRecordsSurvive == ~CutImages => (Spec => AppliedSurvives)
<1> SUFFICES ASSUME ~CutImages PROVE Spec => AppliedSurvives
  OBVIOUS
<1>1. Init => StandbyInv /\ FollowInv
  BY StandbyInit, FollowInit
<1>2. StandbyInv /\ FollowInv /\ [Next]_vars => (StandbyInv /\ FollowInv)'
  BY StandbyStep, FollowStep
<1>3. StandbyInv /\ FollowInv /\ [Next]_vars => [~up /\ up' => memory' = Truth(position)]_vars
  <2> SUFFICES ASSUME StandbyInv, FollowInv, Next, ~up, up' PROVE memory' = Truth(position)
    BY DEF vars, engineVars
  <2>1. Open
    <3>1. apply = "idle" /\ fold = "idle" /\ readers = {}
      BY DEF StandbyInv, EngineInv
    <3> QED BY <3>1 DEF Next, Primary, Commit, Abort, Ends, Write, PrepareTxn, PrimaryCheckpoint,
              PrimaryCrash, StandbyStays, Seed, Close, ReaderBegin, ReaderEnd, Poll, ReadWhole, ReadCut,
              ApplyRead, ApplyBusy, ApplyQuiet, ApplyReplay, ApplyAppend, ApplyAppendFails, Fold,
              FoldHold, FoldGivesUp, FoldWrite, engineVars
  <2>2. FollowInv' /\ StandbyInv'
    BY <2>1, FollowOpen, OpenStep
  <2>3. /\ history' = history /\ position' = position /\ apply' = "idle" /\ ~failed'
    BY <2>1 DEF Open, primaryVars, threadVars, StandbyInv, EngineInv
  <2>4. memory' = Shown(history, position)
    <3>1. memory' = Shown(history', ShownAt')
      BY <2>2 DEF FollowInv, ShownInv
    <3>2. ShownAt' = position
      BY <2>3 DEF ShownAt
    <3> QED BY <2>3, <3>1, <3>2
  <2>5. Regular(history) /\ position \in 0..Len(history)
    BY ShownArchived DEF FollowInv, End
  <2> QED BY <2>4, <2>5, TruthIs DEF Truth
<1> QED BY <1>1, <1>2, <1>3, PTL DEF Spec, AppliedSurvives
=============================================================================
