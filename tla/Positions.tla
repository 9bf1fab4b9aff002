----------------------------- MODULE Positions -----------------------------
(***************************************************************************)
(* Subsequences, by the set of positions they keep.  The filters of        *)
(* Sequences and SequencesExt take the test as an operator and recurse;    *)
(* these do neither, so that the proofs can reason about them.             *)
(***************************************************************************)
EXTENDS Naturals, Sequences, FiniteSets

\* The i-th of a set of positions.
Nth(at, i) == CHOOSE j \in at : Cardinality({k \in at : k <= j}) = i

\* What s has at the positions `at`, in their order.
Pick(s, at) == [i \in 1..Cardinality(at) |-> s[Nth(at, i)]]

\* How many of the positions `at` are among the first n.
Rank(at, n) == Cardinality({i \in at : i <= n})

\* The last element of s under name n (0: none).
LastNamed(s, n) ==
    LET at == {i \in 1..Len(s) : s[i].name = n}
    IN  IF at = {} THEN 0 ELSE CHOOSE i \in at : \A j \in at : j <= i
=============================================================================
