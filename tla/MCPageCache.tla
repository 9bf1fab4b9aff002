----------------------------- MODULE MCPageCache -----------------------------
(* PageCache on small instances; pages and threads are interchangeable.    *)
EXTENDS PageCache, TLC

CONSTANTS p1, p2, t1, t2

Symmetry == Permutations(Page) \cup Permutations(Thread)
=============================================================================
