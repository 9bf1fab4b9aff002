---------------------------- MODULE MCMvccEngine ----------------------------
(* Instances of MvccEngine for TLC: every row in one table.                  *)
EXTENDS MvccEngine

CONSTANT t1             \* the table

OneTable == [r \in Row |-> t1]
=============================================================================
