---------------------------- MODULE MCEngineWal ----------------------------
(* EngineWal on small instances: two interchangeable rows.                 *)
EXTENDS EngineWal, TLC

CONSTANTS r1, r2
OneRow == {r1}
TwoRows == {r1, r2}
RowSymmetry == Permutations({r1, r2})
=============================================================================
