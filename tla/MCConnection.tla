---------------------------- MODULE MCConnection ----------------------------
(* Connection on a small instance.                                         *)
EXTENDS Connection, TLC

CONSTANTS c1, k1, k2
OneCon == {c1}
TwoKeys == {k1, k2}
Mixes ==
    {[stmts |-> 5, asides |-> 0], [stmts |-> 3, asides |-> 1],
     [stmts |-> 2, asides |-> 2], [stmts |-> 1, asides |-> 3]}
KeySymmetry == Permutations({k1, k2})
=============================================================================
