----------------------------- MODULE MCTwoPhase -----------------------------
(* TwoPhase on a small instance.                                           *)
EXTENDS TwoPhase

CONSTANTS r1, g1
=============================================================================
