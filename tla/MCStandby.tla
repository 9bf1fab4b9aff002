------------------------------ MODULE MCStandby ------------------------------
(* Standby on small instances.                                             *)
EXTENDS Standby

CONSTANTS r1, r2, g1, s1
=============================================================================
