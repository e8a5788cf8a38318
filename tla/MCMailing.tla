------------------------------ MODULE MCMailing ------------------------------
(***************************************************************************)
(* Instances of Mailing for TLC.                                            *)
(***************************************************************************)
EXTENDS Mailing

CONSTANTS d1, m1, m2, b1, r1
=============================================================================
