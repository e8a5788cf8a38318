------------------------------ MODULE MCContact ------------------------------
(***************************************************************************)
(* Instances of Contact for TLC.                                            *)
(***************************************************************************)
EXTENDS Contact

CONSTANTS c1, c2, c3, h1, k1
=============================================================================
