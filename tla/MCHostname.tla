------------------------------ MODULE MCHostname ------------------------------
(***************************************************************************)
(* Instances of Hostname for TLC: tenants, variants and slots are           *)
(* interchangeable.                                                        *)
(***************************************************************************)
EXTENDS Hostname, TLC

CONSTANTS apex, www, s1, s2, o1, o2

Symmetry == Permutations(Slugs) \cup Permutations(Ops)
=============================================================================
