------------------------------ MODULE MCMcpGate ------------------------------
(***************************************************************************)
(* Instances of McpGate for TLC: clients are interchangeable.               *)
(***************************************************************************)
EXTENDS McpGate, TLC

CONSTANTS c1, c2, c3, i1, do

Symmetry == Permutations(Ips)
=============================================================================
