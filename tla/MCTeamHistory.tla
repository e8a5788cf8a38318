---------------------------- MODULE MCTeamHistory ----------------------------
(***************************************************************************)
(* Instances of TeamHistory for TLC.                                       *)
(***************************************************************************)
EXTENDS TeamHistory, TLC

\* Calls of one kind are interchangeable: each chooses its caller and target
\* when it begins.
Symmetry == Permutations(Invites) \cup Permutations(Removals)
            \cup Permutations(RoleChanges) \cup Permutations(Accepts)
=============================================================================
