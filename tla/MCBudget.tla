------------------------------ MODULE MCBudget ------------------------------
(***************************************************************************)
(* Instances of Budget for TLC.  Caps leave room for about two stakes, so   *)
(* that the third request is refused; one cost is below every stake and one *)
(* above it.                                                               *)
(***************************************************************************)
EXTENDS Budget, TLC

MCStake ==
    [k \in AllKinds |-> CASE k = "gated" -> 3
                          [] k = "bot"   -> 2
                          [] k = "fleet" -> 2]
MCCosts == {1, 4}
AllThreeKinds == AllKinds
GatedAndBot  == {"gated", "bot"}

Symmetry == Permutations(Calls)
=============================================================================
