-------------------------------- MODULE Hold --------------------------------
(***************************************************************************)
(* What reserve_slot and /a2a/confirm promise about one idempotency key:    *)
(* at most one hold is ever taken out under it, and a hold is decided once. *)
(***************************************************************************)
CONSTANT Keys

VARIABLE hold    \* the state of the hold taken out under each key

HoldStates == {"free", "held", "confirmed", "expired"}

Init == hold = [k \in Keys |-> "free"]

Take(k) == hold[k] = "free" /\ hold' = [hold EXCEPT ![k] = "held"]

Confirm(k) == hold[k] = "held" /\ hold' = [hold EXCEPT ![k] = "confirmed"]

\* One sweep expires any number of holds.
Expire ==
    \E lapsed \in SUBSET {k \in Keys : hold[k] = "held"} :
        hold' = [k \in Keys |-> IF k \in lapsed THEN "expired" ELSE hold[k]]

Next == Expire \/ \E k \in Keys : Take(k) \/ Confirm(k)

Spec == Init /\ [][Next]_hold
=============================================================================
