---------------------------- MODULE MCReservation ----------------------------
(***************************************************************************)
(* Instances of Reservation for TLC: one unit of time is fifteen minutes, a *)
(* token lives two units (an hour in the code), retention a few more.      *)
(***************************************************************************)
EXTENDS Reservation

CONSTANTS q1, q2, q3, s1, s2, k1, k2, ag1, ag2

Ask(s, k, a, w) == [slug |-> s, key |-> k, agent |-> a, windowEnd |-> w]

\* Two agents share a key for a known business; an anonymous call for an
\* unknown business under another key only sweeps.
SharedKey ==
    [q \in Calls |-> CASE q = q1 -> Ask(s1, k1, ag1, 2)
                       [] q = q2 -> Ask(s1, k1, ag2, 2)
                       [] q = q3 -> Ask(s2, k2, NoAgent, 0)]
=============================================================================
