--------------------------- MODULE MCTrafficSync ---------------------------
(***************************************************************************)
(* Instances of TrafficSync for TLC: two properties that have some days and *)
(* queries in common and others each of its own.                            *)
(***************************************************************************)
EXTENDS TrafficSync, TLC

CONSTANTS old, young, q1, q2, k1, k2

MCHas == [ga4 |-> old :> {<<1, k1>>, <<3, k1>>} @@
                 young :> {<<2, k1>>, <<3, k1>>},
          gsc |-> old :> {<<1, k1>>, <<2, k1>>, <<3, k2>>} @@
                 young :> {<<1, k2>>, <<2, k1>>, <<2, k2>>}]

\* The tick of day 4 is the first to hear of day 2 from Search Console, and day 3
\* comes after the run.
MCLatency == [ga4 |-> 0, gsc |-> 1]

\* Requests are interchangeable: the first to come is called q1.
InOrder == Under(q1, "idle") => Under(q2, "idle")

MCCronDays == [ga4 |-> 1, gsc |-> 2]
=============================================================================
