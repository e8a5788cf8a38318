--------------------------- MODULE MCRailwaySync ---------------------------
(***************************************************************************)
(* Instances of RailwaySync for TLC.                                       *)
(***************************************************************************)
EXTENDS RailwaySync

CONSTANTS t1, t2, x, w1, w2, a1, r1

ForOne == [c \in Calls |-> t1]
ForTwo == [c \in Calls |-> IF c = w2 THEN t2 ELSE t1]

\* Each tenant under its own domain, or one whose domain is on file for slug x.
KvOwn  == [t \in Tenants |-> t]
KvSplit == [t \in Tenants |-> IF t = t2 THEN x ELSE t]
KvLost == [t \in Tenants |-> x]

FromX == [c \in Rotations |-> x]
=============================================================================
