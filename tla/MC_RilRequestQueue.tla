------------------------ MODULE MC_RilRequestQueue --------------------------
(* Model-checking instance of RilRequestQueue: three RILEvent allocations, *)
(* a clock bounded by MaxTime, delays 0 and 1 so that events tie and       *)
(* overtake.                                                               *)
EXTENDS RilRequestQueue

CONSTANTS n1, n2, n3

MC_Nodes == {n1, n2, n3}
=============================================================================
