---------------------------- MODULE MCIbcTracker ----------------------------
(* An instance of IbcTracker for TLC: a plain transfer, and a swap on each of *)
(* the chains of the route.                                                   *)
EXTENDS IbcTrackerInv

EveryRoute == 0..(N + 1)
=============================================================================
