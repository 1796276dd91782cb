---------------------------- MODULE MCLifecycle -----------------------------
(* Values of the constants of Lifecycle for model checking.                   *)
EXTENDS Lifecycle, TLC

AllFaults == FaultKinds
NoFaults == {}

(* Once an increment is lost every property but the types is given up, for ever: what comes  *)
(* after it is not explored.                                                                 *)
StillCounts == "in" \notin missed

=============================================================================
