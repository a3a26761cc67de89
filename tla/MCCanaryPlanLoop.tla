-------------------------- MODULE MCCanaryPlanLoop --------------------------
(* Instance of CanaryPlanLoop for TLC: every argument around the clamps. *)
EXTENDS CanaryPlanLoop

MCResting  == 0 .. 5
MCWeights  == {-1, 0, 1, 7, 10, 25, 33, 34, 50, 66, 75, 90, 99, 100, 120}
MCMaxPools == 1 .. 9
=============================================================================
