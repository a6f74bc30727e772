------------------------------- MODULE MCSteps -------------------------------
(* Two days; counts around the persist threshold and around two targets.   *)
EXTENDS Steps
=============================================================================
