----------------------------- MODULE MCPlanSync -----------------------------
(* PlanSync with two tabs.  Nothing tells them apart.                      *)
EXTENDS PlanSync, TLC
TabSymmetry == Permutations(Clients)
=============================================================================
