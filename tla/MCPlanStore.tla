---------------------------- MODULE MCPlanStore -----------------------------
(* PlanStore for TLC: one goal followed, one other goal, a caller of each  *)
(* kind.                                                                   *)
EXTENDS PlanStore

CONSTANTS g1, g2, v1, v2, resume, fold, cancel

MCGoals  == {g1, g2}
MCValues == {v1, v2}
=============================================================================
