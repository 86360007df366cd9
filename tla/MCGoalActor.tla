---------------------------- MODULE MCGoalActor ----------------------------
(* Instances of GoalActor for TLC.                                         *)
EXTENDS GoalActor, TLC

CONSTANTS g1, g2, g3

Two   == {g1, g2}
Three == {g1, g2, g3}
Symmetry == Permutations(Goals)

Msgs(n, i, c, k, a) ==
    [newGoal |-> n, info |-> i, cancel |-> c, confirm |-> k, approve |-> a]

BudgetAuto      == Msgs(2, 1, 1, 0, 1)
BudgetClarify   == Msgs(1, 1, 1, 1, 0)
BudgetOneGoal   == Msgs(1, 0, 1, 0, 0)
============================================================================
