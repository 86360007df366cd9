--------------------------- MODULE MCRunDispatch ---------------------------
(* Instances of RunDispatch for TLC: a goal of two sub-goals, and two      *)
(* goals of two and one.                                                   *)
EXTENDS RunDispatch, TLC

CONSTANTS g, h, t1, t2, u1
OneGoals  == {g}
OneTasks  == {t1, t2}
OneOf     == [t \in OneTasks |-> g]
TwoGoals  == {g, h}
TwoTasks  == {t1, t2, u1}
TwoOf     == [t \in TwoTasks |-> IF t = u1 THEN h ELSE g]
Symmetry  == Permutations({t1, t2})
============================================================================
