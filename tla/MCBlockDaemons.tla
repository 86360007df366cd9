--------------------------- MODULE MCBlockDaemons ---------------------------
(* Instances of BlockDaemons for TLC: two goals, a recipe the deployment   *)
(* allows and one it does not.                                             *)
EXTENDS BlockDaemons

CONSTANTS g1, g2, r1, r2
MCGoals   == {g1, g2}
MCRecipes == {r1, r2}
MCBase    == {g1, g2, r1}
=============================================================================
