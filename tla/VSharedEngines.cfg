\* TLC stops at the first of these properties it finds violated: leave one of
\* them to see its counterexample.
SPECIFICATION Spec
CONSTANTS
    g1 = g1
    g2 = g2
    r1 = r1
    r2 = r2
    None = None
    Goals <- MCGoals
    Recipes <- MCRecipes
    Base <- MCBase
    FixedSockets = FALSE
    MaxReplans = 1
    MaxCrashes = 0
CHECK_DEADLOCK FALSE
INVARIANTS
    GateIsOwn
    DecidedByOwnEngine
