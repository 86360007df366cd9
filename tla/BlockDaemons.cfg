SPECIFICATION FairSpec
CONSTANTS
    g1 = g1
    g2 = g2
    r1 = r1
    r2 = r2
    None = None
    Goals <- MCGoals
    Recipes <- MCRecipes
    Base <- MCBase
    FixedSockets = TRUE
    MaxReplans = 1
    MaxCrashes = 1
INVARIANTS
    BoxWasAllowed
    BaseNarrows
    DaemonsAreOwned
PROPERTY
    GoalsEnd
CHECK_DEADLOCK FALSE
