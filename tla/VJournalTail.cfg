\* TLC stops at the first of these properties it finds violated: leave one of
\* them to see its counterexample.
CONSTANTS
    g1 = g1
    g2 = g2
    v1 = v1
    v2 = v2
    None = None
    Goals <- MCGoals
    Values <- MCValues
    IOErrors = FALSE
    MaxWrites = 3
    MaxCrashes = 2
SPECIFICATION Spec
CHECK_DEADLOCK FALSE
INVARIANTS
    CrashIsTolerated
PROPERTIES
    UnterminatedIsDropped
