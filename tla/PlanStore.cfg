SPECIFICATION PlanSpec
CONSTANTS
    g1 = g1
    g2 = g2
    v1 = v1
    v2 = v2
    resume = resume
    fold = fold
    cancel = cancel
    None = None
    Goals <- MCGoals
    Values <- MCValues
    Key = g1
    First = v1
    Refined = v2
    Resumers = {resume}
    Folders = {fold}
    Cancellers = {cancel}
    IOErrors = TRUE
    MaxPuts = 2
    MaxWrites = 3
    MaxCrashes = 2
CHECK_DEADLOCK FALSE
INVARIANTS
    DispatchedIsNotHeld
PROPERTY ImplementsDurableMap
