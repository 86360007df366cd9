SPECIFICATION PlanSpec
CONSTANTS
    g1 = g1
    g2 = g2
    v1 = v1
    v2 = v2
    resume = resume
    fold = fold
    cancel = cancel
    None = None
    Goals <- MCGoals
    Values <- MCValues
    Key = g1
    First = v1
    Refined = v2
    Resumers = {resume}
    Folders = {fold}
    Cancellers = {cancel}
    IOErrors = FALSE
    MaxPuts = 1
    MaxWrites = 4
    MaxCrashes = 0
CHECK_DEADLOCK FALSE
INVARIANTS
    ConsumedOnce
    FoldedIsNotHeld
