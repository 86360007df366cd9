SPECIFICATION Spec
CONSTANTS
    g = g
    h = h
    t1 = t1
    t2 = t2
    u1 = u1
    Goals <- OneGoals
    Tasks <- OneTasks
    GoalOf <- OneOf
    MaxWorkers = 1
    RequireApproval = TRUE
    TaskApprovals = FALSE
    MaxCrashes = 1
INVARIANTS
    UnapprovedIsNotRun
SYMMETRY Symmetry
CHECK_DEADLOCK FALSE
