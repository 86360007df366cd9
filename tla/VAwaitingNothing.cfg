SPECIFICATION Spec
CONSTANTS
    g = g
    h = h
    t1 = t1
    t2 = t2
    u1 = u1
    Goals <- OneGoals
    Tasks <- OneTasks
    GoalOf <- OneOf
    MaxWorkers = 1
    RequireApproval = FALSE
    TaskApprovals = TRUE
    MaxCrashes = 1
INVARIANTS
    AwaitingHasPending
SYMMETRY Symmetry
CHECK_DEADLOCK FALSE
