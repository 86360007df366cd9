SPECIFICATION FairSpec
CONSTANTS
    g = g
    h = h
    t1 = t1
    t2 = t2
    u1 = u1
    Goals <- TwoGoals
    Tasks <- TwoTasks
    GoalOf <- TwoOf
    MaxWorkers = 2
    RequireApproval = FALSE
    TaskApprovals = FALSE
    MaxCrashes = 2
INVARIANTS
    TypeOK
    PermitsBalanced
    CompletedIsNotRestarted
    CompletedGoalIsDone
PROPERTIES
    DispatchEnds
CHECK_DEADLOCK FALSE
