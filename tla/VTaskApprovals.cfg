\* TLC stops at the first of these properties it finds violated: leave one of
\* them to see its counterexample.
SPECIFICATION Spec
CONSTANTS
    g = g
    h = h
    t1 = t1
    t2 = t2
    u1 = u1
    Goals <- OneGoals
    Tasks <- OneTasks
    GoalOf <- OneOf
    MaxWorkers = 2
    RequireApproval = FALSE
    TaskApprovals = TRUE
    MaxCrashes = 1
SYMMETRY Symmetry
CHECK_DEADLOCK FALSE
INVARIANTS
    DeniedIsNotRun
    CompletedIsNotRestarted
    CompletedGoalIsDone
    ApprovedIsDispatched
