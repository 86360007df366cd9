CONSTANTS
    g1 = g1
    g2 = g2
    g3 = g3
    Goals <- Two
    MaxGoals = 1
    MailboxBuffer = 2
    AutoIntake = TRUE
    RequireApproval = TRUE
    Answers = {"coding"}
    Decisions = {"allow"}
    Tamper = FALSE
    Budget <- BudgetAuto
    Signals = FALSE
SPECIFICATION Spec
CHECK_DEADLOCK FALSE
INVARIANTS
    CancelledHasNoPlan
    LiveWithinMaxGoals
    ApprovalIsRouted
    LastSolicitationIsComplete
