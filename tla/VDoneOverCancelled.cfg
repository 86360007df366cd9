CONSTANTS
    g1 = g1
    g2 = g2
    g3 = g3
    Goals <- Two
    MaxGoals = 1
    MailboxBuffer = 2
    AutoIntake = TRUE
    RequireApproval = FALSE
    Answers = {"coding"}
    Decisions = {"allow"}
    Tamper = FALSE
    Budget <- BudgetOneGoal
    Signals = FALSE
SPECIFICATION Spec
CHECK_DEADLOCK FALSE
PROPERTIES
    DoneKeepsCancelled
