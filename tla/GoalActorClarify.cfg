CONSTANTS
    g1 = g1
    g2 = g2
    g3 = g3
    Goals <- Two
    MaxGoals = 1
    MailboxBuffer = 2
    AutoIntake = FALSE
    RequireApproval = FALSE
    Answers = {"error", "answer", "coding"}
    Decisions = {"allow", "require_approval", "deny"}
    Tamper = TRUE
    Budget <- BudgetClarify
    Signals = TRUE
SPECIFICATION FairSpec
CHECK_DEADLOCK FALSE
INVARIANTS
    InfoAppliedOnce
PROPERTIES
    CancelStops
    ShutdownDrains
    QueuedIsAdmitted
