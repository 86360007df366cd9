CONSTANTS
    g1 = g1
    g2 = g2
    g3 = g3
    Goals <- Three
    MaxGoals = 1
    MailboxBuffer = 1
    AutoIntake = TRUE
    RequireApproval = FALSE
    Answers = {"error", "answer", "coding"}
    Decisions = {"allow", "require_approval", "deny"}
    Tamper = TRUE
    Budget <- BudgetAuto
    Signals = TRUE
SPECIFICATION Spec
SYMMETRY Symmetry
INVARIANTS
    TypeOK
    JoinedBeforeReturn
    AdmissionBound
    SolicitationComplete
