\* TLC stops at the first of these properties it finds violated: leave one of
\* them to see its counterexample.
CONSTANTS
    g1 = g1
    g2 = g2
    g3 = g3
    Goals <- Two
    MaxGoals = 1
    MailboxBuffer = 2
    AutoIntake = TRUE
    RequireApproval = FALSE
    Answers = {"coding"}
    Decisions = {"allow"}
    Tamper = FALSE
    Budget <- BudgetClarify
    Signals = FALSE
SPECIFICATION FairSpec
CHECK_DEADLOCK FALSE
PROPERTIES
    SweptBeforeExit
    TerminalInfoIsAmended
