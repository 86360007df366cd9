\* TLC stops at the first of these properties it finds violated: leave one of
\* them to see its counterexample.
SPECIFICATION Spec
CONSTANTS
    o = o
    a = a
    b = b
    c1 = c1
    c2 = c2
    c3 = c3
    None = None
    Owner = o
    Static <- MCStatic
    Modes <- MCModes
    Inputs <- MCInputs
    MaxSent = 3
    MaxCrashes = 1
CHECK_DEADLOCK FALSE
INVARIANTS
    FailedApprovalIsNone
    TaskApprovalIsDerived
    ThreadsOwnChat
