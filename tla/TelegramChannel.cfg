SPECIFICATION FairSpec
CONSTANTS
    o = o
    a = a
    b = b
    c1 = c1
    c2 = c2
    c3 = c3
    None = None
    Owner = o
    Static <- MCStatic
    Modes <- MCModes
    Inputs <- MCInputs
    MaxSent = 3
    MaxCrashes = 1
INVARIANTS
    DeliveredIsAdmitted
    DeliveredOnce
    NoneSkipped
    ApprovalIsDurable
PROPERTY UpdateIsHandled
CHECK_DEADLOCK FALSE
