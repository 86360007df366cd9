CONSTANTS
    g1 = g1
    g2 = g2
    v1 = v1
    v2 = v2
    None = None
    Goals <- MCGoals
    Values <- MCValues
    IOErrors = TRUE
    MaxWrites = 3
    MaxCrashes = 2
SPECIFICATION Spec
CHECK_DEADLOCK FALSE
INVARIANTS
    TypeOK
    ReplaysInOrder
PROPERTIES
    ImplementsDurableMap
