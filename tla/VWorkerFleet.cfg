SPECIFICATION Spec
CONSTANTS
    a = a
    b = b
    None = None
    Workers <- MCWorkers
    Entries = {1, 3}
    Harness <- MCHarness
    Cost <- MCCost
    Limit <- MCLimit
    Tier <- MCTier
    Secret = {2, 3, 4}
    MinCapability = 1
    Sensitive = TRUE
    Window = 0
    MaxAttempts = 2
    MaxIterations = 2
    Concurrency = 2
    MaxClock = 2
    MaxCrashes = 0
SYMMETRY Symmetry
CHECK_DEADLOCK FALSE
INVARIANTS
    BranchIsGateVerified
    PublishedOnOwnBranch
    UsageIsPersisted
    BudgetIsKept
