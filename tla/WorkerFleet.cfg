SPECIFICATION Spec
CONSTANTS
    a = a
    b = b
    None = None
    Workers <- MCWorkers
    Entries <- MCEntries
    Harness <- MCHarness
    Cost <- MCCost
    Limit <- MCLimit
    Tier <- MCTier
    Secret = {2, 3, 4}
    MinCapability = 1
    Sensitive = TRUE
    Window = 0
    MaxAttempts = 2
    MaxIterations = 2
    Concurrency = 1
    MaxClock = 2
    MaxCrashes = 1
INVARIANTS
    PublishedIsVerified
    EscalationClimbs
    SpentIsNotSelected
SYMMETRY Symmetry
CHECK_DEADLOCK FALSE
