\* TLC stops at the first of these properties it finds violated: leave one of
\* them to see its counterexample.
SPECIFICATION FairSpec
CONSTANTS
    build = build
    test = test
    Steps <- GateSteps
    MaxAttempts = 2
    MaxRuns = 2
CHECK_DEADLOCK FALSE
INVARIANTS
    NilMeansPublished
    SignedIsSealed
PROPERTIES
    ApprovalReachesHook
    TimeoutReturns
