SPECIFICATION FairSpec
CONSTANTS
    build = build
    test = test
    Steps <- GateSteps
    MaxAttempts = 2
    MaxRuns = 2
INVARIANTS
    LoopJoined
    NilMeansSettled
    SignedIsSuccess
    HookMeansPaused
PROPERTIES
    ParkedIsLeft
    TimedRunEnds
CHECK_DEADLOCK FALSE
