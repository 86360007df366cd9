\* TLC stops at the first of these properties it finds violated: leave one of
\* them to see its counterexample.
SPECIFICATION FairSpec
CONSTANTS
    p1 = p1
    p2 = p2
    Procs <- MCProcs
    Deployments <- WithSchedule
    Entries <- MCEntries
    DayLen = 2
    QCap = 1
    None = None
CHECK_DEADLOCK FALSE
INVARIANTS
    MalformedIsIgnored
    SentInTime
PROPERTIES
    EndOfInputExits
