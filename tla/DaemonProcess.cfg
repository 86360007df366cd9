SPECIFICATION FairSpec
CONSTANTS
    p1 = p1
    p2 = p2
    Procs <- MCProcs
    Deployments <- Ending
    Entries <- MCEntries
    DayLen = 2
    QCap = 1
    None = None
INVARIANT SingleInstance
INVARIANT FiredInTime
PROPERTY ScheduledIsRead
PROPERTY SignalEnds
CHECK_DEADLOCK FALSE
