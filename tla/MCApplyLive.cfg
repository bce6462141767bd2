CONSTANTS
    p1 = p1
    p2 = p2
    p3 = p3
    Procs = {p1, p2, p3}
    NoProc = NoProc
    N = 2
    NewFiles <- MCNewFiles
    PidReuse = FALSE
    MaxCrashes = 1
    MaxFaults = 0
    MaxEdits = 0
SPECIFICATION FairSpec
PROPERTIES
    CallEnds
    StaleLockIsCleared
