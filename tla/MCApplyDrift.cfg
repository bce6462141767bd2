CONSTANTS
    p1 = p1
    p2 = p2
    Procs = {p1, p2}
    NoProc = NoProc
    N = 2
    NewFiles <- MCNewFiles
    PidReuse = FALSE
    MaxCrashes = 0
    MaxFaults = 0
    MaxEdits = 1
SPECIFICATION Spec
INVARIANT CandidateDriftIsRejected
