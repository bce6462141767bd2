CONSTANTS
    p1 = p1
    p2 = p2
    p3 = p3
    c1 = c1
    c2 = c2
    Procs = {p1, p2, p3}
    NoProc = NoProc
    Candidates = {c1, c2}
    CandidateOf <- MCOtherCandidate
    Overlap = FALSE
    MaxCrashes = 2
    MaxFaults = 1
    MaxEdits = 1
SPECIFICATION FairSpec
INVARIANTS
    ReceiptIsVerified
    RejectionIsExplained
PROPERTIES
    LifecycleFollowsTable
    InterruptedRunEnds
    VerifiedRunFinishes
