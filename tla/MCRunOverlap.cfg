CONSTANTS
    p1 = p1
    p2 = p2
    p3 = p3
    c1 = c1
    c2 = c2
    Procs = {p1, p2}
    NoProc = NoProc
    Candidates = {c1, c2}
    CandidateOf <- MCSameCandidate
    Overlap = TRUE
    MaxCrashes = 2
    MaxFaults = 1
    MaxEdits = 1
SYMMETRY CallSymmetry
SPECIFICATION Spec
INVARIANTS
    TypeOK
    BundleIsConsistent
    ReceiptHasBundle
