CONSTANTS
    p1 = p1
    p2 = p2
    p3 = p3
    Procs = {p1, p2, p3}
    NoProc = NoProc
    Missing = Missing
    Foreign = Foreign
    ChildOutcomes <- MCFewOutcomes
    AttemptBudget = 2
    TokenBudget = 3
    WallBudget = 3
    CostBudget = Missing
    RetryRoutes = {"verifier_failure"}
    Overlap = TRUE
    MaxCrashes = 2
    MaxFaults = 1
SYMMETRY CallSymmetry
SPECIFICATION Spec
INVARIANTS
    TypeOK
    ChildStartedOnce
    FinalIsBacked
