CONSTANTS
    p1 = p1
    p2 = p2
    p3 = p3
    Procs = {p1, p2, p3}
    NoProc = NoProc
    Missing = Missing
    Foreign = Foreign
    ChildOutcomes <- MCFewOutcomes
    AttemptBudget = 1
    TokenBudget = 3
    WallBudget = 3
    CostBudget = Missing
    RetryRoutes = {"verifier_failure"}
    Overlap = TRUE
    MaxCrashes = 1
    MaxFaults = 0
SPECIFICATION Spec
INVARIANT ChildExecutedByOne
