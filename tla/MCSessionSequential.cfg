CONSTANTS
    p1 = p1
    p2 = p2
    p3 = p3
    Procs = {p1, p2, p3}
    NoProc = NoProc
    Missing = Missing
    Foreign = Foreign
    ChildOutcomes <- MCOutcomes
    AttemptBudget = 3
    TokenBudget = 3
    WallBudget = 3
    CostBudget = 3
    RetryRoutes = {"verifier_failure"}
    Overlap = FALSE
    MaxCrashes = 1
    MaxFaults = 1
SPECIFICATION FairSpec
INVARIANTS
    RetryWithinBudget
    OneTerminalArtifact
PROPERTIES
    CallEnds
    ResumedSessionTerminates
