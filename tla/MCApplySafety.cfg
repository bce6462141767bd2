CONSTANTS
    p1 = p1
    p2 = p2
    p3 = p3
    Procs = {p1, p2, p3}
    NoProc = NoProc
    N = 2
    NewFiles <- MCNewFiles
    PidReuse = TRUE
    MaxCrashes = 2
    MaxFaults = 1
    MaxEdits = 1
SYMMETRY CallSymmetry
SPECIFICATION Spec
INVARIANTS
    TypeOK
    MutualExclusion
    StateDiskAgreement
    MutationIsJournaled
    TerminalStateIsTrue
    OutcomeHolds
    UnlockedEditsSurvive
PROPERTIES
    EvidenceIsFrozen
    RecoveryLockIsPreserved
    AppliesAtomically
