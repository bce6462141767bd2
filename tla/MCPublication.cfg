SPECIFICATION Spec
CONSTANTS
    e1 = e1
    e2 = e2
    a1 = a1
    v1 = v1
    d1 = d1
    d2 = d2
    k1 = k1
    k2 = k2
    None = None
    Exporters = {e1, e2}
    Attesters = {a1}
    Verifiers = {v1}
    Dirs = {d1, d2}
    FirstDir = d1
    Keys = {k1, k2}
    TrustedKey = k1
    Scenarios <- MCScenarios
SYMMETRY Symmetric
INVARIANTS OutputIsWhole SuccessStays FailureRetracts StandingPairIsAccepted
CHECK_DEADLOCK FALSE
