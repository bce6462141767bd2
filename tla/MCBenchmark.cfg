SPECIFICATION Spec
CONSTANTS
    c1 = c1
    c2 = c2
    m1 = m1
    m2 = m2
    m3 = m3
    m4 = m4
    l1 = l1
    l2 = l2
    w1 = w1
    w2 = w2
    w3 = w3
    r1 = r1
    r2 = r2
    Configurations = {c1, c2}
    MaxFaults = 2
    None = None
    Mutations <- MCMutations
    Expected <- MCExpected
    Nothing = Nothing
    LedgerWriters = {w1, w2, w3}
    LedgerReaders = {r1, r2}
    Ledgers = {l1, l2}
    MaxInterventions = 2
    NoFile = NoFile
SYMMETRY Symmetric
INVARIANTS PairIsKept ObservationIsTrue ScoreIsHonest LedgerHasOneAuthor
CHECK_DEADLOCK FALSE
