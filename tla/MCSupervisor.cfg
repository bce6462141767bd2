SPECIFICATION FairSpec
CONSTANT Kinds <- MCKinds
INVARIANTS PassIsWhole VerdictLeavesNothing
PROPERTY CallEnds
