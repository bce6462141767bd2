SPECIFICATION Spec
CONSTANTS
    c1 = c1
    c2 = c2
    v1 = v1
    v2 = v2
    Nothing = Nothing
    Trees <- MCTrees
    PackPolicies <- MCPackPolicies
    MaxEdits = 2
    Requests <- MCRequests
    Registries <- MCRegistries
    Calls = {c1, c2}
    Invokers = {v1, v2}
SYMMETRY Symmetric
INVARIANTS PackIsHonest RouteIsKept
CHECK_DEADLOCK FALSE
