SPECIFICATION Spec
CONSTANTS
    e1 = e1
    e2 = e2
    Environments = {e1, e2}
    Parent <- MCParent
    Trees <- MCTrees
    Requests <- MCRequests
    CacheFailures = TRUE
    MaxRequests = 3
    MaxCollections = 1
SYMMETRY Swapped
INVARIANT ReplayedAsRun
CHECK_DEADLOCK FALSE
