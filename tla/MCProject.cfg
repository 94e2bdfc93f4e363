SPECIFICATION Spec
CONSTANTS
    None = None
    Dir = Dir
    Mine = Mine
    f = f
    g = g
    Order <- MCOrder
    Trees <- MCTrees
    Retained = 1
    MaxEdits = 1
    MaxBreaks = 1
    MaxInputs = 2
INVARIANT InstalledIsInput
INVARIANT DisplacedIsKept
CHECK_DEADLOCK FALSE
