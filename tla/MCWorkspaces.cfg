SPECIFICATION Spec
CONSTANTS
    Callers = {c1}
    Archives = {a1, a2}
    Workplaces = {w1}
    Paths <- MCPaths
    Contents = {f, g}
    Typed = {g}
    Floors <- MCFloors
    Lefts <- MCLefts
    MaxMoves = 2
    MaxCalls = 4
    None = None
INVARIANT LayersAgree
INVARIANT CopyIsExact
INVARIANT AdoptedAsAsked
SYMMETRY Alike
CHECK_DEADLOCK FALSE
