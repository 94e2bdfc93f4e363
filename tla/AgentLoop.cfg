\* The four agents, two queries, two calls, two mishaps of any sort.
SPECIFICATION Spec
CONSTANTS
    Kinds = {"manager", "executor", "verifier", "organizer"}
    MaxQueries = 2
    MaxSteps = 2
    MaxCalls = 2
    MaxReplies = 2
    MaxAppends = 1
    MaxMishaps = 2
    None = None
INVARIANT RequestsPaired
INVARIANT CancelsItsTurn
PROPERTY ResultsFinal
PROPERTY NothingForgotten
PROPERTY Served
CHECK_DEADLOCK FALSE
