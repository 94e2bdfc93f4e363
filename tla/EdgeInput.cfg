SPECIFICATION LiveSpec
CONSTANTS
    Sources = {s1, s2}
    Paths = {p1, p2}
    None = None
    Hole = Hole
    Edited = Edited
    Organized = TRUE
    MaxCalls = 2
    MaxFaults = 2
    MaxCrashes = 1
INVARIANT DecisionsFrozen
PROPERTY PublishesOnePair
PROPERTY ReadyUnlessDraftGone
