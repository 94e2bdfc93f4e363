SPECIFICATION Spec
CONSTANTS
    Roles = {r1}
    Real = {}
    Users = {}
    MaxMessages = 0
    MaxFaults = 1
    MaxStops = 0
    MaxTurnEnds = 0
INVARIANT PassedIsCommitted
CHECK_DEADLOCK FALSE
