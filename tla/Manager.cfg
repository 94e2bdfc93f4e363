SPECIFICATION Spec
CONSTANTS
    Roles = {r1}
    Real = {r1}
    Users = {u1}
    MaxMessages = 1
    MaxFaults = 1
    MaxStops = 1
    MaxTurnEnds = 1
INVARIANT OneVerdict
INVARIANT ProjectedOnce
INVARIANT IdleMeansDone
INVARIANT AcceptedSeen
INVARIANT NoRequestStranded
CHECK_DEADLOCK FALSE
