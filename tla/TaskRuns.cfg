SPECIFICATION LiveSpec
CONSTANTS
    Tasks = {a, b}
    Persistent = {b}
    NumRoles = 1
    None = None
    MaxActivations = 2
    MaxConnects = 1
    MaxStops = 1
    MaxFaults = 1
    MaxCrashes = 1
INVARIANT WorksOnItsSources
INVARIANT RecordedBatchComplete
INVARIANT CommittedRolesSkipped
PROPERTY ClosedForever
PROPERTY ReportedBeforeOutcome
PROPERTY EveryTaskSettles
CHECK_DEADLOCK FALSE
