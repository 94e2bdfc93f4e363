SPECIFICATION Spec
CONSTANTS
    Clients = {c1}
    MaxRetries = 1
    Capacity = 2
    Keep = 2
    MaxText = 1
    ManagerCalls = 2
    WorkerCalls = 1
    MaxPosts = 1
    MaxConnects = 1
    MaxOthers = 1
INVARIANT ShownOnce
INVARIANT ClientCurrent
CHECK_DEADLOCK FALSE
