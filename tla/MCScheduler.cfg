SPECIFICATION SchedulerSpec
CONSTANTS
    Requests = {r1, r2, r3}
    Slots = 2
    HeavySlots = 1
    MemBudget = 3
    Estimates = {0, 3, 4}
    MaxSegments = 2
SYMMETRY Interchangeable
INVARIANT StatsHonest
INVARIANT NothingLeaks
INVARIANT NobodyStuck
CHECK_DEADLOCK FALSE
