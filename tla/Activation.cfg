SPECIFICATION LiveSpec
CONSTANTS
    None = None
    MaxWrites = 3
    MaxFaults = 1
    MaxCrashes = 1
INVARIANT PairMatchesAnswer
INVARIANT ArchiveIsQuiescent
INVARIANT RoleOwnsInput
INVARIANT UnsupportedFactsDisputed
PROPERTY AnsweredOnce
PROPERTY CommitsTriples
PROPERTY EventuallyVerified
CHECK_DEADLOCK FALSE
