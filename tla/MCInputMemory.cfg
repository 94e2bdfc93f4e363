SPECIFICATION Spec
CONSTANTS
    Inputs <- MCInputs
    Edits <- MCEdits
    MaxBatches = 2
    MaxOps = 2
INVARIANT VersionsKept
INVARIANT AgreedKept
INVARIANT AcceptedOnEvidence
CHECK_DEADLOCK FALSE
