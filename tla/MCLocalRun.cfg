CONSTANTS
    None = None
    Torn = Torn
    Damaged = Damaged
    Steps = 3
    Every = 1
    MaxRestarts = 1
    MaxSubmits = 2
    MaxFaults = 2
    Workloads <- MCWorkloads

SPECIFICATION FairSpec

INVARIANTS
    RestoredIsOwn
    FailureIsEarned

PROPERTIES
    LostWorkIsBounded
    RunEnds

CHECK_DEADLOCK FALSE
