CONSTANTS
    None = None
    Torn = Torn
    Damaged = Damaged
    Steps = 2
    Every = 1
    MaxRestarts = 1
    MaxSubmits = 2
    MaxFaults = 0
    Workloads <- MCWorkloads

SPECIFICATION Spec

INVARIANTS
    FaultlessRunSucceeds

CHECK_DEADLOCK FALSE
