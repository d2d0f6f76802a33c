\* No request fails: the lease alone lapses while the task runs.
CONSTANTS
    t1 = t1
    t2 = t2
    self = self
    other = other
    jA = jA
    Tasks <- MCTasks
    Jobs = {jA}
    Nodes = {self, other}
    JobOf <- MCJobOf
    MaxAttempts <- MCMaxAttempts
    LeaseTime <- MCLeaseTime
    Self = self
    Enforcing = TRUE
    MaxTasks = 2
    MaxFailures = 1
    MaxFaults = 0

SPECIFICATION Spec

INVARIANTS
    NeverRaises
