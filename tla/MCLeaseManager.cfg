\* Safety and liveness: three tasks of two jobs, two nodes; only the clock and
\* the sweeper are fair.
CONSTANTS
    t1 = t1
    t2 = t2
    t3 = t3
    n1 = n1
    n2 = n2
    jA = jA
    jB = jB
    Tasks <- MCTasks
    Jobs = {jA, jB}
    Nodes = {n1, n2}
    JobOf <- MCJobOf
    Fits <- MCFits
    MaxAttempts <- MCMaxAttempts
    LeaseTime <- MCLeaseTime

SPECIFICATION SweptSpec

INVARIANTS
    RetryBudget

PROPERTIES
    LeaseOnlyUnheldTasks
    ClaimMissesNothing
    ImplementsContract
    EveryTaskSettles
