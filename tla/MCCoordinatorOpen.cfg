\* The open, self-hosted profile.
CONSTANTS
    t1 = t1
    t2 = t2
    n1 = n1
    n2 = n2
    jA = jA
    jB = jB
    plain = plain
    pooled = pooled
    Tasks <- MCTasks
    Jobs = {jA, jB}
    Nodes = {n1, n2}
    JobOf <- MCJobOf
    MaxAttempts <- MCMaxAttempts
    LeaseTime <- MCLeaseTime
    Profiles = {plain, pooled}
    Offers <- MCOffers
    Eligible <- MCEligible
    Enforcing = FALSE
    MaxUploads = 2

SPECIFICATION Spec

INVARIANTS
    DuplicateCannotPoison
