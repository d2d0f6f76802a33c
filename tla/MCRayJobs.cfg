\* A group of one worker that may be replaced once, two cancellations and one
\* failed call or restart.
CONSTANTS
    c1 = c1
    c2 = c2
    MaxWorkers = 2
    Replicas = 1
    Requests = {c1, c2}
    MaxFaults = 1

SPECIFICATION FairRaySpec

INVARIANTS
    EndsAreTrue

PROPERTIES
    CancelSticks
    JobSettles

CHECK_DEADLOCK FALSE
