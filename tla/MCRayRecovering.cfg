\* One worker that is replaced.
CONSTANTS
    c1 = c1
    c2 = c2
    MaxWorkers = 2
    Replicas = 1
    Requests = {c1, c2}
    MaxFaults = 1

SPECIFICATION RaySpec
PROPERTIES WorkersBackIsSeen
CHECK_DEADLOCK FALSE
