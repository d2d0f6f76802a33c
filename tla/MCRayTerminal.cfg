\* A cancellation on its way when the watcher fails.
CONSTANTS
    c1 = c1
    c2 = c2
    MaxWorkers = 2
    Replicas = 1
    Requests = {c1, c2}
    MaxFaults = 1

SPECIFICATION RaySpec
PROPERTIES TerminalRowIsFinal
CHECK_DEADLOCK FALSE
