\* An append that raises, and a restart.
CONSTANTS
    t1 = t1
    t2 = t2
    n1 = n1
    n2 = n2
    jA = jA
    Tasks <- MCTasks
    Jobs = {jA}
    Nodes = {n1, n2}
    JobOf <- MCJobOf
    Fits <- MCFits
    MaxAttempts <- MCMaxAttempts
    LeaseTime <- MCLeaseTime
    Faults = {"emit"}

SPECIFICATION Spec

PROPERTIES
    TerminalIsFinal
