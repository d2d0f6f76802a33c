\* Safety and liveness: up to two calls are cut short.
CONSTANTS
    jA = jA
    jB = jB
    t1 = t1
    t2 = t2
    t3 = t3
    Jobs = {jA, jB}
    TasksOf <- MCTasksOf
    MaxCuts = 2

SPECIFICATION FairSpec

INVARIANTS
    ShownEndIsTrue

PROPERTIES
    EndedJobIsFinal
    EveryJobEnds
