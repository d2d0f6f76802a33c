SPECIFICATION Spec
CONSTANTS
    s1 = s1
    s2 = s2
    Drivers <- mcDrivers
    Shards <- mcShards
    Rounds = 3
    MinParticipants = 1
    MaxAttempts = 2
    RoundTimeout = 1
    PollAttempts = 2
    MaxRestarts = 2
    MaxFaults = 1
INVARIANT ToldRoundsStand
PROPERTIES WeightsAreEarned RunEnds
CHECK_DEADLOCK FALSE
