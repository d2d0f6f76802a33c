------------------------------ MODULE MCRounds ------------------------------
EXTENDS Rounds
CONSTANTS s1, s2
mcDrivers == {"fedavg", "kmeans"}
mcShards == {s1, s2}
=============================================================================
