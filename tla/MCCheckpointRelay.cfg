\* Two attempts of two checkpoints each, one request lost or
\* one restart of the coordinator.
CONSTANTS
    Task = task
    Scopes = {task}
    Attempts = {1, 2}
    Steps = {1, 2}
    Keys = {1, 2}
    Hashes = {"partial", "whole"}
    Worlds = {1}
    MaxManifests = 24
    LastStep = 2
    MaxAttempts = 2
    MaxFaults = 1

SPECIFICATION Spec

\* A task that is done or out of attempts stays so.
CHECK_DEADLOCK FALSE

INVARIANTS
    ManifestHasBytes
    FinalSweepShips

PROPERTIES
    ResumesWhereShipped
