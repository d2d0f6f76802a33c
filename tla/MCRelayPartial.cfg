\* One attempt, no fault.
CONSTANTS
    Task = task
    Scopes = {task}
    Attempts = {1}
    Steps = {1, 2}
    Keys = {1, 2}
    Hashes = {"partial", "whole"}
    Worlds = {1}
    MaxManifests = 6
    LastStep = 2
    MaxAttempts = 1
    MaxFaults = 0

SPECIFICATION Spec

\* A task that is done or out of attempts stays so.
CHECK_DEADLOCK FALSE

INVARIANTS
    ResumableIsWhole
