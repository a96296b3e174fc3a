\* A cancel request while coordinator_spawn waits for the coordinator.
CONSTANTS
    r1 = r1
    r2 = r2
    r3 = r3
    c1 = c1
    c2 = c2
    NoRun = NoRun
    NoCheckpoint = NoCheckpoint
    Runs <- TwoRuns
    Clients <- OneClient
    NPhases = 2
    Skippable <- NoneSkippable
    Catching <- FirstCatches
    Surfaces = {"chat"}
    MaxSubmits = 1
    MaxTimeouts = 0
    MaxErrors = 0
    MaxCrashes = 0
SPECIFICATION Spec
PROPERTIES
    CancelledRunIsDiscarded
\* The job comes to rest when its runs have ended and nobody asks for more.
CHECK_DEADLOCK FALSE
