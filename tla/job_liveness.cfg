\* What a cancel and a pause must bring about, with one pipeline timeout.
CONSTANTS
    r1 = r1
    r2 = r2
    r3 = r3
    c1 = c1
    c2 = c2
    NoRun = NoRun
    NoCheckpoint = NoCheckpoint
    Runs <- TwoRuns
    Clients <- OneClient
    NPhases = 2
    Skippable <- FirstSkippable
    Catching <- FirstCatches
    Surfaces = {"api"}
    MaxSubmits = 1
    MaxTimeouts = 1
    MaxErrors = 0
    MaxCrashes = 0
SPECIFICATION FairSpec
PROPERTIES
    CancelInterrupts
    PauseInterrupts
\* The job comes to rest when its runs have ended and nobody asks for more.
CHECK_DEADLOCK FALSE
