\* Two submissions, one pipeline timeout, one failing store call and one crash, in any order.
CONSTANTS
    r1 = r1
    r2 = r2
    r3 = r3
    c1 = c1
    c2 = c2
    NoRun = NoRun
    NoCheckpoint = NoCheckpoint
    Runs <- TwoRuns
    Clients <- OneClient
    NPhases = 2
    Skippable <- NoneSkippable
    Catching <- FirstCatches
    Surfaces = {"chat", "api"}
    MaxSubmits = 2
    MaxTimeouts = 1
    MaxErrors = 1
    MaxCrashes = 1
SYMMETRY Symmetry
SPECIFICATION Spec
INVARIANTS
    TypeOK
    OrphanOnlyByTimeout
    TrackerIsOwned
PROPERTIES
    CustodySpec
\* The job comes to rest when its runs have ended and nobody asks for more.
CHECK_DEADLOCK FALSE
