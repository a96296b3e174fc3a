\* Three runs of one job and two users: resumes may overlap the first run and each other.
CONSTANTS
    r1 = r1
    r2 = r2
    r3 = r3
    c1 = c1
    c2 = c2
    NoRun = NoRun
    NoCheckpoint = NoCheckpoint
    Runs <- ThreeRuns
    Clients <- TwoClients
    NPhases = 1
    Skippable <- NoneSkippable
    Catching <- NoneCatches
    Surfaces = {"chat"}
    MaxSubmits = 1
    MaxTimeouts = 0
    MaxErrors = 0
    MaxCrashes = 0
SYMMETRY Symmetry
VIEW WithoutTracker
SPECIFICATION Spec
INVARIANTS
    OneResumePerCheckpoint
    ResumedAfterSaved
\* The job comes to rest when its runs have ended and nobody asks for more.
CHECK_DEADLOCK FALSE
