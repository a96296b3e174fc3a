\* One agent and two subagents that may wait for each other, one store failure or crash.
CONSTANTS
    a1 = a1
    s1 = s1
    s2 = s2
    NoOne = NoOne
    Agents <- OneAgent
    Subagents <- TwoSubagents
    ChildTimeout = 1
    CollectTimeout = 1
    SweepAge = 2
    MaxFaults = 1
SPECIFICATION FairSpec
INVARIANTS
    TypeOK
    RowSaysOutcome
PROPERTIES
    CollectedIsTrue
    SweepSparesRunning
    PromiseSpec
    SpawnsEnd
    WaitsEnd
