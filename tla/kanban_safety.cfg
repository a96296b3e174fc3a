\* One task, every operation, two claim or complete requests at once.
CONSTANTS
    t1 = t1
    t2 = t2
    c1 = c1
    c2 = c2
    loop = loop
    Loop = loop
    NoOne = NoOne
    NoRequest = NoRequest
    Tasks <- OneTask
    Claimers <- TwoClaimers
    Tickers <- LoopOnly
    FailureLimit = 2
    Calls = {"claim", "complete", "block", "heartbeat", "approve", "reject", "unblock", "set_review"}
    Moves = {"backlog", "in_progress"}
    Hours = {9, 23}
    BatchSize = 5
    MaxFaults = 1
SYMMETRY Symmetry
SPECIFICATION Spec
INVARIANTS
    TypeOK
    LeaseHasExpiry
PROPERTIES
    ClaimIsExclusive
    DoneByApproval
