\* One task and one request under fairness, with one fault.
CONSTANTS
    t1 = t1
    t2 = t2
    c1 = c1
    c2 = c2
    loop = loop
    Loop = loop
    NoOne = NoOne
    NoRequest = NoRequest
    Tasks <- OneTask
    Claimers <- OneClaimer
    Tickers <- LoopOnly
    FailureLimit = 2
    Calls = {"claim", "complete", "block", "heartbeat", "approve", "reject", "unblock"}
    Moves = {"done"}
    Hours = {9}
    BatchSize = 5
    MaxFaults = 1
SPECIFICATION FairSpec
PROPERTIES
    LeaseEnds
    InProgressEnds
    OverLimitBlocked
