\* A job, a chat and two subagents: one inside the other, in a batch, or apart.
CONSTANTS
    j1 = j1
    c1 = c1
    s1 = s1
    s2 = s2
    NoOne = NoOne
    Jobs <- OneJob
    Chats <- OneChat
    Subagents <- TwoSubagents
    MaxDepth = 2
SPECIFICATION FairSpec
INVARIANTS
    TypeOK
    NestingIsCapped
    TreeIsExact
    AnswerIsTrue
    OnlyCancelOrphans
    FramesNest
PROPERTIES
    DelegationsEnd
CHECK_DEADLOCK FALSE
