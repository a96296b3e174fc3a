\* Two requests to the one agent, apart or at the same time.
CONSTANTS
    c1 = c1
    c2 = c2
    Tools = {"get_run", "execute_code"}
    Code = "execute_code"
    Chats <- TwoChats
    Plans <- OneOrTwoCalls
    MaxRounds = 2
    MaxAttempts = 2
    HardLimit = 2
    Window = 2
SPECIFICATION FairSpec
INVARIANTS
    TypeOK
    PromptIsWhole
    LoopIsCut
    RoundsAreGranted
PROPERTIES
    ChatsEnd
