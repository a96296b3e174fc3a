\* Two requests at the same time, one round each.
CONSTANTS
    c1 = c1
    c2 = c2
    Tools = {"get_run", "execute_code"}
    Code = "execute_code"
    Chats <- TwoChats
    Plans <- OneOrTwoCalls
    MaxRounds = 2
    MaxAttempts = 2
    HardLimit = 2
    Window = 2
SPECIFICATION Spec
INVARIANTS
    ChatsAreIsolated
