\* Two subagents of one provider; the window is twice the cooldown, as in the code.
CONSTANTS
    c1 = c1
    c2 = c2
    Never = Never
    Callers <- TwoCallers
    MaxAttempts = 2
    MinCalls = 3
    Window = 2
    Cooldown = 1
    ProbesToClose = 1
    MaxEvents = 7
SPECIFICATION FairSpec
INVARIANTS
    TypeOK
    OpenedIsKnown
PROPERTIES
    DocumentedTransitions
    NobodyCallsWhileOpen
    CallsEnd
    Recovers
