SPECIFICATION Spec
CONSTANTS
    S1 = S1
    S2 = S2
    p1 = p1
    p2 = p2
    tokens = tokens
    NoExtra = NoExtra
    Scenes <- OneScene
    Prompts <- TwoPrompts
    FirstPrompt = p1
    Extras <- OneExtra
    NModels = 3
    Plans <- AnyModel
    BetterNext = {1, 2}
    TakesTokens = {FALSE}
    Budget = 3
    SharedCache = FALSE
    MaxSessions = 1
    MaxFaults = 0
CHECK_DEADLOCK FALSE
INVARIANTS
    OnlyRendererRaises
