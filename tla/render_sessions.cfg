SPECIFICATION FairSpec
CONSTANTS
    S1 = S1
    S2 = S2
    p1 = p1
    p2 = p2
    tokens = tokens
    NoExtra = NoExtra
    Scenes <- OneScene
    Prompts <- TwoPrompts
    FirstPrompt = p1
    Extras <- OneExtra
    NModels = 3
    Plans <- AnyPlan
    BetterNext = {1, 2}
    TakesTokens = {TRUE, FALSE}
    Budget = 4
    SharedCache = TRUE
    MaxSessions = 2
    MaxFaults = 1
CHECK_DEADLOCK FALSE
INVARIANTS
    TypeOK
    NeverRepeatsARender
    AttemptsDiffer
    CountsAgree
    WinnerIsLast
PROPERTIES
    EverySessionEnds
