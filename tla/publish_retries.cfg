SPECIFICATION FairSpec
CONSTANTS
    MaxCalls = 2
    MaxRetries = 2
    CanRefresh = TRUE
    Thumbnailed <- FirstCall
CHECK_DEADLOCK FALSE
INVARIANTS
    TypeOK
    OneVideoPerCall
    OkIsWhole
    StaleTokensRenewed
PROPERTIES
    PromiseKept
    EveryPublishEnds
