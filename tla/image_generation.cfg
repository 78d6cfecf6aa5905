SPECIFICATION FairSpec
CONSTANTS
    NoScore = NoScore
    Inputs <- Videos
    Settings <- AllSettings
    Threshold = 90
    MaxAttempts = 2
    Candidates = 3
    MaxRetries = 2
    MaxPolls = 1
    MaxRuns = 2
    MaxFaults = 2
CHECK_DEADLOCK FALSE
INVARIANTS
    TypeOK
    ManifestIsTrue
    OneWorkflowPerAttempt
PROPERTIES
    EveryRunEnds
