SPECIFICATION Spec
CONSTANTS
    r1 = r1
    r2 = r2
    s1 = s1
    s2 = s2
    short = short
    long = long
    Torn = Torn
    Rows <- OneRow
    Seeds <- TwoSeeds
    Durations <- BothDurations
    TargetDuration <- DurationOf
    Publishable <- OneRow
    MaxScenes = 2
    SceneCount <- SameLength
    ThumbScene <- FirstScene
    Refused <- Nothing
    Rejected <- Nothing
    Requests <- Regenerate
    MaxRuns = 2
    MaxFaults = 0
    MaxLosses = 0
    LossKinds = {}
CHECK_DEADLOCK FALSE
INVARIANTS
    CompleteRunIsExact
