SPECIFICATION Spec
CONSTANTS
    r1 = r1
    r2 = r2
    s1 = s1
    s2 = s2
    short = short
    long = long
    Torn = Torn
    Rows <- TwoRows
    Seeds <- TwoSeeds
    Durations <- BothDurations
    TargetDuration <- DurationOf
    Publishable <- OneRow
    MaxScenes = 2
    SceneCount <- Longer
    ThumbScene <- FirstScene
    Refused <- Nothing
    Rejected <- BadScene
    Requests <- Mixed
    MaxRuns = 3
    MaxFaults = 0
    MaxLosses = 1
    LossKinds = {"file", "image", "artifact", "damage", "checkpoint"}
CHECK_DEADLOCK FALSE
INVARIANTS
    FreshRunIsExact
