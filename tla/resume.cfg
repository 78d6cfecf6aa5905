SPECIFICATION FairSpec
CONSTANTS
    r1 = r1
    r2 = r2
    s1 = s1
    s2 = s2
    short = short
    long = long
    Torn = Torn
    Rows <- TwoRows
    Seeds <- OneSeed
    Durations <- BothDurations
    TargetDuration <- DurationOf
    Publishable <- OneRow
    MaxScenes = 2
    SceneCount <- SameLength
    ThumbScene <- FirstScene
    Refused <- InvalidRow
    Rejected <- Nothing
    Requests <- SteadyResume
    MaxRuns = 3
    MaxFaults = 2
    MaxLosses = 1
    LossKinds = {"artifact", "checkpoint"}
CHECK_DEADLOCK FALSE
INVARIANTS
    TypeOK
    OutcomeIsTrue
    RecordsAreTrue
    UploadsAreSound
PROPERTIES
    ResumeRepeatsNothing
    EventuallyComplete
