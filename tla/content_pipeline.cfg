SPECIFICATION Spec
CONSTANTS
    Torn = Torn
    Second = 20
    Fps = 30
    Budget = 900
    Padding = 0
    MinHold = 30
    MaxHold = 80
    MaxOverlays = 5
    Epsilon = 4
    ShotPlans <- SomeShots
    VisualPlans <- SomeVisuals
    Narrations <- SomeNarrations
    Pads = {0, 1}
    Environments <- SomeEnvironments
    MaxTries = 2
    MaxRuns = 2
    MaxFaults = 2
CHECK_DEADLOCK FALSE
INVARIANTS
    TypeOK
    UploadIsOfItsRun
    FilesAgree
    TimelineHolds
