SPECIFICATION FairConnSpec
CONSTANTS
    t1 = t1
    t2 = t2
    comfyui = comfyui
    youtube = youtube
    url = url
    token = token
    local = local
    other = other
    NoOne = NoOne
    Unset = Unset
    Clients <- Threads
    Kinds <- Settings
    Operations <- Writes
    Windows = FALSE
    MaxCalls = 3
    MaxFaults = 1
    Providers <- Cards
    Keys <- TwoKeys
    Owner <- CardOf
    Secrets <- OnlyToken
    Required <- OnlyUrl
    Defaults <- OnlyUrl
    Earlier <- LeftThere
    Values <- TwoValues
    Default = local
    MaxActs = 4
CHECK_DEADLOCK FALSE
INVARIANTS
    ConnTypeOK
    SavedStays
PROPERTIES
    HealthSettles
