SPECIFICATION FairSpec
CONSTANTS
    w1 = w1
    w2 = w2
    w3 = w3
    NoOne = NoOne
    Clients <- Windows3
    Kinds <- CsvAndProduction
    Operations <- Commands
    Windows = FALSE
    MaxCalls = 4
    MaxFaults = 2
CHECK_DEADLOCK FALSE
INVARIANTS
    TypeOK
    WholeFile
    AckedStays
PROPERTIES
    FirstFaultRecoverable
    EveryCallAnswered
