SPECIFICATION FairSpec
CONSTANTS
    cooling = cooling
    adhesion = adhesion
    infill = infill
    listed = listed
    imported = imported
    Blank = Blank
    KnowledgeBase <- ThreeTopics
    TopicList <- OneListed
    ImportedFile <- OneImported
    Matching <- Found
    Invalid <- Unsound
    Chosen <- Unsound
    Rank <- Alphabetical
    PageCap = 3
    WindowSize = 2
    UserOps = {"edit", "type", "new", "duplicate", "delete", "cancel", "save", "search", "source", "reopen", "validate", "import", "view"}
    MaxActs = 4
    MaxFaults = 1
CHECK_DEADLOCK FALSE
INVARIANTS
    TypeOK
    RowsStayInTheirFile
    AskedForIsKept
PROPERTIES
    ShownNeverOlder
    LoadingEnds
