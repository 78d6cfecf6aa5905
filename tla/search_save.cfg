SPECIFICATION Spec
CONSTANTS
    cooling = cooling
    adhesion = adhesion
    infill = infill
    listed = listed
    imported = imported
    Blank = Blank
    KnowledgeBase <- ThreeTopics
    TopicList <- OneListed
    ImportedFile <- OneImported
    Matching <- Found
    Invalid <- Unsound
    Chosen <- Unsound
    Rank <- Alphabetical
    PageCap = 3
    WindowSize = 2
    UserOps = {"edit", "type", "save", "search"}
    MaxActs = 4
    MaxFaults = 0
CHECK_DEADLOCK FALSE
INVARIANTS
    UnaskedRowsStay
