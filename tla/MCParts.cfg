SPECIFICATION PartsSpec
CONSTANTS
    Works = {w1, w2}
    Viewers = {v1, v2}
    Numbers = {1, 2}
    DeskFaults = 2
    PageSteps = 2
    Loaders = {1, 2, 3}
    NoLoader = 0
    Guids = {1, 2}
    Export = 3
    MaxItems = 2
    MaxBytes = 2
    FileBytes = 1
    MaxSize = 2
    MaxEvents = 2
    Requests = {1, 2, 3}
    NoRequest = 0
    Meanings = {"button", "altered"}
    Vanished = "gone"
    MaxDocuments = 2
    MaxDialogs = 2
    MaxControls = 1
    Sources = {"old", "new"}
    Settings = {"here", "there"}
    Missing = Missing
    MaxTroubles = 2
INVARIANTS
    PartsTypeOK
    PrivateDesktop
    NothingExposed
    LoadedAsAsked
    ReadableIsOwn
    OwnReply
    ActKeepsItsWord
    InstallIsSafe
CHECK_DEADLOCK FALSE
