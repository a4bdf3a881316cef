SPECIFICATION MCSpec
CONSTANTS
    Sides = {"archive", "post", "drops"}
    f1 = f1
    f2 = f2
    f3 = f3
    d1 = d1
    d2 = d2
    d3 = d3
    Clean <- MCClean
    NameDigits = 2
    SizeDigits = 1
    MaxNameSize = 8
    Files = {f1, f2, f3}
    Rel <- MCRel
    Selections <- MCSelections
    Sources <- MCSources
    Growth = "w"
    Changes = 1
    Foreign <- MCForeign
    Folders0 <- MCFolders0
    ChunkSize = 3
    Window = 4
    Requests <- MCRequests
    Leaf <- MCLeaf
    MaxField = 2
    NoName = "none"
    Devices = {d1, d2, d3}
    Reachable = {d1, d2}
    NoDevice = NoDevice
    NoFiles = NoFiles
    MaxDrops = 3
    MaxPicks = 1
INVARIANTS
    OkMeansArrived
    GoodSendSucceeds
    BrokenUploadLeavesNothing
    PartsArriveAsSent
    DropsGoTogether
PROPERTIES
    RequestsEnd
    DropsAreTaken
CHECK_DEADLOCK FALSE
