SPECIFICATION FairSpec
CONSTANTS
    ItemCount = 3
    CachedItem = {1, 3}
    Capacity = 4
    LaneCap = 2
    Concurrency = 2
INVARIANTS
    LanesSound
    SummaryIsComplete
    WorkspaceOutlivesUploads
PROPERTIES
    JobReports
CHECK_DEADLOCK FALSE
