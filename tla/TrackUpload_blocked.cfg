SPECIFICATION ShapedSpec
CONSTANTS
    j1 = j1
    j2 = j2
    x1 = x1
    x2 = x2
    Job = {j1}
    Track = {x1}
    UploadCount = 1
    JobOf <- OneJob
    TrackOf <- OneTrack
    Index <- AfterCached
    MaxIndex = 2
    Primary = {1}
    Delivers = TRUE
    Forced = {}
    Cached = {}
    Concurrency = 1
    MaxRetries = 1
INVARIANTS
    NothingLeftBehind
CHECK_DEADLOCK FALSE
