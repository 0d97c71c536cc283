SPECIFICATION ShapedSpec
CONSTANTS
    j1 = j1
    j2 = j2
    x1 = x1
    x2 = x2
    Job = {j1, j2}
    Track = {x1, x2}
    UploadCount = 3
    JobOf <- TwoJobs
    TrackOf <- SharedTrack
    Index <- OneSingle
    MaxIndex = 2
    Primary = {1, 2, 3}
    Delivers = TRUE
    Forced = {j2}
    Cached = {x1}
    Concurrency = 2
    MaxRetries = 1
INVARIANTS
    DumpAndRowsAgree
    InTrackOrder
    OnePlaceServedOnce
    CountedOnce
CHECK_DEADLOCK FALSE
