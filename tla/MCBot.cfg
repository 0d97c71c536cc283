SPECIFICATION BotSpec
CONSTANTS
    Parts = {"room", "feed", "jobs", "sink", "admin", "settings", "reports"}
    Conn = {n1, n2} n1 = n1 Device = {d1, d2} None = none Task = {t1} MaxPuts = 3 Capacity = 2
    Job = {j1, j2} Chat = {chat} chat = chat ChatOf <- AskedIn NoChat = none
    Buffer = 1 MaxMessages = 2 MaxProgress = 1 MaxRequests = 2 Failures = TRUE MaxInputs = 3
    Op = {o1, o2} Worker = {w1} Primary = pr NoSession = none
    MaxAttempts = 2 Stall = 1 MaxAcks = 1
    Key = {k1, k2} k1 = k1 track = track TrackOf <- CodecOf Part = {p1} p1 = p1
    Other = other Gone = gone Token = {tok} First = 2 Contents <- AtFirst MaxId = 4 Batch = 2
    Flag = {f1} Url = {u1, u2} NoUrl = none Bad = bad Command = {c1, c2} MaxCommands = 3
    guest = guest admin = admin track2 = track2 r1 = r1 r2 = r2
INVARIANTS
    RoomAgrees
    DashboardsFollowJobs
    SinkIsExact
    CacheAdminIsExact
    SettingsKept
    ReportsKept
CHECK_DEADLOCK FALSE
