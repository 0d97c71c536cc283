SPECIFICATION ServerSpec
CONSTANTS
    Parts = {"sessions", "pool", "pipe", "faulty", "tasks", "lists"}
    none = none
    User = {u1} Session = {e1, e2} Request = {r1, r2} Code = {k1, k2} NoSession = none
    CodeLife = 1 SessionLife = 3 CacheTtl = 2 MaxNow = 3
    Fetch = {e1, e2} Pools = {{w1}, {w1, w2, pr}} Primary = pr NoWorker = none
    MaxFetchAttempts = 2 ChunkFetchDeadline = 2 RpcTimeout = 1 FloodSecs = {0}
    Backoff = 1 LastStart = 0
    Reader = {e1, e2} w1 = w1
    Call = {c1} BotJob = {e1, e2} Admin = admin NoJob = none Unwatched = unwatched
    user = user Owner <- OwnerOf Target <- TargetOf
    Txn = {x1, x2, x3, x4} x1 = x1 x2 = x2 x3 = x3 x4 = x4
    Kind <- KindOf Size <- SizeOf Url <- UrlOf
    NoUrl = "none" NoTxn = none NoList = none Favorites = fav MaxCustom = 1
SYMMETRY Alike
INVARIANTS
    SessionLifeHolds
    FetchKeepsItsBounds
    StreamIsWhole
    TasksAreAccounted
    PlaylistsKept
CHECK_DEADLOCK FALSE
