CONSTANTS
    Keys = {k1, k2, c1}
    ConfigKeys = {c1}
    Requests = {r1}
    NoKey = NoKey
    Browsers = {b1, b2}
    Tokens = {t1, t2}
    PasswordSet = TRUE
    TTL = 2
    MaxNow = 5
    NoToken = NoToken
    Logins = {s1, s2}
    Completers = {c1, c2}
    PendingTTL = 1
    MaxClock = 4
    NoLogin = NoLogin
    Calls = {"v", "i"}
    ModelKind <- KindOf
    RouteKind = "auto"
    MaxEntries = 2
    Asked <- AllAsks
    Aliases <- AliasTable
    FastNames = {"fast"}
    Seedance = "seedance"
    SeedanceNames = {"fast", "seedance", "seedance still", "seedance pro"}
    VideoJobs = {"seedance", "kling"}
    Guessed = {"fast", "seedance", "seedance still", "seedance pro", "kling", "kling image"}
    DefaultImageModel = "text2image"
    DefaultVideoModel = "seedance"
    NoModel = ""
    Senders = {a1, a2}
    Orders <- MediaOrders
    Paths = {"tree", "rose"}
    Uploaded = "clip"
    Extension <- Extensions
    Fails = TRUE
    NoName = NoName
    MaxTick = 1
SPECIFICATION StoresSpec
INVARIANT KindIsTheRequests
CHECK_DEADLOCK FALSE
