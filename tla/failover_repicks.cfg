CONSTANTS
    ExpirySkew = 1
    MinCredits = 1
    Ids = {1}
    Leases <- RequestLeases
    Callers = {r1, r2}
    AccountConcurrency = 2
    Calls <- HandlerCalls
    Messages <- RateLimits
    Balances = {2}
    TokenSets <- TokenPairs
    StoredAccounts <- JustPasted
    NoAccount = NoAccount
    NoList = NoList
    NoCall = NoCall
    MaxNow = 0
    Refreshers = {}
    Keepers = {}
    Probers = {}
    Importers = {}
    Consoles = {}
    RefreshSkew = 0
    Lifetime = 4
    LosesAnswers = FALSE
    CommandsFail = TRUE
    MaxIssued = 2
    Requests = {r1, r2}
    CanvasRequests = {}
    WaitingRequests = {}
SPECIFICATION GenerationSpec
INVARIANT FailoverMovesOn
CHECK_DEADLOCK FALSE
