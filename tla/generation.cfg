CONSTANTS
    ExpirySkew = 1
    MinCredits = 1
    Ids = {1, 2}
    Leases <- RequestLeases
    Callers = {r1, r2}
    AccountConcurrency = 1
    Calls <- HandlerCalls
    Messages <- RateLimits
    Balances = {2}
    TokenSets <- TokenPairs
    StoredAccounts <- JustLogin
    NoAccount = NoAccount
    NoList = NoList
    NoCall = NoCall
    MaxNow = 1
    Refreshers = {}
    Keepers = {}
    Probers = {}
    Importers = {}
    Consoles = {}
    RefreshSkew = 0
    Lifetime = 4
    LosesAnswers = FALSE
    CommandsFail = TRUE
    MaxIssued = 2
    Requests = {r1, r2}
    CanvasRequests = {r2}
    WaitingRequests = {r1}
SPECIFICATION FairGenerationSpec
INVARIANTS GenerationInvariant OneJobPerRequest
PROPERTIES EveryRequestAnswered UsesThePool
CHECK_DEADLOCK FALSE
