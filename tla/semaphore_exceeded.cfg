CONSTANTS
    ExpirySkew = 1
    MinCredits = 2
    Ids = {1}
    Leases = {l1, l2}
    Callers = {c1, c2}
    AccountConcurrency = 1
    Calls <- DeleteCalls
    Messages = {}
    Balances = {}
    TokenSets = {}
    StoredAccounts <- FreshOnly
    NoAccount = NoAccount
    NoList = NoList
    NoCall = NoCall
    MaxNow = 0
SPECIFICATION PoolSpec
INVARIANT SemaphoreHolds
CHECK_DEADLOCK FALSE
