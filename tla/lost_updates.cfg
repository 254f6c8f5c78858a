CONSTANTS
    ExpirySkew = 1
    MinCredits = 2
    Ids = {1}
    Leases = {l1}
    Callers = {c1, c2}
    AccountConcurrency = 1
    Calls <- UpdateCalls
    Messages <- Failures
    Balances = {2}
    TokenSets <- Renewals
    StoredAccounts <- FreshOnly
    NoAccount = NoAccount
    NoList = NoList
    NoCall = NoCall
    MaxNow = 0
SPECIFICATION PoolSpec
PROPERTY ConcurrentChangesSurvive
CHECK_DEADLOCK FALSE
