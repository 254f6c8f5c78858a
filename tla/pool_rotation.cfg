CONSTANTS
    ExpirySkew = 1
    MinCredits = 2
    Ids = {1, 2, 3}
    Leases = {l1, l2}
    Callers = {c1}
    AccountConcurrency = 1
    Calls <- RotationCalls
    Messages = {}
    Balances = {0}
    TokenSets <- SameTokens
    StoredAccounts <- FreshOnly
    NoAccount = NoAccount
    NoList = NoList
    NoCall = NoCall
    MaxNow = 0
SPECIFICATION FairPoolSpec
PROPERTIES EveryHealthyAccountServes DisabledAccountDrains ImplementsSemaphore
CHECK_DEADLOCK FALSE
