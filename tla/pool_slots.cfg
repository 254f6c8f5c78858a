CONSTANTS
    ExpirySkew = 1
    MinCredits = 2
    Ids = {1}
    Leases = {l1, l2}
    Callers = {c1, c2}
    AccountConcurrency = 1
    Calls <- SlotCalls
    Messages <- Failures
    Balances = {}
    TokenSets = {}
    StoredAccounts <- FreshOrRanOut
    NoAccount = NoAccount
    NoList = NoList
    NoCall = NoCall
    MaxNow = 1
SPECIFICATION PoolSpec
INVARIANTS PoolInvariant WithinConcurrency ValidMeansSelectable
PROPERTY OnlyCooldownsHeal
SYMMETRY Alike
CHECK_DEADLOCK FALSE
