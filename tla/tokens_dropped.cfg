CONSTANTS
    ExpirySkew = 1
    MinCredits = 1
    Ids = {1}
    Leases = {}
    Callers = {k}
    AccountConcurrency = 1
    Calls = {}
    Messages = {}
    Balances = {2}
    TokenSets = {}
    StoredAccounts <- JustLogin
    NoAccount = NoAccount
    NoList = NoList
    NoCall = NoCall
    MaxNow = 4
    Refreshers = {}
    Keepers = {k}
    Probers = {}
    Importers = {}
    Consoles = {}
    RefreshSkew = 2
    Lifetime = 4
    LosesAnswers = FALSE
    CommandsFail = FALSE
    MaxIssued = 3
SPECIFICATION CredentialSpec
INVARIANT NewestTokensSaved
CHECK_DEADLOCK FALSE
