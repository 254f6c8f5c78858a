CONSTANTS
    ExpirySkew = 1
    MinCredits = 1
    Ids = {1, 2}
    Leases = {}
    Callers = {g}
    AccountConcurrency = 1
    Calls = {}
    Messages = {}
    Balances = {2}
    TokenSets = {}
    StoredAccounts <- AllLogins
    NoAccount = NoAccount
    NoList = NoList
    NoCall = NoCall
    MaxNow = 6
    Refreshers = {g}
    Keepers = {}
    Probers = {}
    Importers = {}
    Consoles = {}
    RefreshSkew = 2
    Lifetime = 4
    LosesAnswers = FALSE
    CommandsFail = FALSE
    MaxIssued = 3
SPECIFICATION FairCredentialSpec
INVARIANTS CredentialInvariant NewestTokensSaved
PROPERTIES TokensAreRenewed
CHECK_DEADLOCK FALSE
