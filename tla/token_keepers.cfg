CONSTANTS
    ExpirySkew = 0
    MinCredits = 1
    Ids = {1}
    Leases = {}
    Callers = {k, p, i}
    AccountConcurrency = 1
    Calls = {"Delete", "SetDisabled", "Restart"}
    Messages = {}
    Balances = {0}
    TokenSets = {}
    StoredAccounts <- PastedLogins
    NoAccount = NoAccount
    NoList = NoList
    NoCall = NoCall
    MaxNow = 2
    Refreshers = {}
    Keepers = {k}
    Probers = {p}
    Importers = {i}
    Consoles = {k}
    RefreshSkew = 1
    Lifetime = 2
    LosesAnswers = TRUE
    CommandsFail = TRUE
    MaxIssued = 3
SPECIFICATION CredentialSpec
INVARIANTS CondemnedForCause TokenWritesAreFresh
CHECK_DEADLOCK FALSE
