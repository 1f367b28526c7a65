SPECIFICATION FairSpec
CONSTANTS
    d1 = d1
    d2 = d2
    u1 = u1
    u2 = u2
    f1 = f1
    NoObj = NoObj
    Databases <- OneDatabase
    Accounts <- TwoAccounts
    Sources <- OneSource
    Passwords <- TwoPasswords
    Specs <- AllSpecs
    ServerPlugin = "postgres"
    Unready = {"no server", "no secret", "bad secret"}
    MaxWorkers = 2
    MaxEvents = 1
INVARIANTS DatabaseTypeOK DatabaseComesFirst
PROPERTIES SecretWasSo ImplementsDatabasePromise DatabaseConverges
CHECK_DEADLOCK FALSE
