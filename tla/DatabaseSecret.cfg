SPECIFICATION Spec
CONSTANTS
    d1 = d1
    d2 = d2
    u1 = u1
    u2 = u2
    f1 = f1
    NoObj = NoObj
    Databases <- OneDatabase
    Accounts <- TwoAccounts
    Sources <- OneSource
    Passwords <- TwoPasswords
    Specs <- GivenSpecs
    ServerPlugin = "postgres"
    Unready = {"no server", "no secret", "bad secret"}
    MaxWorkers = 2
    MaxEvents = 1
INVARIANTS SecretConnects
CHECK_DEADLOCK FALSE
