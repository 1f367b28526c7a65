SPECIFICATION Spec
CONSTANTS
    d1 = d1
    d2 = d2
    u1 = u1
    u2 = u2
    f1 = f1
    NoObj = NoObj
    Databases <- TwoDatabases
    Accounts <- TwoAccounts
    Sources <- NoSource
    Passwords <- TwoPasswords
    Specs <- SharedSpecs
    ServerPlugin = "postgres"
    Unready = {}
    MaxWorkers = 2
    MaxEvents = 0
SYMMETRY Symmetry
INVARIANTS SuccessWasSo
CHECK_DEADLOCK FALSE
