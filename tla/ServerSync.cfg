SPECIFICATION FairSpec
CONSTANTS
    NoObj = NoObj
    Plugins <- AllPlugins
    Creds <- AllCreds
    MaxEvents = 3
    MaxBacklog = 2
INVARIANTS ServerTypeOK SuccessHasPodAndService SecretComesLast
PROPERTIES Recovers
CHECK_DEADLOCK FALSE
