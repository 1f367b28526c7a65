SPECIFICATION Spec
CONSTANTS
    NoObj = NoObj
    Plugins <- PodOnly
    Creds <- AllCreds
    MaxEvents = 1
    MaxBacklog = 2
INVARIANTS SuccessHasSecret
CHECK_DEADLOCK FALSE
