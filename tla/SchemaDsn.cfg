SPECIFICATION Spec
CONSTANTS
    s1 = s1
    s2 = s2
    d1 = d1
    d2 = d2
    None = None
    NoObj = NoObj
    Schemas <- OneSchema
    Databases <- TwoDatabases
    Source <- TwoVersions
    Targets <- TwoVersions
    MaxWorkers = 2
    Late = {}
    MaxEvents = 2
INVARIANTS SyncUsesDsnOfSpec
CHECK_DEADLOCK FALSE
