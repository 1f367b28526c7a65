SPECIFICATION AgreedSpec
CONSTANTS
    s1 = s1
    s2 = s2
    d1 = d1
    d2 = d2
    None = None
    NoObj = NoObj
    Schemas <- TwoSchemas
    Databases <- OneDatabase
    Source <- TwoVersions
    Targets <- TwoVersions
    MaxWorkers = 2
    Late = {s1}
    MaxEvents = 1
PROPERTIES Converges
CHECK_DEADLOCK FALSE
