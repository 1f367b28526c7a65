SPECIFICATION FairSpec
CONSTANTS
    a = a
    b = b
    f = f
    None = None
    Servers <- TwoServers
    Specs <- AllSpecs
    UserLabels <- TwoLabels
    Sources <- OneSource
    Values <- TwoValues
    MaxEvents = 1
INVARIANTS EndpointsTypeOK ServiceSelectsOwnPod DsnLeads LabelsAreTheUsers
PROPERTIES EndpointOpens
CHECK_DEADLOCK FALSE
