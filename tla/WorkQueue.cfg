SPECIFICATION FairSpec
CONSTANTS
    k1 = k1
    k2 = k2
    w1 = w1
    w2 = w2
    p1 = p1
    p2 = p2
    None = None
    Keys <- TwoKeys
    Workers <- TwoWorkers
    Producers <- TwoListeners
    Returning <- OneReturns
    ChanCap = 1
    MaxBackoff = 1
    MaxRestarts = 1
INVARIANTS TypeOK QueueInv BackoffTracked
PROPERTIES Served ImplementsKeyedWork NoOvertaking
CHECK_DEADLOCK FALSE
