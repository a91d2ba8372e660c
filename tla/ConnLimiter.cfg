SPECIFICATION FairSpec
CONSTANTS
    k1 = k1  k2 = k2  k3 = k3  k4 = k4  k5 = k5
    i1 = i1  i2 = i2
    Conn = {k1, k2, k3, k4}
    IP = {i1, i2}
    MaxPerIP = 2
    MaxTotal = 3
    Penalty = 1
INVARIANT FailuresThrottled
PROPERTIES ImplementsSlots PenalizedSlotReturns
CHECK_DEADLOCK FALSE
