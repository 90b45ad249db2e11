SPECIFICATION FairSpec
CONSTANTS
    Orders = {o1, o2}
    Body <- OneBadBody
    Tasks = {t1}
    NumWorkers = 1
    MaxMessages = 1
    RetryAttempts = 2
    MaxReceives = 2
    Faults <- UpToExpiry
CHECK_DEADLOCK FALSE
PROPERTY EveryMessageSettles
PROPERTY EveryOrderCounted
