SPECIFICATION Spec
CONSTANTS
    Orders = {o1, o2}
    Body <- AllGood
    Tasks = {t1}
    NumWorkers = 2
    MaxMessages = 1
    RetryAttempts = 2
    MaxReceives = 1
    Faults <- LostReply
CHECK_DEADLOCK FALSE
INVARIANT CountedAtMostOnce
