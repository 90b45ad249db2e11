SPECIFICATION Spec
CONSTANTS
    Orders = {o1, o2}
    Body <- AllGood
    Tasks = {t1}
    NumWorkers = 2
    MaxMessages = 1
    RetryAttempts = 2
    MaxReceives = 2
    Faults <- AllFaults
SYMMETRY Symmetry
CHECK_DEADLOCK FALSE
INVARIANT TypeOK
INVARIANT DeletedIsRecorded
INVARIANT OvercountExplained
INVARIANT ConfirmedOnce
INVARIANT WorkerInv
PROPERTY ImplementsFulfilment
