SPECIFICATION FairSystemSpec
CONSTANTS
    Requests = {"r1", "r2"}
    Replicas = {p1}
    MaxQuantity = 2
    InventoryCount = 2
    Strategies <- OnlyAtomic
    RetryLimit = 1
    RequireAdmission = FALSE
    ResetMode = "never"
    Faults <- TaskOrQueueFails
    Customer <- AllGiven
    Tasks = {t1}
    NumWorkers = 1
    MaxMessages = 1
    RetryAttempts = 1
    MaxReceives = 2
    WorkerFaults <- TablesFail
CHECK_DEADLOCK FALSE
INVARIANT StoredWithinInventory
INVARIANT VerdictExplained
INVARIANT StoredIsAccepted
INVARIANT AcceptedIsKept
PROPERTY AcceptedPurchaseSettles
