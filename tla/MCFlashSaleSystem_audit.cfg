SPECIFICATION SystemSpec
CONSTANTS
    Requests = {"r1", "r2"}
    Replicas = {p1}
    MaxQuantity = 2
    InventoryCount = 2
    Strategies <- OnlyAtomic
    RetryLimit = 1
    RequireAdmission = FALSE
    ResetMode = "never"
    Faults <- NoFaults
    Customer <- OneBlank
    Tasks = {t1}
    NumWorkers = 1
    MaxMessages = 1
    RetryAttempts = 1
    MaxReceives = 1
    WorkerFaults <- NoFaults
CHECK_DEADLOCK FALSE
INVARIANT AuditMatches
