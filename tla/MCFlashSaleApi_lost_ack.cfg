SPECIFICATION Spec
CONSTANTS
    Requests = {r1, r2}
    Replicas = {p1}
    MaxQuantity = 1
    InventoryCount = 1
    Strategies <- OnlyAtomic
    RetryLimit = 1
    RequireAdmission = FALSE
    Faults <- LostAck
    ResetMode = "never"
CHECK_DEADLOCK FALSE
INVARIANT NoOversell
