SPECIFICATION FairSpec
CONSTANTS
    Requests = {r1, r2, r3}
    Replicas = {p1}
    MaxQuantity = 2
    InventoryCount = 2
    Strategies <- OnlyAtomic
    RetryLimit = 1
    RequireAdmission = FALSE
    Faults <- NoFaults
    ResetMode = "never"
CHECK_DEADLOCK FALSE
PROPERTY RefusedOnlyWhenShort
