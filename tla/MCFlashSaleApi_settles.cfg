SPECIFICATION FairSpec
CONSTANTS
    Requests = {r1, r2, r3}
    Replicas = {p1}
    MaxQuantity = 2
    InventoryCount = 2
    Strategies <- AllKnown
    RetryLimit = 1
    RequireAdmission = FALSE
    Faults <- PublishFaults
    ResetMode = "any"
CHECK_DEADLOCK FALSE
INVARIANT StockInv
INVARIANT NoOversell
INVARIANT NoStockLost
PROPERTY NegativeIsBrief
PROPERTY UnitsSettle
PROPERTY EveryPurchaseAnswered
