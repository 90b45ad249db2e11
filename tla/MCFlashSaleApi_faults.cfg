SPECIFICATION Spec
CONSTANTS
    Requests = {r1, r2}
    Replicas = {p1, p2}
    MaxQuantity = 2
    InventoryCount = 2
    Strategies <- AllStrategies
    RetryLimit = 2
    RequireAdmission = TRUE
    Faults <- UnitsKept
    ResetMode = "quiet"
SYMMETRY Symmetry
CHECK_DEADLOCK FALSE
INVARIANT TypeOK
INVARIANT AnswersMatchStock
INVARIANT StockAccounted
PROPERTY ImplementsStock
