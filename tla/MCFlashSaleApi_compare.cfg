SPECIFICATION Spec
CONSTANTS
    Requests = {r1, r2, r3}
    Replicas = {p1, p2}
    MaxQuantity = 2
    InventoryCount = 3
    Strategies <- CompareFirst
    RetryLimit = 1
    RequireAdmission = FALSE
    Faults <- Unanswered
    ResetMode = "never"
SYMMETRY Symmetry
CHECK_DEADLOCK FALSE
INVARIANT CounterNeverNegative
INVARIANT ContentionHasWinner
INVARIANT PromisesFit
INVARIANT StockAccounted
PROPERTY ExecIsFresh
