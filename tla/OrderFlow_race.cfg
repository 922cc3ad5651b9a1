\* One product two orders compete for; the scheduler with a batch of one order.
SPECIFICATION Spec
CONSTANTS
    Buyers = {1}
    Shops = {1}
    Products = {"apple"}
    ShopOf <- ShopOfAll
    Quantities = {2, 4}
    Deltas <- OneAtATime
    InitialStock = 2
    MaxOrders = 2
    MaxStock = 2
    MaxLog = 5
    MaxFaults = 1
    BatchLimit = 1
INVARIANTS LogTellsHistory CancellationAttributed HeldIdsStayDue
PROPERTIES SystemMovesOnlyLate StockMovesWithClaims
CONSTRAINT NothingSettled
CHECK_DEADLOCK FALSE
