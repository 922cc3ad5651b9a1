\* Two shops with a product each; whole quantities; returns and settlements, no deadlines.
SPECIFICATION Spec
CONSTANTS
    Buyers = {1}
    Shops = {1, 2}
    Products = {"apple", "leek"}
    ShopOf <- ShopOfEach
    Quantities = {2}
    Deltas = {}
    InitialStock = 1
    MaxOrders = 2
    MaxStock = 1
    MaxLog = 7
    MaxFaults = 0
    BatchLimit = 1
INVARIANTS TypeOK StockConserved
PROPERTIES DeletedIsFrozen KeepsPromise
CONSTRAINT NothingLate
CHECK_DEADLOCK FALSE
