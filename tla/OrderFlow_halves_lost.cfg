\* One order of one and a half units, placed and cancelled.
SPECIFICATION Spec
CONSTANTS
    Buyers = {1}
    Shops = {1}
    Products = {"apple"}
    ShopOf <- ShopOfAll
    Quantities = {3}
    Deltas = {}
    InitialStock = 3
    MaxOrders = 1
    MaxStock = 0
    MaxLog = 7
    MaxFaults = 0
    BatchLimit = 1
INVARIANT StockRestored
CHECK_DEADLOCK FALSE
