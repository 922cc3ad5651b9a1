\* One order of everything that is in stock.
SPECIFICATION Spec
CONSTANTS
    Buyers = {1}
    Shops = {1}
    Products = {"apple"}
    ShopOf <- ShopOfAll
    Quantities = {2}
    Deltas = {}
    InitialStock = 1
    MaxOrders = 1
    MaxStock = 0
    MaxLog = 7
    MaxFaults = 0
    BatchLimit = 1
INVARIANT SoldOutIsOffShelf
CHECK_DEADLOCK FALSE
