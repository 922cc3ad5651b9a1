\* The default purchase step: quantities of half and one and a half units.
SPECIFICATION Spec
CONSTANTS
    Buyers = {1}
    Shops = {1}
    Products = {"apple"}
    ShopOf <- ShopOfAll
    Quantities = {1, 3}
    Deltas = {}
    InitialStock = 4
    MaxOrders = 2
    MaxStock = 1
    MaxLog = 7
    MaxFaults = 0
    BatchLimit = 1
INVARIANT DriftBounded
CONSTRAINT NothingLateOrSettled
CHECK_DEADLOCK FALSE
