\* Two orders whose deadlines pass, a batch of one, one fault: no state constraint.
SPECIFICATION FairSpec
CONSTANTS
    Buyers = {1}
    Shops = {1}
    Products = {"apple"}
    ShopOf <- ShopOfAll
    Quantities = {2}
    Deltas = {}
    InitialStock = 2
    MaxOrders = 2
    MaxStock = 0
    MaxLog = 5
    MaxFaults = 1
    BatchLimit = 1
PROPERTIES LatePendingResolved LateArrivedCompleted
CHECK_DEADLOCK FALSE
