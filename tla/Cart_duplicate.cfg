\* Two requests add the same product and both insert a row.
SPECIFICATION Spec
CONSTANTS
    r1 = r1
    r2 = r2
    Requests = {r1, r2}
    Products = {1}
    Shops = {"shop"}
    ShopOf <- OneShop
    Skus = {}
    Quantities = {1}
    MinBuy <- Halves
    StepBuy <- Steps
    MaxItems = 1
    MaxRows = 3
    MaxStock = 1
INVARIANT OneRowPerKey
CHECK_DEADLOCK FALSE
