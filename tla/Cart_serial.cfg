\* One request at a time: the rules as the documentation states them.
SPECIFICATION Spec
CONSTANTS
    r1 = r1
    Requests = {r1}
    Products = {1, 2}
    Shops = {"shop"}
    ShopOf <- OneShop
    Skus = {1}
    Quantities = {1}
    MinBuy <- Halves
    StepBuy <- Steps
    MaxItems = 2
    MaxRows = 3
    MaxStock = 1
INVARIANTS DuplicatesBounded
CONSTRAINT FewExceptions
CHECK_DEADLOCK FALSE
