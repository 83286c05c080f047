SPECIFICATION Spec
CONSTANTS
    seller = seller
    customer = customer
    Account = {seller, customer}
    Vendor = seller
    Timeout = 1
    Item = {0}
    FirstListing <- OnePrice
    Value = {1, 2}
    Gwei = 3
    U64 = 64
    Stamp = {0}
    Commitment = {0}
    MaxPurchases = 1
INVARIANT
    WinnerTakesAll
CHECK_DEADLOCK FALSE
