SPECIFICATION Spec
CONSTANTS
    seller = seller
    customer = customer
    Account = {seller, customer}
    Vendor = seller
    Timeout = 1
    Item = {0, 1}
    FirstListing <- TwoPrices
    Value = {1, 2}
    Gwei = 3
    U64 = 64
    Stamp = {0}
    Commitment = {0}
    MaxPurchases = 1
INVARIANT
    RejectReturnsPayment
CHECK_DEADLOCK FALSE
