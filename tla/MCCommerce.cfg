SPECIFICATION LiveSpec
CONSTANTS
    seller = seller
    customer = customer
    Account = {seller, customer}
    Vendor = seller
    Timeout = 1
    Item = {0}
    FirstListing <- OnePrice
    Value = {1, 2}
    Gwei = 3
    U64 = 64
    Stamp = {0, 44, 63}
    Commitment = {0, 1}
    MaxPurchases = 2
INVARIANTS
    TypeOK
    StakesHeld
    FairShares
PROPERTIES
    SettledForGood
    Settles
CHECK_DEADLOCK FALSE
