SPECIFICATION FairSpec
CONSTANTS
    alice = alice
    bob = bob
    carol = carol
    Account = {alice, bob, carol}
    Owner = carol
    Nobody = Nobody
    Expiry = 1
    MaxBid = 8
    MaxTime = 3
INVARIANTS
    Escrow
    LeaderUnique
    SaleSettled
PROPERTIES
    BidsLeadToSale
CHECK_DEADLOCK FALSE
