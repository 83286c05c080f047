CONSTANTS
    a1 = a1
    a2 = a2
    c1 = c1
    c2 = c2
    t1 = t1
    t2 = t2
    Self = this
    Nobody = nobody
    Accounts = {a1, a2}
    Owner = a1
    Contracts = {c1}
    Services = {c1, c2}
    MaxDepth = 2
    MaxCalls = 3
    MaxBatch = 2
    MaxUpdates = 1
    Tokens = {t1, t2}
    Kinds = {t1}
    KindW = 3
    MaxCCD = 2
    Aligned = {}
    Holders = {a1, a2}
    Threshold = 2
    TimeToLive = 1
    LastTime = 1
    W = 4
    Expiry = 1
    MaxBid = 3
    MaxTime = 2
    MaxN = 6
    FibW = 10
SPECIFICATION Spec
CHECK_DEADLOCK FALSE
INVARIANTS TypeOK
 SupplyKept
 UniqueHolder
 ApprovalsCurrent
 NothingKept
 FibAddsUp
PROPERTIES Consent
 PaidAsAgreed
 ImplementsAuction
