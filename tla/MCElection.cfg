SPECIFICATION FairSpec
CONSTANTS
    q = 5
    Hash <- MCHash
    Account = {1, 2, 3, 4}
    Bystander = {5}
    LeafCount = 4
    Deposit = 1
    RegistrationTimeout = 1
    CommitTimeout = 2
    VoteTimeout = 3
    MaxTime = 4
    NoBytes = NoBytes
    Nonce = {1, 2}
INVARIANTS
    KeysCancel
    ResultCountsChoices
    HonestBallotAccepted
PROPERTIES
    DecidedUnlessDrained
CHECK_DEADLOCK FALSE
