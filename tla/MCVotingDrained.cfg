SPECIFICATION FairSpec
CONSTANTS
    v1 = v1
    v2 = v2
    v3 = v3
    v4 = v4
    outsider = outsider
    p0 = p0
    p1 = p1
    junk = junk
    empty = empty
    Account = {v1, v2, v3, outsider}
    Eligible = {v1, v2, v3}
    LeafCount = 3
    Deposit = 2
    RegistrationTimeout = 1
    CommitTimeout = 2
    VoteTimeout = 3
    MaxTime = 4
    Point = {p0}
    Garbage = {}
    NoBytes = empty
    Digest <- MCDigest
    Zkp = {"valid"}
    Sha256 <- MCSha256
    verify_schnorr_zkp <- MCverify_schnorr_zkp
    verify_one_in_two_zkp <- MCverify_one_in_two_zkp
    brute_force_tally <- MCbrute_force_tally
PROPERTIES
    EventuallyDecided
CHECK_DEADLOCK FALSE
