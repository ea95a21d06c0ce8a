SPECIFICATION FairSpec
CONSTANTS
    Tx = {"t1", "t2"}
    Outpoint = {"a", "o", "b"}
    Ins <- MCIns
    p1 = p1
    p2 = p2
    Primenode = {p1, p2}
    Height = {4, 5}
    LockHeight <- MCLockHeight
    Quorum <- MCQuorum
    Required = 2
    Votes <- MCVotes
    Self = p1
    MaxReorgs = 1
    None = None
INVARIANTS
    TypeOK
    VotesCountOnce
    LockedTogether
    AcceptedLockExpires
PROPERTIES
    AcceptedLockByVotes
    LocksGoAway
CHECK_DEADLOCK FALSE
