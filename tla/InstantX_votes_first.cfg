SPECIFICATION Spec
CONSTANTS
    Tx = {"t1", "t2"}
    Outpoint = {"a", "o", "b"}
    Ins <- MCIns
    p1 = p1
    p2 = p2
    Primenode = {p1, p2}
    Height = {4}
    LockHeight <- MCLockHeight
    Quorum <- MCQuorum
    Required = 2
    Votes <- MCGoodVotes
    Self = None
    MaxReorgs = 0
    None = None
INVARIANTS
    CompleteLockHolds
CHECK_DEADLOCK FALSE
