SPECIFICATION FairSpec
CONSTANTS
    Block = {"g", "p", "a", "b", "c", "d", "x", "y", "z"}
    Genesis = "g"
    Parent <- MCParent
    Height <- MCHeight
    Ancestors <- MCAncestors
    Stake <- MCStake
    Rejected = {"b"}
    Unconnectable = {"d"}
    MaxOrphanBlocks = 2
    MaxRestarts = 1
    None = "none"
INVARIANTS
    TypeOK
    OrphanMapsAgree
    OrphansBounded
    StakeSeenOrphanLive
    OrphanWaitsForParent
PROPERTIES
    WantedIsMissing
    QueueDrains
CHECK_DEADLOCK FALSE
