SPECIFICATION FairSpec
CONSTANTS
    Block = {"g", "a1", "a2", "a3", "b2", "b3", "c2", "c3", "c4"}
    Genesis = "g"
    Parent <- MCParent
    Height <- MCHeight
    ChainTrust <- MCChainTrust
    Ancestors <- MCAncestors
    BlockTxs <- MCBlockTxs
    Tx <- MCTx
    Coinbase = {"cb", "cb3"}
    Coinstake = {}
    Outpoint <- MCOutpoint
    Producer <- MCProducer
    Ins <- MCIns
    MisPaid = {"c2"}
    CoinbaseMaturity = 1
    TotalBlocksEstimate = 1
    LockableInput <- MCLockable
    BlockFiltering = TRUE
    MaxRestarts = 2
    None = None
CHECK_DEADLOCK FALSE
INVARIANTS
    TypeOK
    PoolIndexExact
    NoConfirmedInPool
    LedgerIsReplay
    MemoryMatchesDisk
    MainChainLinked
PROPERTIES
    DiskTrustGrows
    JobEnds
    ImplementsBestChain
