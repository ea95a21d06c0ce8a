SPECIFICATION Spec
CONSTANTS
    Block = {"g", "a1", "a2", "a3", "b2", "b3", "c2", "c3"}
    Genesis = "g"
    Parent <- MCParent
    Height <- MCHeight
    ChainTrust <- MCChainTrust
    Ancestors <- MCAncestors
    BlockTxs <- MCBlockTxs
    Tx <- MCTx
    Coinbase = {"cb", "cb3"}
    Coinstake = {}
    Outpoint <- MCOutpoint
    Producer <- MCProducer
    Ins <- MCIns
    MisPaid = {}
    CoinbaseMaturity = 1
    TotalBlocksEstimate = 1
    LockableInput = {}
    BlockFiltering = TRUE
    MaxRestarts = 1
    None = None
CHECK_DEADLOCK FALSE
INVARIANTS
    BestChainIsConnected
