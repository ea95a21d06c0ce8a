SPECIFICATION FairSpec
CONSTANTS
    Client = {"a", "b"}
    Coin = {"a1", "b1"}
    Owner <- MCOwner
    MaxPoolTransactions = 2
    QueueTimeout = 1
    SigningTimeout = 1
    AddLagTime = 1
    ErrorTime = 1
    MaxSessions = 1
    MaxRequests <- MCTwoOne
    MaxEntries <- MCOne
INVARIANTS
    TypeOK
    SignaturesFit
PROPERTIES
    LockedUnlessOverlapped
    CoinsComeFree
