SPECIFICATION Spec
CONSTANTS
    Addr = {"a", "a2", "b", "c", "d"}
    Ip <- MCIp
    Source = {"s1", "s2"}
    NewBuckets = {"n1", "n2"}
    TriedBuckets = {"k1"}
    GetNewBucket <- MCGetNewBucket
    GetTriedBucket <- MCGetTriedBucket
    NewBucketSize = 1
    TriedBucketSize = 1
    NewBucketsPerAddress = 2
    GetAddrMaxPct = 70
    MaxIds = 5
INVARIANTS
    TypeOK
    TablesAgree
    BucketsBounded
PROPERTIES
    ForgottenForRoom
CHECK_DEADLOCK FALSE
