SPECIFICATION FairSpec
CONSTANTS
    Peer = {"p", "q"}
    Tx = {"a", "b", "c"}
    Parents <- MCParents
    Big = {}
    Mixed = {"b"}
    MAX_ORPHAN_TRANSACTIONS = 1
    MAPASKFOR_MAX_SZ = 1
    MaxAlreadyAsked = 3
    Retry = 1
    Answering = {"p"}
    Announces <- MCAnnounces
    Unasked <- MCUnasked
    Mineable = {"a"}
PROPERTIES
    OrphansFollow
