SPECIFICATION Spec
CONSTANTS
    h1 = h1
    h2 = h2
    Holder = {h1, h2}
    TargetSize = 1
    RefillSize = {2}
    MaxKeys = 7
    MaxRestarts = 1
SYMMETRY Symmetric
CHECK_DEADLOCK FALSE
INVARIANTS
    TypeOK
    PoolReadable
    KeyUsedOnce
    NoKeyLost
    UnencryptedNeverReuses
