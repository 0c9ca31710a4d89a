SPECIFICATION FairSpec
CONSTANTS
    Users = {u1, u2, u3}
    HunkSize = 8
    Header = 2
    HunkHeader = 1
    SizeMod = 64
    CacheSizes = {2, 3}
    LowSizes = {3}
    TempSizes = {1, 3}
    MaxLocks = 1
    NoUser = NoUser
    NoBlock = NoBlock
INVARIANTS
    TypeOK
    CacheInv
    OutOfMemoryHonest
    LowNeverMeetsCache
PROPERTIES
    LockedStay
    LoopsEnd
CHECK_DEADLOCK FALSE
