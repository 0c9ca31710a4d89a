SPECIFICATION FairSpec
CONSTANTS
    SoundChunks = 2
    ModelChunks = 1
    SignonBuffers = 2
    MaxLevels = 4
INVARIANTS
    TypeOK
    HonestNeverKicked
    ListsOfOneLevel
    KeepsConnection
PROPERTIES
    SettlesUnlessStranded
    EntersLoaded
CHECK_DEADLOCK FALSE
