SPECIFICATION FairSpec
CONSTANTS
    SoundChunks = 1
    ModelChunks = 1
    SignonBuffers = 1
    MaxLevels = 2
PROPERTY Settles
CHECK_DEADLOCK FALSE
