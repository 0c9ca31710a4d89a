SPECIFICATION FairSpec
CONSTANTS
    MaxChannels = 3
    MaxStatic = 1
    s1 = s1
    s2 = s2
    Sounds <- MCSounds
    Setups <- MCSetups
    NoSound = NoSound
    NoChannel = NoChannel
INVARIANTS
    TypeOK
    RetainBalance
    OnOneList
    FreeListSound
    MixerUsesRetainedInTurn
    NeighboursPlay
PROPERTIES
    TakenOnlyWhenDone
    StoppedIsReused
    WaitEnds
CHECK_DEADLOCK FALSE
