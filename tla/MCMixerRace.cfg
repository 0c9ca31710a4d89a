SPECIFICATION Spec
CONSTANTS
    MaxChannels = 2
    MaxStatic = 1
    s1 = s1
    s2 = s2
    Sounds <- MCSounds
    Setups <- MCRaceSetups
    NoSound = NoSound
    NoChannel = NoChannel
INVARIANT MixerUsesRetained
CHECK_DEADLOCK FALSE
