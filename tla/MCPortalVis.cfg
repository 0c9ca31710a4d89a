SPECIFICATION FairSpec
CONSTANTS
    Threads = {t1, t2}
    Clusters <- MCClusters
    Portals <- MCPortals
    Neighbour <- MCNeighbour
    Exits <- MCExits
    InFront <- MCInFront
    Open <- MCOpen
    Clear <- MCClear
    NoPortal = NoPortal
INVARIANTS
    VisIsConservative
    NeverReflowed
PROPERTY Finishes
