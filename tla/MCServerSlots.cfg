SPECIFICATION FairSpec
CONSTANTS
    Clients = {c1}
    NoClient = NoClient
    MAX_CLIENTS = 3
    maxclients = 3
    MaxUserActions = 1
INVARIANTS
    CountRight
PROPERTIES
    SecondOnlyBehindZombie
    GetsIn
CHECK_DEADLOCK FALSE
