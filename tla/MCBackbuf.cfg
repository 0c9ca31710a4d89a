SPECIFICATION FairSpec
CONSTANTS
    MaxSize = 4
    MaxBackBuffers = 3
    Blocks = {1, 3}
    Numbers = 3
    MaxDirect = 2
INVARIANTS
    TypeOK
    StreamIntact
PROPERTY HeadMovesOn
CHECK_DEADLOCK FALSE
