SPECIFICATION SignonSpec
CONSTANTS
    MaxSize = 4
    MaxBackBuffers = 3
    Blocks = {1, 3}
    Numbers = 3
    MaxDirect = 0
INVARIANT SignonIntact
CHECK_DEADLOCK FALSE
