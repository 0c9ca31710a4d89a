SPECIFICATION FairSpec
CONSTANTS
    Client = Client
    Server = Server
    MaxMessages <- MCMaxMessages
    MaxUnreliable <- MCMaxUnreliable
    MaxParts <- MCMaxParts
    ClientParts = 2
    ServerParts = 1
    ClientMessages = 1
    ServerMessages = 1
    ClientUnreliable = 1
    ServerUnreliable = 0
INVARIANTS
    StreamInv
PROPERTIES
    ImplementsToServer
    ImplementsToClient
CHECK_DEADLOCK FALSE
