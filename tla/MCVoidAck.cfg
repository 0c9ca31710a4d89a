SPECIFICATION ChannelSpec
CONSTANTS
    Client = Client
    Server = Server
    MaxSeq <- MCMaxSeq
    MaxPackets <- MCMaxPackets
    MaxItems <- MCMaxItems
    MsgCap = 1
    VoidAck = 9
    MaxDrops = 0
    MaxForced = 0
    ClientPackets = 3
    ServerPackets = 2
    LastSeq = 3
    ClientItems = 1
    ServerItems = 1
INVARIANT ClearedMeansReceived
CHECK_DEADLOCK FALSE
