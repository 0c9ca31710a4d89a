SPECIFICATION ChannelSpec
CONSTANTS
    Client = Client
    Server = Server
    MaxSeq <- MCMaxSeq
    MaxPackets <- MCMaxPackets
    MaxItems <- MCMaxItems
    MsgCap = 1
    VoidAck = 7
    MaxDrops = 2
    MaxForced = 2
    ClientPackets = 4
    ServerPackets = 3
    LastSeq = 4
    ClientItems = 1
    ServerItems = 3
INVARIANTS
    ChannelInv
    InOrderExactlyOnce
    ClearedMeansReceivedUnlessVoid
    OneReplyPerPacket
PROPERTIES
    Spec
    ResendOnlyIfLost
    ReplyMatches
CHECK_DEADLOCK FALSE
