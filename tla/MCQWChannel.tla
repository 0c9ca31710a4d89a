---------------------------- MODULE MCQWChannel ----------------------------
(* Bounds for QWChannel: enough client packets that a reply can be lost    *)
(* and its reliable message sent again, and room for withheld packets.     *)
EXTENDS QWChannel

CONSTANTS ClientPackets, ServerPackets, LastSeq, ClientItems, ServerItems

ByEnd(forClient, forServer) ==
    [e \in {Client, Server} |-> IF e = Client THEN forClient ELSE forServer]

MCMaxSeq     == ByEnd(LastSeq, LastSeq)
MCMaxPackets == ByEnd(ClientPackets, ServerPackets)
MCMaxItems   == ByEnd(ClientItems, ServerItems)
=============================================================================
