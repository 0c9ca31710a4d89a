------------------------------ MODULE Netchan ------------------------------
(***************************************************************************)
(* The QuakeWorld network channel (libs/net/net_chan.c): two ends, each    *)
(* with a netchan_t, exchange packets over a datagram network.  A packet   *)
(* carries its own sequence number, the last sequence number heard from    *)
(* the peer, and one bit each way for the single reliable message that may *)
(* be outstanding.                                                         *)
(*                                                                         *)
(* Data.  What is written to chan->message is an item; the items an end    *)
(* writes are numbered 1, 2, 3, ... and a buffer holds the consecutive     *)
(* items from+1 .. to, so a buffer or a payload is a pair [from, to].      *)
(* Items a caller discards with SZ_Clear were never to be sent and do not  *)
(* count; items an overflow destroys do count, and would be missed.        *)
(* Unreliable data needs no state: its identity is the packet's sequence.  *)
(*                                                                         *)
(* Network.  packets[e] is every packet e ever handed to NET_SendPacket.   *)
(* Any of them may reach the peer at any time, any number of times, in any *)
(* order, or never.                                                        *)
(***************************************************************************)
EXTENDS Integers, Sequences, FiniteSets

CONSTANTS
    Client,     \* the end CL_ReadPackets and CL_SendCmd run
    Server,     \* the end SV_ReadPackets runs
    MaxSeq,     \* bound: end e sends packets numbered below MaxSeq[e] only
    MaxPackets, \* bound: end e sends at most MaxPackets[e] packets
    MaxItems,   \* bound: end e writes at most MaxItems[e] items
    MsgCap,     \* items that fit chan->message (MAX_MSGLEN bytes)
    VoidAck     \* what -1 becomes in the 31 bits of an acknowledgement

ASSUME EndsAssumption  == Client # Server

Ends == {Client, Server}

ASSUME BoundAssumption == /\ MaxSeq \in [Ends -> Nat]
                          /\ MaxPackets \in [Ends -> Nat]
                          /\ MaxItems \in [Ends -> Nat]
                          /\ MsgCap \in Nat \ {0}
\* 2^31 - 1 in the code, where sequence numbers have 31 bits as well.
ASSUME VoidAssumption  == /\ VoidAck \in Nat
                          /\ \A e \in Ends : VoidAck > MaxSeq[e]

Peer(e) == IF e = Client THEN Server ELSE Client

VARIABLES
    incoming_sequence,              \* last sequence number accepted, -1 if none
    incoming_acknowledged,          \* what the peer last said it had accepted
    incoming_reliable_acknowledged, \* the peer's reliable bit in that packet
    incoming_reliable_sequence,     \* flipped by each reliable packet accepted
    outgoing_sequence,              \* number of the next packet
    reliable_sequence,              \* flipped by each new reliable message
    last_reliable_sequence,         \* one above the last reliable packet sent
    message,                        \* items waiting for the reliable buffer
    overflowed,                     \* chan->message.overflowed
    reliable_buf,                   \* the last reliable message copied
    reliable_length,                \* its length, 0 once acknowledged
    packets,                        \* the network
    received,                       \* history: items accepted, in order
    voided                          \* history: a void acknowledgement decided

sendvars == <<outgoing_sequence, last_reliable_sequence, packets>>
bufvars  == <<message, overflowed>>
recvars  == <<incoming_sequence, incoming_acknowledged,
              incoming_reliable_acknowledged, incoming_reliable_sequence,
              received>>
relvars  == <<reliable_sequence, reliable_buf>>
vars     == <<sendvars, bufvars, recvars, relvars, reliable_length, voided>>

----------------------------------------------------------------------------
Bit == {0, 1}
Flip(b) == 1 - b

Chunk == {c \in [from : Nat, to : Nat] : c.from <= c.to}
NoItems == [from |-> 0, to |-> 0]
Size(c) == c.to - c.from
Items(c) == [i \in 1..Size(c) |-> c.from + i]

(* "got" is not on the wire: it records how many items the sender had      *)
(* accepted when it built the header.                                      *)
Packet == [sequence : Nat, reliable : BOOLEAN,
           sequence_ack : Nat, reliable_ack : Bit,
           data : Chunk, got : Nat]

TypeOK ==
    /\ incoming_sequence \in [Ends -> Nat \cup {-1}]
    /\ incoming_acknowledged \in [Ends -> Nat]
    /\ incoming_reliable_acknowledged \in [Ends -> Bit]
    /\ incoming_reliable_sequence \in [Ends -> Bit]
    /\ outgoing_sequence \in [Ends -> Nat]
    /\ reliable_sequence \in [Ends -> Bit]
    /\ last_reliable_sequence \in [Ends -> Nat]
    /\ message \in [Ends -> Chunk]
    /\ overflowed \in [Ends -> BOOLEAN]
    /\ reliable_buf \in [Ends -> Chunk]
    /\ reliable_length \in [Ends -> Nat]
    /\ packets \in [Ends -> SUBSET Packet]
    /\ received \in [Ends -> Seq(Nat)]
    /\ voided \in [Ends -> BOOLEAN]

Init ==     \* Netchan_Setup at both ends
    /\ incoming_sequence = [e \in Ends |-> -1]
    /\ incoming_acknowledged = [e \in Ends |-> 0]
    /\ incoming_reliable_acknowledged = [e \in Ends |-> 0]
    /\ incoming_reliable_sequence = [e \in Ends |-> 0]
    /\ outgoing_sequence = [e \in Ends |-> 0]
    /\ reliable_sequence = [e \in Ends |-> 0]
    /\ last_reliable_sequence = [e \in Ends |-> 0]
    /\ message = [e \in Ends |-> NoItems]
    /\ overflowed = [e \in Ends |-> FALSE]
    /\ reliable_buf = [e \in Ends |-> NoItems]
    /\ reliable_length = [e \in Ends |-> 0]
    /\ packets = [e \in Ends |-> {}]
    /\ received = [e \in Ends |-> <<>>]
    /\ voided = [e \in Ends |-> FALSE]

----------------------------------------------------------------------------
(* Writing to chan->message.  SZ_GetSpace clears a full buffer that may    *)
(* overflow, marks it, and then stores the new item all the same.          *)

Append1(c) == [c EXCEPT !.to = @ + 1]
OnlyNew(c) == [from |-> c.to, to |-> c.to + 1]
Emptied(c) == [from |-> c.to, to |-> c.to]

Write(e) ==
    /\ message[e].to < MaxItems[e]
    /\ message' = [message EXCEPT ![e] =
                      IF Size(@) < MsgCap THEN Append1(@) ELSE OnlyNew(@)]
    /\ overflowed' = [overflowed EXCEPT ![e] = @ \/ Size(message[e]) >= MsgCap]
    /\ UNCHANGED <<sendvars, recvars, relvars, reliable_length, voided>>

(* SZ_Clear (&chan->message), from outside the channel: what still waits   *)
(* is thrown away on purpose.  None of it was ever numbered by a packet,   *)
(* so the numbers pass to the items written next.                          *)
Clear(e) ==
    /\ message' = [message EXCEPT ![e] = Emptied(reliable_buf[e])]
    /\ overflowed' = [overflowed EXCEPT ![e] = FALSE]
    /\ UNCHANGED <<sendvars, recvars, relvars, reliable_length, voided>>

----------------------------------------------------------------------------
(* Netchan_Transmit *)

AckField(e) == IF incoming_sequence[e] = -1 THEN VoidAck
                                            ELSE incoming_sequence[e]
AckBit(e)   == IF incoming_sequence[e] = -1 THEN 1
                                            ELSE incoming_reliable_sequence[e]

Dropped_IgnoresBit(e) == incoming_acknowledged[e] > last_reliable_sequence[e]

(* "if the remote side dropped the last reliable message, resend it" *)
Dropped(e) ==
    /\ incoming_acknowledged[e] > last_reliable_sequence[e]
    /\ incoming_reliable_acknowledged[e] # reliable_sequence[e]

(* "if the reliable transmit buffer is empty, copy the current message out" *)
CopyDue(e) == reliable_length[e] = 0 /\ Size(message[e]) > 0

LastReliable_Forgotten(e, rel) == last_reliable_sequence[e]
LastReliable(e, rel) ==
    IF rel THEN outgoing_sequence[e] + 1 ELSE last_reliable_sequence[e]

SendPacket(e, rel, chunk) ==
    /\ outgoing_sequence[e] < MaxSeq[e]
    /\ Cardinality(packets[e]) < MaxPackets[e]
    /\ packets' = [packets EXCEPT ![e] = @ \cup
           {[sequence |-> outgoing_sequence[e], reliable |-> rel,
             sequence_ack |-> AckField(e), reliable_ack |-> AckBit(e),
             data |-> chunk, got |-> Len(received[e])]}]
    /\ outgoing_sequence' = [outgoing_sequence EXCEPT ![e] = @ + 1]
    /\ last_reliable_sequence' =
           [last_reliable_sequence EXCEPT ![e] = LastReliable(e, rel)]

TransmitNew(e) ==
    /\ ~overflowed[e]
    /\ CopyDue(e)
    /\ reliable_buf' = [reliable_buf EXCEPT ![e] = message[e]]
    /\ reliable_length' = [reliable_length EXCEPT ![e] = Size(message[e])]
    /\ message' = [message EXCEPT ![e] = Emptied(@)]
    /\ reliable_sequence' = [reliable_sequence EXCEPT ![e] = Flip(@)]
    /\ SendPacket(e, TRUE, message[e])
    /\ UNCHANGED <<overflowed, recvars, voided>>

Outstanding(e) == IF reliable_length[e] = 0 THEN NoItems ELSE reliable_buf[e]

TransmitAgain(e) ==
    /\ ~overflowed[e]
    /\ ~CopyDue(e)
    /\ Dropped(e)
    /\ SendPacket(e, TRUE, Outstanding(e))
    /\ voided' = [voided EXCEPT ![e] = @ \/ incoming_acknowledged[e] = VoidAck]
    /\ UNCHANGED <<bufvars, recvars, relvars, reliable_length>>

TransmitPlain(e) ==
    /\ ~overflowed[e]
    /\ ~CopyDue(e)
    /\ ~Dropped(e)
    /\ SendPacket(e, FALSE, NoItems)
    /\ UNCHANGED <<bufvars, recvars, relvars, reliable_length, voided>>

Transmit(e) == TransmitNew(e) \/ TransmitAgain(e) \/ TransmitPlain(e)

(* CL_SendCmd: when pps_check withholds the packet its number is used up.  *)
SkipPacket(e) ==
    /\ outgoing_sequence[e] < MaxSeq[e]
    /\ outgoing_sequence' = [outgoing_sequence EXCEPT ![e] = @ + 1]
    /\ UNCHANGED <<last_reliable_sequence, packets, bufvars, recvars, relvars,
                   reliable_length, voided>>

----------------------------------------------------------------------------
(* Netchan_Process *)

Fresh_TakesRepeat(e, p) == p.sequence >= incoming_sequence[e]

(* "Discard stale or duplicated packets." *)
Fresh(e, p) == p.sequence >= incoming_sequence[e] + 1

Acknowledges_BySequence(e, p) == p.sequence_ack + 1 >= last_reliable_sequence[e]

(* "If the current outgoing reliable message has been acknowledged" *)
Acknowledges(e, p) == p.reliable_ack = reliable_sequence[e]

Accept(e, p) ==
    /\ Fresh(e, p)
    /\ reliable_length' = [reliable_length EXCEPT ![e] =
                              IF Acknowledges(e, p) THEN 0 ELSE @]
    /\ incoming_sequence' = [incoming_sequence EXCEPT ![e] = p.sequence]
    /\ incoming_acknowledged' =
           [incoming_acknowledged EXCEPT ![e] = p.sequence_ack]
    /\ incoming_reliable_acknowledged' =
           [incoming_reliable_acknowledged EXCEPT ![e] = p.reliable_ack]
    /\ incoming_reliable_sequence' =
           [incoming_reliable_sequence EXCEPT ![e] =
               IF p.reliable THEN Flip(@) ELSE @]
    /\ received' = [received EXCEPT ![e] =
                       IF p.reliable THEN @ \o Items(p.data) ELSE @]
    /\ voided' = [voided EXCEPT ![e] =
                     @ \/ (/\ p.sequence_ack = VoidAck
                           /\ Acknowledges(e, p)
                           /\ reliable_length[e] # 0)]
    /\ UNCHANGED <<last_reliable_sequence, packets, bufvars, relvars>>

(* CL_ReadPackets, and SV_ReadPackets for a zombie: nothing else changes.  *)
Process(e) ==
    /\ \E p \in packets[Peer(e)] : Accept(e, p)
    /\ UNCHANGED outgoing_sequence

(* SV_ReadPackets: SV_ExecuteClientMessage makes sure the reply sequence   *)
(* number matches the incoming one.                                        *)
Larger_Never(m, n) == n
Larger(m, n) == IF m >= n THEN m ELSE n

ProcessAndMatch(e) ==
    \E p \in packets[Peer(e)] :
        /\ Accept(e, p)
        /\ outgoing_sequence' =
               [outgoing_sequence EXCEPT ![e] = Larger(p.sequence, @)]

----------------------------------------------------------------------------
Next ==
    \/ \E e \in Ends : Write(e) \/ Clear(e) \/ Transmit(e) \/ Process(e)
    \/ SkipPacket(Client)
    \/ ProcessAndMatch(Server)

Spec == Init /\ [][Next]_vars

----------------------------------------------------------------------------
(* Facts every step preserves.  r is the end that receives what e sends.   *)

Got(e) == Len(received[e])          \* items accepted so far at e

(* The buffers hold consecutive items; a copied message is never empty.    *)
BuffersOK ==
    \A e \in Ends :
        /\ reliable_buf[e].from = reliable_buf[e].to => reliable_buf[e] = NoItems
        /\ reliable_length[e] \in {0, Size(reliable_buf[e])}
        /\ overflowed[e] \/ message[e].from = reliable_buf[e].to

(* What a packet says was true when it was built, and stays bounded by the *)
(* state of its sender; later packets never take anything back.            *)
PacketsOK ==
    \A e \in Ends :
        /\ last_reliable_sequence[e] <= outgoing_sequence[e]
        /\ outgoing_sequence[e] < VoidAck
        /\ \A p \in packets[e] :
              /\ p.sequence < outgoing_sequence[e]
              /\ p.reliable => p.sequence < last_reliable_sequence[e]
              /\ p.sequence_ack # VoidAck => p.sequence_ack <= incoming_sequence[e]
              /\ p.got <= Got(e)
        /\ \A p, q \in packets[e] : p.sequence <= q.sequence => p.got <= q.got

(* The acknowledgement an end remembers is that of the last packet it      *)
(* accepted.                                                               *)
RecordsOK ==
    \A e \in Ends :
        \/ incoming_sequence[e] = -1 /\ incoming_acknowledged[e] = 0
        \/ \E p \in packets[Peer(e)] :
              /\ p.sequence = incoming_sequence[e]
              /\ p.sequence_ack = incoming_acknowledged[e]
              /\ p.reliable_ack = incoming_reliable_acknowledged[e]

(* The receiver has everything up to the outstanding message, or that      *)
(* message as well, and its bit says which.                                *)
ReceiverOK(e, r) ==
    /\ received[r] = Items([from |-> 0, to |-> Got(r)])
    /\ Got(r) \in {reliable_buf[e].from, reliable_buf[e].to}
    /\ reliable_length[e] = 0 => Got(r) = reliable_buf[e].to
    /\ (incoming_reliable_sequence[r] = reliable_sequence[e])
          <=> (Got(r) = reliable_buf[e].to)

(* A reliable packet the receiver would still accept is the last copy of   *)
(* the outstanding message, and the receiver lacks that message.           *)
InFlightOK(e, r) ==
    \A p \in packets[e] :
        p.reliable /\ Fresh(r, p) =>
            /\ p.data = reliable_buf[e]
            /\ Size(reliable_buf[e]) > 0
            /\ Got(r) = reliable_buf[e].from
            /\ p.sequence + 1 = last_reliable_sequence[e]

(* A header of r that e holds or would still accept reports on the         *)
(* outstanding message with the right bit, and reports a message missing   *)
(* that is not missing only if it predates the last copy.                  *)
HeadersOK(e, r) ==
    \A p \in packets[r] :
        p.sequence >= incoming_sequence[e] =>
            /\ p.got \in {reliable_buf[e].from, reliable_buf[e].to}
            /\ reliable_length[e] = 0 => p.got = reliable_buf[e].to
            /\ p.sequence_ack # VoidAck =>
                  /\ (p.reliable_ack = reliable_sequence[e])
                        <=> (p.got = reliable_buf[e].to)
                  /\ p.got < Got(r) =>
                        p.sequence_ack < last_reliable_sequence[e]

DirectionOK(e, r) == ReceiverOK(e, r) /\ InFlightOK(e, r) /\ HeadersOK(e, r)

ChannelInv ==
    /\ TypeOK
    /\ BuffersOK
    /\ PacketsOK
    /\ RecordsOK
    /\ \A e \in Ends : voided[e] \/ DirectionOK(e, Peer(e))

----------------------------------------------------------------------------
(* Properties *)

(* Unless a void acknowledgement interfered, the items an end has accepted *)
(* are the peer's items 1, 2, ..., n: none missing, repeated or reordered, *)
(* whatever the network did to the packets, and whatever overflowed: only  *)
(* a caller's own SZ_Clear takes items out of the stream.                  *)
InOrderExactlyOnce ==
    \A e \in Ends :
        voided[e] \/ received[Peer(e)] =
                       Items([from |-> 0, to |-> Len(received[Peer(e)])])

(* netchan.h and the comments in Netchan_Process: the reliable buffer is   *)
(* cleared only once its contents "has been received".                     *)
ClearedMeansReceived ==
    \A e \in Ends :
        reliable_length[e] = 0 =>
            Len(received[Peer(e)]) = reliable_buf[e].to

ClearedMeansReceivedUnlessVoid ==
    \A e \in Ends :
        reliable_length[e] = 0 =>
            voided[e] \/ Len(received[Peer(e)]) = reliable_buf[e].to

(* The retransmission test never fires for a message the peer has: a copy  *)
(* goes out again only while the peer is still without it.                 *)
ResendOnlyIfLost ==
    [][\A e \in Ends :
          TransmitAgain(e) =>
              voided'[e] \/ Len(received[Peer(e)]) = reliable_buf[e].from]_vars
=============================================================================
