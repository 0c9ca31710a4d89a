--------------------------- MODULE DatagramProofs ---------------------------
(***************************************************************************)
(* Proofs about Datagram for any number of messages of any length: type    *)
(* correctness, StreamInv with the two properties that follow from it, and *)
(* that each direction implements ReliableStream's safety part.            *)
(*                                                                         *)
(* StreamInv(e) joins what the sender e and the receiver r = Peer(e) know. *)
(* An action of an end x is, for the direction it sends in, a step of the  *)
(* sender (SenderStep), and for the other a step of the receiver           *)
(* (ReceiverStep); the two lemmas are the two halves of the proof.         *)
(***************************************************************************)
EXTENDS Datagram, SequenceTheorems, TLAPS

Packet == Data \cup Ack \cup Unreliable

LEMMA EndFacts ==
    ASSUME NEW e \in Ends
    PROVE  Peer(e) \in Ends /\ Peer(e) # e /\ Peer(Peer(e)) = e
BY EndsAssumption DEF Peer, Ends

(* The network adds what was written and takes away what was read.         *)
LEMMA NetworkFacts ==
    ASSUME packets \in [Ends -> SUBSET Packet], NEW x \in Ends,
           NEW in, NEW out, Network(x, in, out),
           in \subseteq packets[Peer(x)], out \subseteq Packet
    PROVE  /\ packets' \in [Ends -> SUBSET Packet]
           /\ packets'[x] \subseteq packets[x] \cup out
           /\ packets'[Peer(x)] \subseteq packets[Peer(x)]
<1>1. PICK again \in SUBSET in, through \in SUBSET out :
          packets' = [packets EXCEPT ![Peer(x)] = (@ \ in) \cup again,
                                     ![x] = @ \cup through]
  BY DEF Network
<1>2. Peer(x) \in Ends /\ Peer(x) # x
  BY EndFacts
<1>3. packets'[x] = packets[x] \cup through
  BY <1>1, <1>2
<1>4. packets'[Peer(x)] = (packets[Peer(x)] \ in) \cup again
  BY <1>1, <1>2
<1>5. packets' \in [Ends -> SUBSET Packet]
  BY <1>1, <1>2
<1> QED BY <1>3, <1>4, <1>5

LEMMA TextFacts ==
    ASSUME NEW k \in Nat, NEW n \in Nat \ {0}
    PROVE  /\ Text(k, n) \in Seq(Fragment)
           /\ Len(Text(k, n)) = n
           /\ Text(k, n) # <<>>
           /\ Text(k, n)[1] \in Fragment
<1>1. \A i \in 1..n : [msg |-> k, part |-> i] \in Fragment
  BY DEF Fragment
<1>2. Text(k, n) \in [1..n -> Fragment]
  BY <1>1 DEF Text
<1> QED BY <1>2

LEMMA DataPacketType ==
    ASSUME NEW m \in Seq(Fragment), m # <<>>, NEW n \in Nat
    PROVE  DataPacket(m, n) \in Packet
<1>1. m[1] \in Fragment /\ (Len(m) <= 1) \in BOOLEAN
  OBVIOUS
<1> QED BY <1>1 DEF DataPacket, Packet, Data

(* What may be written next is a packet.                                   *)
LEMMA NextPacketType ==
    ASSUME TypeOK, NEW e \in Ends, SenderInv(e)
    PROVE  NextPacket(e) \subseteq Packet
<1>1. CASE sendNext[e]
  <2>1. ~canSend[e] /\ sendMessage[e] # <<>>
    BY <1>1 DEF SenderInv
  <2>2. sendMessage[e] \in Seq(Fragment) /\ sendSequence[e] \in Nat
    BY DEF TypeOK
  <2> QED BY <1>1, <2>1, <2>2, DataPacketType DEF NextPacket
<1>2. CASE ~sendNext[e]
  BY <1>2 DEF NextPacket
<1> QED BY <1>1, <1>2

LEMMA ResendType ==
    ASSUME TypeOK, NEW e \in Ends, SenderInv(e), call[e] = "none", ~canSend[e]
    PROVE  /\ ReSendNumber(e) \in Nat
           /\ ReSendNumber(e) = ackSequence[e]
           /\ ReSendMessage(e) \in Packet
<1>1. sendMessage[e] # <<>> /\ sendSequence[e] = ackSequence[e] + 1
  BY DEF SenderInv
<1>2. sendMessage[e] \in Seq(Fragment) /\ ackSequence[e] \in Nat
  BY DEF TypeOK
<1>3. ReSendNumber(e) = ackSequence[e]
  BY <1>1, <1>2 DEF ReSendNumber
<1> QED BY <1>1, <1>2, <1>3, DataPacketType DEF ReSendMessage

LEMMA AckType ==
    ASSUME NEW p, p.sequence \in Nat
    PROVE  AckOf(p) \subseteq Packet
BY DEF AckOf, Packet, Ack

LEMMA PacketFields ==
    ASSUME NEW p \in Packet
    PROVE  /\ p.sequence \in Nat
           /\ p.flag = "data" => p.frag \in Fragment /\ p.eom \in BOOLEAN
BY DEF Packet, Data, Ack, Unreliable

----------------------------------------------------------------------------
(* Type correctness; that a number sent again is a number, and that there  *)
(* is a fragment to send, comes from SenderInv.                            *)

PacketsOK == packets \in [Ends -> SUBSET Packet]

LEMMA PacketsOKDef == TypeOK => PacketsOK
BY DEF TypeOK, PacketsOK, Packet

LEMMA SendNextType ==
    ASSUME TypeOK, NEW e \in Ends, SendMessageNext(e)
    PROVE  /\ sendSequence' \in [Ends -> Nat]
           /\ sendNext' \in [Ends -> BOOLEAN]
<1>1. sendSequence' \in [Ends -> Nat]
  BY DEF SendMessageNext, TypeOK
<1>2. sendNext' \in [Ends -> BOOLEAN]
  BY DEF SendMessageNext, TypeOK
<1> QED BY <1>1, <1>2

LEMMA CountType ==
    ASSUME NEW f \in [Ends -> Nat], NEW e \in Ends
    PROVE  [f EXCEPT ![e] = @ + 1] \in [Ends -> Nat]
OBVIOUS

LEMMA CallType ==
    ASSUME TypeOK, NEW e \in Ends, NEW c \in {"none", "reading", "failed"},
           call' = [call EXCEPT ![e] = c]
    PROVE  call' \in [Ends -> {"none", "reading", "failed"}]
BY DEF TypeOK

LEMMA TypeStep ==
    ASSUME TypeOK, StreamInv, [Next]_vars
    PROVE  TypeOK'
<1> USE DEF sendvars, recvars, unrelvars, history
<1>0. PacketsOK
  BY PacketsOKDef
<1>s. \A e \in Ends : SenderInv(e)
  BY DEF StreamInv
<1>1. ASSUME NEW e \in Ends, SendMessage(e) PROVE TypeOK'
  <2> DEFINE k == Len(accepted[e]) + 1
  <2>1. PICK n \in 1..MaxParts[e] :
           /\ sendMessage' = [sendMessage EXCEPT ![e] = Text(k, n)]
           /\ Network(e, {}, {DataPacket(Text(k, n), sendSequence[e])})
           /\ accepted' = [accepted EXCEPT ![e] = Append(@, Text(k, n))]
           /\ numbered' = [numbered EXCEPT ![e] = @ \o Text(k, n)]
    BY <1>1 DEF SendMessage
  <2>2. n \in Nat \ {0} /\ k \in Nat /\ sendSequence[e] \in Nat
    <3>1. MaxParts[e] \in Nat
      BY BoundAssumption
    <3>2. accepted[e] \in Seq(Seq(Fragment)) /\ sendSequence[e] \in Nat
      BY DEF TypeOK
    <3> QED BY <3>1, <3>2, <2>1
  <2> HIDE DEF k
  <2>3. Text(k, n) \in Seq(Fragment) /\ Text(k, n) # <<>>
    BY <2>2, TextFacts
  <2>4. packets' \in [Ends -> SUBSET Packet]
    <3> DEFINE out == {DataPacket(Text(k, n), sendSequence[e])}
    <3>1. out \subseteq Packet
      BY <2>2, <2>3, DataPacketType
    <3>2. Network(e, {}, out)
      BY <2>1
    <3> HIDE DEF out
    <3> QED BY <1>0, <3>1, <3>2, NetworkFacts DEF PacketsOK
  <2>5. /\ sendMessage' \in [Ends -> Seq(Fragment)]
        /\ accepted' \in [Ends -> Seq(Seq(Fragment))]
    BY <2>1, <2>3 DEF TypeOK
  <2>6. numbered' \in [Ends -> Seq(Fragment)]
    <3>1. numbered[e] \o Text(k, n) \in Seq(Fragment)
      BY <2>3 DEF TypeOK
    <3> QED BY <2>1, <3>1 DEF TypeOK
  <2>7. /\ sendSequence' \in [Ends -> Nat]
        /\ canSend' \in [Ends -> BOOLEAN]
    BY <1>1 DEF SendMessage, TypeOK
  <2> QED BY <1>1, <2>4, <2>5, <2>6, <2>7 DEF SendMessage, TypeOK, Packet
<1>2. ASSUME NEW e \in Ends, SendUnreliableMessage(e) PROVE TypeOK'
  <2>1. unreliableSendSequence[e] \in Nat
    BY DEF TypeOK
  <2>2. {[flag |-> "unreliable", sequence |-> unreliableSendSequence[e]]}
          \subseteq Packet
    BY <2>1 DEF Packet, Unreliable
  <2>3. packets' \in [Ends -> SUBSET Packet]
    BY <1>0, <1>2, <2>2, NetworkFacts DEF SendUnreliableMessage, PacketsOK
  <2>4. unreliableSendSequence' \in [Ends -> Nat]
    BY <1>2, <2>1 DEF SendUnreliableMessage, TypeOK
  <2> QED BY <1>2, <2>3, <2>4 DEF SendUnreliableMessage, TypeOK, Packet
<1>3. ASSUME NEW e \in Ends, CanSendMessage(e) PROVE TypeOK'
  <2>1. packets' \in [Ends -> SUBSET Packet]
    BY <1>0, <1>3, <1>s, NextPacketType, NetworkFacts DEF CanSendMessage, PacketsOK
  <2>2. call' \in [Ends -> {"none", "reading", "failed"}]
    BY <1>3, CallType DEF CanSendMessage
  <2>3. /\ sendSequence' \in [Ends -> Nat]
        /\ sendNext' \in [Ends -> BOOLEAN]
    BY <1>3, SendNextType DEF CanSendMessage
  <2> QED BY <1>3, <2>1, <2>2, <2>3 DEF CanSendMessage, TypeOK, Packet
<1>4. ASSUME NEW e \in Ends, GetMessage(e) PROVE TypeOK'
  BY <1>4 DEF GetMessage, TypeOK
<1>5. ASSUME NEW e \in Ends, GetMessageResend(e) PROVE TypeOK'
  <2>1. {ReSendMessage(e)} \subseteq Packet
    BY <1>5, <1>s, ResendType DEF GetMessageResend
  <2>2. packets' \in [Ends -> SUBSET Packet]
    BY <1>0, <1>5, <2>1, NetworkFacts DEF GetMessageResend, PacketsOK
  <2> QED BY <1>5, <2>2 DEF GetMessageResend, TypeOK, Packet
<1>6. ASSUME NEW e \in Ends, ReadNothing(e) PROVE TypeOK'
  <2>1. packets' \in [Ends -> SUBSET Packet]
    BY <1>0, <1>6, <1>s, NextPacketType, NetworkFacts DEF ReadNothing, PacketsOK
  <2>2. call' \in [Ends -> {"none", "reading", "failed"}]
    BY <1>6, CallType DEF ReadNothing
  <2>3. /\ sendSequence' \in [Ends -> Nat]
        /\ sendNext' \in [Ends -> BOOLEAN]
    BY <1>6, SendNextType DEF ReadNothing
  <2> QED BY <1>6, <2>1, <2>2, <2>3 DEF ReadNothing, TypeOK, Packet
<1>7. ASSUME NEW e \in Ends, ReadFails(e) PROVE TypeOK'
  BY <1>7 DEF ReadFails, TypeOK
<1>8. ASSUME NEW e \in Ends, NEW p \in packets[Peer(e)], Read(e, p) PROVE TypeOK'
  <2>1. /\ p \in Packet
        /\ {p} \subseteq packets[Peer(e)]
    BY <1>0, <1>8, EndFacts DEF PacketsOK
  <2>2. /\ AckOf(p) \subseteq Packet
        /\ NextPacket(e) \subseteq Packet
        /\ p.sequence \in Nat
        /\ p.flag = "data" => p.frag \in Fragment /\ p.eom \in BOOLEAN
    BY <2>1, <1>s, PacketFields, AckType, NextPacketType
  <2>3. ASSUME ReadUnreliable(e, p) PROVE TypeOK'
    <3>1. packets' \in [Ends -> SUBSET Packet]
      BY <1>0, <2>1, <2>2, <2>3, NetworkFacts DEF ReadUnreliable, PacketsOK
    <3>2. unreliableReceiveSequence' \in [Ends -> Nat]
      <4>1. unreliableReceiveSequence \in [Ends -> Nat]
        BY DEF TypeOK
      <4>2. (IF p.sequence < unreliableReceiveSequence[e]
             THEN unreliableReceiveSequence[e] ELSE p.sequence + 1) \in Nat
        BY <2>2, <4>1
      <4> QED BY <2>3, <4>1, <4>2 DEF ReadUnreliable
    <3>3. call' \in [Ends -> {"none", "reading", "failed"}]
      BY <2>3, CallType DEF ReadUnreliable
    <3>4. /\ sendSequence' \in [Ends -> Nat]
          /\ sendNext' \in [Ends -> BOOLEAN]
      BY <2>3, SendNextType DEF ReadUnreliable
    <3> QED BY <2>3, <3>1, <3>2, <3>3, <3>4 DEF ReadUnreliable, TypeOK, Packet
  <2>4. ASSUME ReadAck(e, p) PROVE TypeOK'
    <3>1. packets' \in [Ends -> SUBSET Packet]
      BY <1>0, <2>1, <2>4, NetworkFacts DEF ReadAck, PacketsOK
    <3>2. SubSeq(sendMessage[e], 2, Len(sendMessage[e])) \in Seq(Fragment)
      <4>1. sendMessage[e] \in Seq(Fragment)
        BY DEF TypeOK
      <4> QED BY <4>1
    <3>3. sendMessage' \in [Ends -> Seq(Fragment)]
      BY <2>4, <3>2 DEF ReadAck, TypeOK
    <3>4. ackSequence' \in [Ends -> Nat]
      <4>1. ackSequence \in [Ends -> Nat]
        BY DEF TypeOK
      <4> QED BY <2>4, <4>1, CountType DEF ReadAck
    <3>5. sendNext' \in [Ends -> BOOLEAN]
      BY <2>4 DEF ReadAck, TypeOK
    <3>6. canSend' \in [Ends -> BOOLEAN]
      BY <2>4 DEF ReadAck, TypeOK
    <3> QED BY <2>4, <3>1, <3>3, <3>4, <3>5, <3>6 DEF ReadAck, TypeOK, Packet
  <2>5. ASSUME ReadOldAck(e, p) PROVE TypeOK'
    <3>1. packets' \in [Ends -> SUBSET Packet]
      BY <1>0, <2>1, <2>5, NetworkFacts DEF ReadOldAck, PacketsOK
    <3> QED BY <2>5, <3>1 DEF ReadOldAck, TypeOK, Packet
  <2>6. ASSUME ReadPart(e, p) PROVE TypeOK'
    <3>1. packets' \in [Ends -> SUBSET Packet]
      BY <1>0, <2>1, <2>2, <2>6, NetworkFacts DEF ReadPart, PacketsOK
    <3>2. receiveMessage' \in [Ends -> Seq(Fragment)]
      <4>1. Append(receiveMessage[e], p.frag) \in Seq(Fragment)
        BY <2>2, <2>6 DEF ReadPart, TypeOK
      <4> QED BY <2>6, <4>1 DEF ReadPart, TypeOK
    <3>3. receiveSequence' \in [Ends -> Nat]
      <4>1. receiveSequence \in [Ends -> Nat]
        BY DEF TypeOK
      <4> QED BY <2>6, <4>1, CountType DEF ReadPart
    <3> QED BY <2>6, <3>1, <3>2, <3>3 DEF ReadPart, TypeOK, Packet
  <2>7. ASSUME ReadLast(e, p) PROVE TypeOK'
    <3>1. packets' \in [Ends -> SUBSET Packet]
      <4>1. AckOf(p) \cup NextPacket(e) \subseteq Packet
        BY <2>2
      <4> QED BY <1>0, <2>1, <4>1, <2>7, NetworkFacts DEF ReadLast, PacketsOK
    <3>2. Append(receiveMessage[e], p.frag) \in Seq(Fragment)
      BY <2>2, <2>7 DEF ReadLast, TypeOK
    <3>3. delivered' \in [Ends -> Seq(Seq(Fragment))]
      BY <2>7, <3>2 DEF ReadLast, TypeOK
    <3>4. receiveMessage' \in [Ends -> Seq(Fragment)]
      <4>1. <<>> \in Seq(Fragment)
        OBVIOUS
      <4> QED BY <2>7, <4>1 DEF ReadLast, TypeOK
    <3>5. receiveSequence' \in [Ends -> Nat]
      <4>1. receiveSequence \in [Ends -> Nat]
        BY DEF TypeOK
      <4> QED BY <2>7, <4>1, CountType DEF ReadLast
    <3>6. call' \in [Ends -> {"none", "reading", "failed"}]
      BY <2>7, CallType DEF ReadLast
    <3>7. /\ sendSequence' \in [Ends -> Nat]
          /\ sendNext' \in [Ends -> BOOLEAN]
      BY <2>7, SendNextType DEF ReadLast
    <3> QED BY <2>7, <3>1, <3>3, <3>4, <3>5, <3>6, <3>7
            DEF ReadLast, TypeOK, Packet
  <2>8. ASSUME ReadRepeat(e, p) PROVE TypeOK'
    <3>1. packets' \in [Ends -> SUBSET Packet]
      BY <1>0, <2>1, <2>2, <2>8, NetworkFacts
         DEF ReadRepeat, RepeatAnswer, PacketsOK
    <3> QED BY <2>8, <3>1 DEF ReadRepeat, TypeOK, Packet
  <2> QED BY <1>8, <2>3, <2>4, <2>5, <2>6, <2>7, <2>8 DEF Read
<1>9. CASE UNCHANGED vars
  BY <1>9 DEF vars, TypeOK
<1> QED BY <1>1, <1>2, <1>3, <1>4, <1>5, <1>6, <1>7, <1>8, <1>9 DEF Next

----------------------------------------------------------------------------
(* StreamInv *)

SenderSame(e) ==
    /\ sendMessage'[e] = sendMessage[e]
    /\ canSend'[e] = canSend[e]
    /\ sendNext'[e] = sendNext[e]
    /\ sendSequence'[e] = sendSequence[e]
    /\ ackSequence'[e] = ackSequence[e]
    /\ accepted'[e] = accepted[e]
    /\ numbered'[e] = numbered[e]

ReceiverSame(r) ==
    /\ receiveSequence'[r] = receiveSequence[r]
    /\ receiveMessage'[r] = receiveMessage[r]
    /\ delivered'[r] = delivered[r]

(* No fragment, or no acknowledgement, is new among end e's packets.       *)
NoNew(e, flag) ==
    \A p \in packets'[e] : p.flag = flag => p \in packets[e]

Step(x) ==
    \/ SendMessage(x)
    \/ SendUnreliableMessage(x)
    \/ CanSendMessage(x)
    \/ GetMessage(x)
    \/ GetMessageResend(x)
    \/ ReadNothing(x)
    \/ ReadFails(x)
    \/ \E p \in packets[Peer(x)] : Read(x, p)

(* An end's step leaves the other end alone and only takes its packets.    *)
LEMMA OtherEnd ==
    ASSUME TypeOK, NEW x \in Ends, NEW y \in Ends, y = Peer(x), Step(x)
    PROVE  /\ SenderSame(y) /\ ReceiverSame(y)
           /\ call'[y] = call[y]
           /\ packets'[y] \subseteq packets[y]
<1> USE DEF sendvars, recvars, unrelvars, history
<1>0. x # y /\ Peer(x) = y
  BY EndFacts
<1>n. ASSUME NEW in, NEW out, Network(x, in, out), in \subseteq packets[y]
      PROVE  packets'[y] \subseteq packets[y]
  <2>1. PICK again \in SUBSET in, through \in SUBSET out :
            packets' = [packets EXCEPT ![y] = (@ \ in) \cup again,
                                       ![x] = @ \cup through]
    BY <1>0, <1>n DEF Network
  <2>2. packets'[y] = (packets[y] \ in) \cup again
    BY <1>0, <2>1 DEF TypeOK
  <2> QED BY <1>n, <2>2
<1>t. /\ sendMessage \in [Ends -> Seq(Fragment)]
      /\ canSend \in [Ends -> BOOLEAN] /\ sendNext \in [Ends -> BOOLEAN]
      /\ sendSequence \in [Ends -> Nat] /\ ackSequence \in [Ends -> Nat]
      /\ accepted \in [Ends -> Seq(Seq(Fragment))]
      /\ numbered \in [Ends -> Seq(Fragment)]
      /\ receiveSequence \in [Ends -> Nat]
      /\ receiveMessage \in [Ends -> Seq(Fragment)]
      /\ delivered \in [Ends -> Seq(Seq(Fragment))]
      /\ call \in [Ends -> {"none", "reading", "failed"}]
  BY DEF TypeOK
<1>1. CASE SendMessage(x)
  <2>1. SenderSame(y)
    BY <1>0, <1>t, <1>1 DEF SendMessage, SenderSame
  <2>2. ReceiverSame(y)
    BY <1>0, <1>t, <1>1 DEF SendMessage, ReceiverSame
  <2>3. call'[y] = call[y]
    BY <1>0, <1>t, <1>1 DEF SendMessage
  <2>4. packets'[y] \subseteq packets[y]
    BY <1>1, <1>n DEF SendMessage
  <2> QED BY <2>1, <2>2, <2>3, <2>4
<1>2. CASE SendUnreliableMessage(x)
  <2>1. SenderSame(y)
    BY <1>0, <1>t, <1>2 DEF SendUnreliableMessage, SenderSame
  <2>2. ReceiverSame(y)
    BY <1>0, <1>t, <1>2 DEF SendUnreliableMessage, ReceiverSame
  <2>3. call'[y] = call[y]
    BY <1>0, <1>t, <1>2 DEF SendUnreliableMessage
  <2>4. packets'[y] \subseteq packets[y]
    BY <1>2, <1>n DEF SendUnreliableMessage
  <2> QED BY <2>1, <2>2, <2>3, <2>4
<1>3. CASE CanSendMessage(x)
  <2>1. SenderSame(y)
    BY <1>0, <1>t, <1>3 DEF CanSendMessage, SendMessageNext, SenderSame
  <2>2. ReceiverSame(y)
    BY <1>0, <1>t, <1>3 DEF CanSendMessage, SendMessageNext, ReceiverSame
  <2>3. call'[y] = call[y]
    BY <1>0, <1>t, <1>3 DEF CanSendMessage
  <2>4. packets'[y] \subseteq packets[y]
    BY <1>3, <1>n DEF CanSendMessage
  <2> QED BY <2>1, <2>2, <2>3, <2>4
<1>4. CASE GetMessage(x)
  <2>1. SenderSame(y)
    BY <1>0, <1>t, <1>4 DEF GetMessage, SenderSame
  <2>2. ReceiverSame(y)
    BY <1>0, <1>t, <1>4 DEF GetMessage, ReceiverSame
  <2>3. call'[y] = call[y]
    BY <1>0, <1>t, <1>4 DEF GetMessage
  <2>4. packets'[y] \subseteq packets[y]
    BY <1>4 DEF GetMessage
  <2> QED BY <2>1, <2>2, <2>3, <2>4
<1>5. CASE GetMessageResend(x)
  <2>1. SenderSame(y)
    BY <1>0, <1>t, <1>5 DEF GetMessageResend, SenderSame
  <2>2. ReceiverSame(y)
    BY <1>0, <1>t, <1>5 DEF GetMessageResend, ReceiverSame
  <2>3. call'[y] = call[y]
    BY <1>0, <1>t, <1>5 DEF GetMessageResend
  <2>4. packets'[y] \subseteq packets[y]
    BY <1>5, <1>n DEF GetMessageResend
  <2> QED BY <2>1, <2>2, <2>3, <2>4
<1>6. CASE ReadNothing(x)
  <2>1. SenderSame(y)
    BY <1>0, <1>t, <1>6 DEF ReadNothing, SendMessageNext, SenderSame
  <2>2. ReceiverSame(y)
    BY <1>0, <1>t, <1>6 DEF ReadNothing, SendMessageNext, ReceiverSame
  <2>3. call'[y] = call[y]
    BY <1>0, <1>t, <1>6 DEF ReadNothing
  <2>4. packets'[y] \subseteq packets[y]
    BY <1>6, <1>n DEF ReadNothing
  <2> QED BY <2>1, <2>2, <2>3, <2>4
<1>7. CASE ReadFails(x)
  <2>1. SenderSame(y)
    BY <1>0, <1>t, <1>7 DEF ReadFails, SenderSame
  <2>2. ReceiverSame(y)
    BY <1>0, <1>t, <1>7 DEF ReadFails, ReceiverSame
  <2>3. call'[y] = call[y]
    BY <1>0, <1>t, <1>7 DEF ReadFails
  <2>4. packets'[y] \subseteq packets[y]
    BY <1>7 DEF ReadFails
  <2> QED BY <2>1, <2>2, <2>3, <2>4
<1>8. ASSUME NEW p \in packets[y], Read(x, p)
      PROVE  /\ SenderSame(y) /\ ReceiverSame(y)
             /\ call'[y] = call[y]
             /\ packets'[y] \subseteq packets[y]
  <2>0. {p} \subseteq packets[y]
    OBVIOUS
  <2>1. CASE ReadUnreliable(x, p)
    <3>1. SenderSame(y)
      BY <1>0, <1>t, <2>1 DEF ReadUnreliable, SendMessageNext, SenderSame
    <3>2. ReceiverSame(y)
      BY <1>0, <1>t, <2>1 DEF ReadUnreliable, SendMessageNext, ReceiverSame
    <3>3. call'[y] = call[y]
      BY <1>0, <1>t, <2>1 DEF ReadUnreliable
    <3>4. packets'[y] \subseteq packets[y]
      BY <2>1, <1>n, <2>0 DEF ReadUnreliable
    <3> QED BY <3>1, <3>2, <3>3, <3>4
  <2>2. CASE ReadAck(x, p)
    <3>1. SenderSame(y)
      BY <1>0, <1>t, <2>2 DEF ReadAck, SenderSame
    <3>2. ReceiverSame(y)
      BY <1>0, <1>t, <2>2 DEF ReadAck, ReceiverSame
    <3>3. call'[y] = call[y]
      BY <1>0, <1>t, <2>2 DEF ReadAck
    <3>4. packets'[y] \subseteq packets[y]
      BY <2>2, <1>n, <2>0 DEF ReadAck
    <3> QED BY <3>1, <3>2, <3>3, <3>4
  <2>3. CASE ReadOldAck(x, p)
    <3>1. SenderSame(y)
      BY <1>0, <1>t, <2>3 DEF ReadOldAck, SenderSame
    <3>2. ReceiverSame(y)
      BY <1>0, <1>t, <2>3 DEF ReadOldAck, ReceiverSame
    <3>3. call'[y] = call[y]
      BY <1>0, <1>t, <2>3 DEF ReadOldAck
    <3>4. packets'[y] \subseteq packets[y]
      BY <2>3, <1>n, <2>0 DEF ReadOldAck
    <3> QED BY <3>1, <3>2, <3>3, <3>4
  <2>4. CASE ReadPart(x, p)
    <3>1. SenderSame(y)
      BY <1>0, <1>t, <2>4 DEF ReadPart, SenderSame
    <3>2. ReceiverSame(y)
      BY <1>0, <1>t, <2>4 DEF ReadPart, ReceiverSame
    <3>3. call'[y] = call[y]
      BY <1>0, <1>t, <2>4 DEF ReadPart
    <3>4. packets'[y] \subseteq packets[y]
      BY <2>4, <1>n, <2>0 DEF ReadPart
    <3> QED BY <3>1, <3>2, <3>3, <3>4
  <2>5. CASE ReadLast(x, p)
    <3>1. SenderSame(y)
      BY <1>0, <1>t, <2>5 DEF ReadLast, SendMessageNext, SenderSame
    <3>2. ReceiverSame(y)
      BY <1>0, <1>t, <2>5 DEF ReadLast, SendMessageNext, ReceiverSame
    <3>3. call'[y] = call[y]
      BY <1>0, <1>t, <2>5 DEF ReadLast
    <3>4. packets'[y] \subseteq packets[y]
      BY <2>5, <1>n, <2>0 DEF ReadLast
    <3> QED BY <3>1, <3>2, <3>3, <3>4
  <2>6. CASE ReadRepeat(x, p)
    <3>1. SenderSame(y)
      BY <1>0, <1>t, <2>6 DEF ReadRepeat, SenderSame
    <3>2. ReceiverSame(y)
      BY <1>0, <1>t, <2>6 DEF ReadRepeat, ReceiverSame
    <3>3. call'[y] = call[y]
      BY <1>0, <1>t, <2>6 DEF ReadRepeat
    <3>4. packets'[y] \subseteq packets[y]
      BY <2>6, <1>n, <2>0 DEF ReadRepeat
    <3> QED BY <3>1, <3>2, <3>3, <3>4
  <2> QED BY <1>8, <2>1, <2>2, <2>3, <2>4, <2>5, <2>6 DEF Read
<1> QED BY <1>0, <1>1, <1>2, <1>3, <1>4, <1>5, <1>6, <1>7, <1>8 DEF Step

DirectionInv(e, r) == SenderInv(e) /\ ReceiverInv(e, r) /\ InFlightInv(e, r)

LEMMA DirectionFacts ==
    ASSUME TypeOK, NEW e \in Ends, NEW r \in Ends
    PROVE  /\ sendMessage[e] \in Seq(Fragment)
           /\ canSend[e] \in BOOLEAN /\ sendNext[e] \in BOOLEAN
           /\ sendSequence[e] \in Nat /\ ackSequence[e] \in Nat
           /\ accepted[e] \in Seq(Seq(Fragment))
           /\ numbered[e] \in Seq(Fragment)
           /\ Current(e) \in Seq(Fragment) /\ Base(e) \in Int
           /\ receiveSequence[r] \in Nat
           /\ receiveMessage[r] \in Seq(Fragment)
           /\ delivered[r] \in Seq(Seq(Fragment))
           /\ \A p \in packets[e] : p.sequence \in Nat
<1>1. accepted[e] \in Seq(Seq(Fragment)) /\ numbered[e] \in Seq(Fragment)
  BY DEF TypeOK
<1>2. Current(e) \in Seq(Fragment)
  BY <1>1 DEF Current
<1>3. Base(e) \in Int
  BY <1>1, <1>2 DEF Base
<1>4. \A p \in packets[e] : p.sequence \in Nat
  BY PacketsOKDef, PacketFields DEF PacketsOK
<1>5. /\ sendMessage[e] \in Seq(Fragment)
      /\ canSend[e] \in BOOLEAN /\ sendNext[e] \in BOOLEAN
      /\ sendSequence[e] \in Nat /\ ackSequence[e] \in Nat
  BY DEF TypeOK
<1>6. /\ receiveSequence[r] \in Nat
      /\ receiveMessage[r] \in Seq(Fragment)
      /\ delivered[r] \in Seq(Seq(Fragment))
  BY DEF TypeOK
<1> QED BY <1>1, <1>2, <1>3, <1>4, <1>5, <1>6

(* A step that neither sends nor takes a fragment in direction e to r.     *)
LEMMA DirectionKept ==
    ASSUME NEW e \in Ends, NEW r \in Ends, DirectionInv(e, r),
           SenderSame(e), ReceiverSame(r),
           call'[e] = "none" => ~sendNext[e],
           NoNew(e, "data"), NoNew(r, "ack")
    PROVE  DirectionInv(e, r)'
<1>1. Current(e)' = Current(e) /\ Base(e)' = Base(e)
  BY DEF Current, Base, SenderSame
<1>2. SenderInv(e)'
  BY <1>1 DEF DirectionInv, SenderInv, SenderSame
<1>3. ReceiverInv(e, r)'
  BY <1>1 DEF DirectionInv, ReceiverInv, SenderSame, ReceiverSame
<1>4. InFlightInv(e, r)'
  BY <1>1 DEF DirectionInv, InFlightInv, SenderSame, ReceiverSame, NoNew
<1> QED BY <1>2, <1>3, <1>4 DEF DirectionInv

(* SendMessageNext, where it is called: the fragment sent is the one after *)
(* those acknowledged.                                                     *)
LEMMA NextFragment ==
    ASSUME TypeOK, NEW e \in Ends, NEW r \in Ends, DirectionInv(e, r),
           SendMessageNext(e), ReceiverSame(r),
           sendMessage'[e] = sendMessage[e], canSend'[e] = canSend[e],
           ackSequence'[e] = ackSequence[e],
           accepted'[e] = accepted[e], numbered'[e] = numbered[e],
           \A p \in packets'[e] : p.flag = "data" =>
               p \in packets[e] \/ p \in NextPacket(e),
           NoNew(r, "ack")
    PROVE  DirectionInv(e, r)'
<1>1. Current(e)' = Current(e) /\ Base(e)' = Base(e)
  BY DEF Current, Base
<1>2. /\ sendNext'[e] = FALSE
      /\ sendSequence'[e] = IF sendNext[e] THEN sendSequence[e] + 1
                                           ELSE sendSequence[e]
  BY DEF SendMessageNext, TypeOK
<1>3. /\ sendSequence[e] \in Nat /\ ackSequence[e] \in Nat
      /\ receiveSequence[r] \in Nat /\ Base(e) \in Int
      /\ sendMessage[e] \in Seq(Fragment) /\ numbered[e] \in Seq(Fragment)
      /\ canSend[e] \in BOOLEAN /\ sendNext[e] \in BOOLEAN
  BY DirectionFacts
<1>4. SenderInv(e)'
  BY <1>1, <1>2, <1>3 DEF DirectionInv, SenderInv
<1>5. ReceiverInv(e, r)'
  BY <1>1, <1>2, <1>3 DEF DirectionInv, ReceiverInv, ReceiverSame
<1>6. ASSUME NEW p \in NextPacket(e)
      PROVE  /\ p.sequence < sendSequence'[e]
             /\ p.frag = numbered[e][p.sequence + 1]
             /\ p.eom <=> p.sequence + 1 = Len(numbered[e])
  <2>1. sendNext[e] /\ p = DataPacket(sendMessage[e], sendSequence[e])
    BY <1>6 DEF NextPacket
  <2>2. /\ ~canSend[e] /\ sendMessage[e] # <<>>
        /\ sendSequence[e] = ackSequence[e]
        /\ Len(numbered[e]) = ackSequence[e] + Len(sendMessage[e])
        /\ \A i \in 1..Len(sendMessage[e]) :
              sendMessage[e][i] = numbered[e][ackSequence[e] + i]
    BY <2>1 DEF DirectionInv, SenderInv
  <2>3. Len(sendMessage[e]) \in Nat /\ Len(sendMessage[e]) >= 1
    BY <1>3, <2>2
  <2>4. /\ p.sequence = sendSequence[e]
        /\ p.frag = sendMessage[e][1]
    BY <2>1 DEF DataPacket
  <2>5. p.sequence < sendSequence'[e]
    BY <1>2, <1>3, <2>1, <2>4
  <2>6. sendMessage[e][1] = numbered[e][ackSequence[e] + 1]
    BY <2>2, <2>3
  <2>7. p.eom <=> Len(sendMessage[e]) <= 1
    BY <2>1 DEF DataPacket
  <2>8. p.sequence + 1 = Len(numbered[e]) <=> Len(sendMessage[e]) <= 1
    <3> DEFINE a == ackSequence[e]
               n == Len(sendMessage[e])
    <3>1. a \in Nat /\ n \in Nat /\ n >= 1
      BY <1>3, <2>3
    <3>2. p.sequence = a /\ Len(numbered[e]) = a + n
      BY <2>2, <2>4
    <3> HIDE DEF a, n
    <3>3. a + 1 = a + n <=> n <= 1
      BY <3>1
    <3> QED BY <3>2, <3>3 DEF n
  <2> QED BY <2>2, <2>4, <2>5, <2>6, <2>7, <2>8
<1>7. InFlightInv(e, r)'
  <2>1. ASSUME NEW p \in packets'[e], p.flag = "data"
        PROVE  /\ p.sequence < sendSequence'[e]
               /\ p.frag = numbered[e][p.sequence + 1]
               /\ p.sequence >= Base(e) =>
                     (p.eom <=> p.sequence + 1 = Len(numbered[e]))
    <3>1. CASE p \in packets[e]
      <4>1. p.sequence \in Nat
        BY <3>1, DirectionFacts
      <4> QED BY <1>2, <1>3, <2>1, <3>1, <4>1 DEF DirectionInv, InFlightInv
    <3>2. CASE p \in NextPacket(e)
      BY <1>6, <3>2
    <3> QED BY <2>1, <3>1, <3>2
  <2> QED BY <1>1, <2>1 DEF DirectionInv, InFlightInv, ReceiverSame, NoNew
<1> QED BY <1>4, <1>5, <1>7 DEF DirectionInv

LEMMA ConcatFacts ==
    ASSUME NEW u \in Seq(Fragment), NEW v \in Seq(Fragment)
    PROVE  /\ Len(u \o v) = Len(u) + Len(v)
           /\ \A j \in 1..Len(v) : (u \o v)[Len(u) + j] = v[j]
           /\ \A j \in 1..Len(u) : (u \o v)[j] = u[j]
<1>1. Len(u) \in Nat /\ Len(v) \in Nat
  OBVIOUS
<1>2. Len(u \o v) = Len(u) + Len(v)
  OBVIOUS
<1>3. \A j \in 1..Len(u) : (u \o v)[j] = u[j]
  OBVIOUS
<1>4. ASSUME NEW j \in 1..Len(v) PROVE (u \o v)[Len(u) + j] = v[j]
  <2>1. Len(u) + j \in 1..(Len(u) + Len(v)) /\ ~(Len(u) + j <= Len(u))
    BY <1>1
  <2>2. (Len(u) + j) - Len(u) = j
    BY <1>1
  <2> QED BY <2>1, <2>2
<1> QED BY <1>2, <1>3, <1>4

LEMMA AppendFacts ==
    ASSUME NEW S, NEW u \in Seq(S), NEW v \in S
    PROVE  /\ Append(u, v) \in Seq(S)
           /\ Append(u, v) # <<>>
           /\ Len(Append(u, v)) = Len(u) + 1
           /\ Append(u, v)[Len(u) + 1] = v
           /\ \A i \in 1..Len(u) : Append(u, v)[i] = u[i]
           /\ SubSeq(Append(u, v), 1, Len(u)) = u
BY AppendProperties, SubSeqProperties, SeqEqual, LenProperties, EmptySeq

(* SendMessage: a new message follows when all of the last one arrived.    *)
LEMMA NewMessage ==
    ASSUME TypeOK, NEW e \in Ends, NEW r \in Ends, r = Peer(e),
           DirectionInv(e, r), SendMessage(e), ReceiverSame(r),
           NoNew(r, "ack")
    PROVE  DirectionInv(e, r)'
<1> DEFINE k == Len(accepted[e]) + 1
           S == sendSequence[e]
<1>0. /\ S \in Nat /\ ackSequence[e] \in Nat
      /\ receiveSequence[r] \in Nat
      /\ numbered[e] \in Seq(Fragment)
      /\ accepted[e] \in Seq(Seq(Fragment))
  BY DirectionFacts
<1>1. PICK n \in 1..MaxParts[e] :
         /\ sendMessage' = [sendMessage EXCEPT ![e] = Text(k, n)]
         /\ Network(e, {}, {DataPacket(Text(k, n), S)})
         /\ accepted' = [accepted EXCEPT ![e] = Append(@, Text(k, n))]
         /\ numbered' = [numbered EXCEPT ![e] = @ \o Text(k, n)]
  BY DEF SendMessage
<1> DEFINE m == Text(k, n)
<1>2. /\ m \in Seq(Fragment) /\ m # <<>>
      /\ Len(m) \in Nat /\ Len(m) >= 1
  <2>1. MaxParts[e] \in Nat
    BY BoundAssumption
  <2>2. n \in Nat \ {0} /\ k \in Nat
    BY <1>0, <2>1
  <2> QED BY <2>2, TextFacts
<1> HIDE DEF m, k
<1>3. /\ sendMessage'[e] = m
      /\ accepted'[e] = Append(accepted[e], m)
      /\ numbered'[e] = numbered[e] \o m
  BY <1>1 DEF m, TypeOK
<1>4. /\ sendSequence'[e] = S + 1
      /\ canSend'[e] = FALSE
      /\ sendNext' = sendNext /\ ackSequence' = ackSequence /\ call' = call
      /\ canSend[e] /\ call[e] = "none"
  BY DEF SendMessage, TypeOK
<1>5. /\ sendMessage[e] = <<>> /\ ~sendNext[e]
      /\ S = ackSequence[e] /\ Len(numbered[e]) = S
      /\ receiveSequence[r] = S
      /\ delivered[r] = accepted[e] /\ receiveMessage[r] = <<>>
  BY <1>0, <1>4 DEF DirectionInv, SenderInv, ReceiverInv
<1>6. /\ Len(numbered'[e]) = S + Len(m)
      /\ \A j \in 1..Len(m) : numbered'[e][S + j] = m[j]
      /\ \A j \in 1..S : numbered'[e][j] = numbered[e][j]
  <2> DEFINE u == numbered[e]
  <2>1. /\ Len(u \o m) = Len(u) + Len(m)
        /\ \A j \in 1..Len(m) : (u \o m)[Len(u) + j] = m[j]
        /\ \A j \in 1..Len(u) : (u \o m)[j] = u[j]
    BY <1>0, <1>2, ConcatFacts
  <2>2. Len(u) = S /\ numbered'[e] = u \o m
    BY <1>3, <1>5
  <2> HIDE DEF u, S
  <2>3. Len(numbered'[e]) = S + Len(m)
    BY <2>1, <2>2
  <2>4. \A j \in 1..Len(m) : numbered'[e][S + j] = m[j]
    BY <2>1, <2>2
  <2>5. \A j \in 1..S : (u \o m)[j] = u[j]
    BY <2>1, <2>2
  <2> QED BY <2>2, <2>3, <2>4, <2>5 DEF u
<1>a. LET w == accepted[e] IN
      /\ accepted'[e] # <<>>
      /\ Len(accepted'[e]) = Len(w) + 1
      /\ accepted'[e][Len(w) + 1] = m
      /\ SubSeq(accepted'[e], 1, Len(w)) = w
  <2> DEFINE w == accepted[e]
  <2>1. w \in Seq(Seq(Fragment)) /\ m \in Seq(Fragment)
    BY <1>0, <1>2
  <2> HIDE DEF w
  <2>2. /\ Append(w, m) # <<>>
        /\ Len(Append(w, m)) = Len(w) + 1
        /\ Append(w, m)[Len(w) + 1] = m
        /\ SubSeq(Append(w, m), 1, Len(w)) = w
    BY <2>1, AppendFacts
  <2> QED BY <1>3, <2>2 DEF w
<1>7. Current(e)' = m /\ Base(e)' = S
  <2>1. accepted'[e] # <<>> /\ accepted'[e][Len(accepted'[e])] = m
    BY <1>a
  <2>2. Current(e)' = m
    BY <2>1 DEF Current
  <2> QED BY <1>0, <1>2, <1>6, <2>2 DEF Base
<1>8. SenderInv(e)'
  <2>1. ~canSend'[e] /\ ~sendNext'[e] /\ call'[e] = "none"
    BY <1>4, <1>5
  <2>2. sendMessage'[e] # <<>> /\ accepted'[e] # <<>>
    BY <1>2, <1>3, <1>a
  <2>3. sendSequence'[e] = ackSequence'[e] + 1 /\ ackSequence'[e] = S
    BY <1>4, <1>5
  <2>4. Len(numbered'[e]) = ackSequence'[e] + Len(sendMessage'[e])
    BY <1>3, <1>6, <2>3
  <2>5. \A j \in 1..Len(m) : m[j] = numbered'[e][S + j]
    BY <1>6
  <2>6. S >= 0 /\ S <= ackSequence'[e]
    BY <1>0, <2>3
  <2> QED BY <1>3, <1>7, <2>1, <2>2, <2>3, <2>4, <2>5, <2>6 DEF SenderInv
<1>9. ReceiverInv(e, r)'
  <2>1. receiveSequence'[r] # Len(numbered'[e])
    BY <1>0, <1>2, <1>5, <1>6 DEF ReceiverSame
  <2>2. delivered'[r] = SubSeq(accepted'[e], 1, Len(accepted'[e]) - 1)
    <3>1. /\ Len(accepted'[e]) - 1 = Len(accepted[e])
          /\ SubSeq(accepted'[e], 1, Len(accepted[e])) = accepted[e]
      <4>1. Len(accepted[e]) \in Nat
        BY <1>0
      <4> QED BY <1>a, <4>1
    <3> QED BY <1>5, <3>1 DEF ReceiverSame
  <2>3. /\ receiveMessage'[r] = <<>>
        /\ receiveSequence'[r] = S
        /\ ackSequence'[e] = S
    BY <1>4, <1>5 DEF ReceiverSame
  <2> QED BY <1>0, <1>4, <1>7, <2>1, <2>2, <2>3 DEF ReceiverInv
<1>10. InFlightInv(e, r)'
  <2>1. packets'[e] \subseteq packets[e] \cup {DataPacket(m, S)}
    <3> DEFINE out == {DataPacket(m, S)}
    <3>1. Network(e, {}, out)
      BY <1>1 DEF m
    <3>2. out \subseteq Packet
      BY <1>0, <1>2, DataPacketType
    <3> HIDE DEF out
    <3>3. packets'[e] \subseteq packets[e] \cup out
      BY <3>1, <3>2, PacketsOKDef, NetworkFacts DEF PacketsOK
    <3> QED BY <3>3 DEF out
  <2>2. ASSUME NEW p \in packets'[e], p.flag = "data"
        PROVE  /\ p.sequence < sendSequence'[e]
               /\ p.frag = numbered'[e][p.sequence + 1]
               /\ p.sequence >= S =>
                     (p.eom <=> p.sequence + 1 = Len(numbered'[e]))
    <3>1. CASE p \in packets[e]
      <4>1. p.sequence \in Nat
        BY <3>1, DirectionFacts
      <4>2. p.sequence < S /\ p.frag = numbered[e][p.sequence + 1]
        BY <2>2, <3>1 DEF DirectionInv, InFlightInv
      <4>3. p.sequence + 1 \in 1..S
        BY <1>0, <4>1, <4>2
      <4>4. p.frag = numbered'[e][p.sequence + 1]
        BY <1>6, <4>2, <4>3
      <4> QED BY <1>0, <1>4, <4>1, <4>2, <4>4
    <3>2. CASE p = DataPacket(m, S)
      <4>1. p.sequence = S /\ p.frag = m[1] /\ (p.eom <=> Len(m) <= 1)
        BY <3>2 DEF DataPacket
      <4>2. S + 1 = S + Len(m) <=> Len(m) <= 1
        BY <1>0, <1>2
      <4>3. numbered'[e][S + 1] = m[1]
        BY <1>2, <1>6
      <4> QED BY <1>0, <1>4, <1>6, <4>1, <4>2, <4>3
    <3> QED BY <2>1, <2>2, <3>1, <3>2
  <2> QED BY <1>7, <2>2 DEF DirectionInv, InFlightInv, ReceiverSame, NoNew
<1> QED BY <1>8, <1>9, <1>10 DEF DirectionInv

(* ReSendMessage: no fragment is still to be sent, so the first of the     *)
(* buffer is the one that went out under sendSequence - 1.                 *)
LEMMA Resend ==
    ASSUME TypeOK, NEW e \in Ends, NEW r \in Ends, r = Peer(e),
           DirectionInv(e, r), GetMessageResend(e), ReceiverSame(r),
           NoNew(r, "ack")
    PROVE  DirectionInv(e, r)'
<1> DEFINE a == ackSequence[e]
           n == Len(sendMessage[e])
<1>1. /\ call[e] = "none" /\ ~canSend[e] /\ SenderInv(e)
      /\ Network(e, {}, {ReSendMessage(e)})
      /\ call'[e] = "reading"
      /\ sendNext'[e] = FALSE
      /\ UNCHANGED <<sendMessage, canSend, sendSequence, ackSequence>>
      /\ UNCHANGED <<accepted, numbered>>
  BY DEF GetMessageResend, DirectionInv, history, TypeOK
<1>2. /\ sendMessage[e] # <<>> /\ ~sendNext[e]
      /\ sendSequence[e] = a + 1
      /\ Len(numbered[e]) = a + n
      /\ \A j \in 1..n : sendMessage[e][j] = numbered[e][a + j]
  BY <1>1 DEF SenderInv
<1>3. /\ a \in Nat /\ n \in Nat /\ n >= 1
      /\ sendMessage[e] \in Seq(Fragment)
  <2>1. sendMessage[e] \in Seq(Fragment) /\ a \in Nat
    BY DirectionFacts
  <2> QED BY <1>2, <2>1
<1>4. Current(e)' = Current(e) /\ Base(e)' = Base(e)
  BY <1>1 DEF Current, Base
<1>5. SenderInv(e)'
  BY <1>1, <1>2, <1>4 DEF SenderInv
<1>6. ReceiverInv(e, r)'
  BY <1>1, <1>4 DEF DirectionInv, ReceiverInv, ReceiverSame
<1>7. packets'[e] \subseteq packets[e] \cup {ReSendMessage(e)}
  <2> DEFINE out == {ReSendMessage(e)}
  <2>1. Network(e, {}, out) /\ out \subseteq Packet
    BY <1>1, ResendType
  <2> HIDE DEF out
  <2>2. packets'[e] \subseteq packets[e] \cup out
    BY <2>1, PacketsOKDef, NetworkFacts DEF PacketsOK
  <2> QED BY <2>2 DEF out
<1>8. ASSUME NEW p, p = ReSendMessage(e)
      PROVE  /\ p.sequence = a
             /\ p.frag = numbered[e][a + 1]
             /\ p.eom <=> a + 1 = Len(numbered[e])
  <2>1. /\ p.sequence = ReSendNumber(e)
        /\ p.frag = sendMessage[e][1]
        /\ p.eom <=> n <= 1
    BY <1>8 DEF ReSendMessage, DataPacket
  <2>2. ReSendNumber(e) = a
    BY <1>1, ResendType
  <2>3. sendMessage[e][1] = numbered[e][a + 1]
    BY <1>2, <1>3
  <2>4. a + 1 = a + n <=> n <= 1
    BY <1>3
  <2> QED BY <1>2, <2>1, <2>2, <2>3, <2>4
<1>9. InFlightInv(e, r)'
  <2>1. ASSUME NEW p \in packets'[e], p.flag = "data"
        PROVE  /\ p.sequence < sendSequence[e]
               /\ p.frag = numbered[e][p.sequence + 1]
               /\ p.sequence >= Base(e) =>
                     (p.eom <=> p.sequence + 1 = Len(numbered[e]))
    <3>1. CASE p \in packets[e]
      BY <2>1, <3>1 DEF DirectionInv, InFlightInv
    <3>2. CASE p = ReSendMessage(e)
      BY <1>2, <1>3, <1>8, <3>2
    <3> QED BY <1>7, <2>1, <3>1, <3>2
  <2> QED BY <1>1, <1>4, <2>1 DEF DirectionInv, InFlightInv, ReceiverSame, NoNew
<1> QED BY <1>5, <1>6, <1>9 DEF DirectionInv

(* An acknowledgement that counts names the one fragment outstanding, and  *)
(* that fragment arrived.                                                  *)
LEMMA Acknowledged ==
    ASSUME TypeOK, NEW e \in Ends, NEW r \in Ends, r = Peer(e),
           DirectionInv(e, r), NEW p \in packets[r], ReadAck(e, p),
           ReceiverSame(r), NoNew(e, "data"), NoNew(r, "ack")
    PROVE  /\ DirectionInv(e, r)'
           /\ receiveSequence[r] = sendSequence[e]
<1> DEFINE a == ackSequence[e]
           n == Len(sendMessage[e])
<1>1. /\ p.flag = "ack" /\ p.sequence = a /\ p.sequence = sendSequence[e] - 1
      /\ call' = call /\ call[e] = "reading"
      /\ ackSequence'[e] = a + 1
      /\ sendMessage'[e] = SubSeq(sendMessage[e], 2, n)
      /\ UNCHANGED <<sendSequence, accepted, numbered>>
  BY DEF ReadAck, AckCurrent, history, TypeOK
<1>2. /\ a \in Nat /\ sendSequence[e] \in Nat /\ receiveSequence[r] \in Nat
      /\ sendMessage[e] \in Seq(Fragment) /\ n \in Nat
      /\ numbered[e] \in Seq(Fragment) /\ Base(e) \in Int
      /\ canSend[e] \in BOOLEAN /\ sendNext[e] \in BOOLEAN
  BY DirectionFacts
<1>3. /\ ~canSend[e] /\ ~sendNext[e] /\ sendMessage[e] # <<>>
      /\ accepted[e] # <<>>
      /\ sendSequence[e] = a + 1
      /\ Len(numbered[e]) = a + n
      /\ \A i \in 1..n : sendMessage[e][i] = numbered[e][a + i]
      /\ Base(e) >= 0 /\ Base(e) <= a
  BY <1>1, <1>2 DEF DirectionInv, SenderInv
<1>4. n >= 1
  BY <1>2, <1>3
<1>5. receiveSequence[r] = a + 1
  BY <1>1, <1>2, <1>3 DEF DirectionInv, ReceiverInv, InFlightInv
<1>6. /\ Len(sendMessage'[e]) = n - 1
      /\ \A i \in 1..(n - 1) : sendMessage'[e][i] = sendMessage[e][i + 1]
      /\ sendMessage'[e] \in Seq(Fragment)
  BY <1>1, <1>2, <1>4
<1>7. Current(e)' = Current(e) /\ Base(e)' = Base(e)
  BY <1>1 DEF Current, Base
<1>8. /\ n > 1 => sendNext'[e] = TRUE /\ canSend'[e] = FALSE
      /\ n <= 1 => canSend'[e] = TRUE /\ sendNext'[e] = FALSE
  <2>1. canSend[e] = FALSE /\ sendNext[e] = FALSE
    BY <1>3, DirectionFacts
  <2>2. CASE n > 1
    <3>1. sendNext' = [sendNext EXCEPT ![e] = TRUE] /\ canSend' = canSend
      BY <2>2 DEF ReadAck
    <3>2. sendNext'[e] = TRUE
      BY <3>1 DEF TypeOK
    <3> QED BY <1>2, <2>1, <2>2, <3>1, <3>2
  <2>3. CASE ~(n > 1)
    <3>1. canSend' = [canSend EXCEPT ![e] = TRUE] /\ sendNext' = sendNext
      BY <2>3 DEF ReadAck
    <3>2. canSend'[e] = TRUE
      BY <3>1 DEF TypeOK
    <3> QED BY <1>2, <2>1, <2>3, <3>1, <3>2
  <2> QED BY <2>2, <2>3
<1> HIDE DEF a, n
<1>9. SenderInv(e)'
  <2>1. IF canSend'[e] THEN sendMessage'[e] = <<>> /\ ~sendNext'[e]
                       ELSE sendMessage'[e] # <<>> /\ accepted'[e] # <<>>
    <3>1. CASE n > 1
      BY <1>1, <1>3, <1>6, <1>8, <3>1
    <3>2. CASE ~(n > 1)
      BY <1>2, <1>4, <1>6, <1>8, <3>2
    <3> QED BY <3>1, <3>2
  <2>2. canSend'[e] \/ sendNext'[e]
    BY <1>2, <1>8
  <2>3. sendSequence'[e] = ackSequence'[e]
    BY <1>1, <1>3
  <2>4. Len(numbered'[e]) = ackSequence'[e] + Len(sendMessage'[e])
    BY <1>1, <1>2, <1>3, <1>6
  <2>5. ASSUME NEW i \in 1..Len(sendMessage'[e])
        PROVE  sendMessage'[e][i] = numbered'[e][ackSequence'[e] + i]
    <3>1. i + 1 \in 1..n /\ a + (i + 1) = (a + 1) + i
      BY <1>2, <1>6, <2>5
    <3>2. sendMessage'[e][i] = sendMessage[e][i + 1]
      BY <1>6, <2>5
    <3> QED BY <1>1, <1>3, <3>1, <3>2
  <2>6. call'[e] # "none"
    BY <1>1
  <2>7. \A i \in 1..Len(Current(e)) :
           Current(e)[i] = numbered[e][Base(e) + i]
    BY DEF DirectionInv, SenderInv
  <2>8. Base(e)' >= 0 /\ Base(e)' <= ackSequence'[e]
    BY <1>1, <1>2, <1>3, <1>7
  <2>9. \A i \in 1..Len(Current(e)') :
           Current(e)'[i] = numbered'[e][Base(e)' + i]
    BY <1>1, <1>7, <2>7
  <2> QED BY <2>1, <2>2, <2>3, <2>4, <2>5, <2>6, <2>8, <2>9 DEF SenderInv
<1>10. ReceiverInv(e, r)'
  BY <1>1, <1>2, <1>3, <1>5, <1>7 DEF DirectionInv, ReceiverInv, ReceiverSame
<1>11. InFlightInv(e, r)'
  BY <1>1, <1>7 DEF DirectionInv, InFlightInv, ReceiverSame, NoNew
<1> QED BY <1>3, <1>5, <1>9, <1>10, <1>11 DEF DirectionInv

(* The fragment the receiver expects is the only one outstanding; with it  *)
(* the receive buffer holds one fragment more of the current message.      *)
LEMMA Expects ==
    ASSUME TypeOK, NEW e \in Ends, NEW r \in Ends, DirectionInv(e, r),
           NEW p \in packets[e], p.flag = "data", Expected(r, p)
    PROVE  LET b == Append(receiveMessage[r], p.frag)
               R == receiveSequence[r]
           IN  /\ R = ackSequence[e] /\ R < sendSequence[e]
               /\ accepted[e] # <<>>
               /\ delivered[r] = SubSeq(accepted[e], 1, Len(accepted[e]) - 1)
               /\ b \in Seq(Fragment)
               /\ Len(b) = R + 1 - Base(e) /\ Len(b) <= Len(Current(e))
               /\ \A i \in 1..Len(b) : b[i] = Current(e)[i]
               /\ p.eom <=> R + 1 = Len(numbered[e])
<1> DEFINE R == receiveSequence[r]
           L == Len(numbered[e])
           B == Base(e)
           m == receiveMessage[r]
           b == Append(m, p.frag)
           cur == Current(e)
<1>1. /\ R \in Nat /\ ackSequence[e] \in Nat /\ sendSequence[e] \in Nat
      /\ L \in Nat /\ B \in Int /\ m \in Seq(Fragment)
      /\ sendMessage[e] \in Seq(Fragment) /\ cur \in Seq(Fragment)
  BY DirectionFacts
<1>2. /\ p.sequence = R /\ R < sendSequence[e]
      /\ ackSequence[e] <= R
  BY DEF Expected, DirectionInv, InFlightInv, ReceiverInv
<1>3. /\ R = ackSequence[e] /\ ~canSend[e]
      /\ sendMessage[e] # <<>> /\ accepted[e] # <<>>
  BY <1>1, <1>2 DEF DirectionInv, SenderInv
<1>4. L = R + Len(sendMessage[e]) /\ Len(sendMessage[e]) >= 1
      /\ Len(sendMessage[e]) \in Nat
  BY <1>1, <1>3 DEF DirectionInv, SenderInv
<1>5. R < L
  BY <1>1, <1>4
<1>6. /\ B <= R /\ B >= 0
      /\ \A i \in 1..Len(cur) : cur[i] = numbered[e][B + i]
  BY <1>3 DEF DirectionInv, SenderInv
<1>7. /\ p.frag = numbered[e][R + 1]
      /\ p.eom <=> R + 1 = L
  BY <1>1, <1>2, <1>6 DEF DirectionInv, InFlightInv
<1>8. /\ delivered[r] = SubSeq(accepted[e], 1, Len(accepted[e]) - 1)
      /\ Len(m) = R - B
      /\ \A i \in 1..Len(m) : m[i] = cur[i]
  BY <1>1, <1>5 DEF DirectionInv, ReceiverInv
<1>9. p.frag \in Fragment
  BY PacketsOKDef, PacketFields DEF PacketsOK
<1>10. B = L - Len(cur) /\ Len(cur) \in Nat
  BY <1>1 DEF Base
<1> HIDE DEF R, L, B, m, cur
<1>11. /\ b \in Seq(Fragment)
       /\ Len(b) = Len(m) + 1
       /\ b[Len(m) + 1] = p.frag
       /\ \A i \in 1..Len(m) : b[i] = m[i]
  BY <1>1, <1>9, AppendFacts
<1> HIDE DEF b
<1>12. Len(b) = R + 1 - B /\ Len(b) <= Len(cur) /\ Len(m) \in Nat
  <2>1. Len(m) \in Nat
    BY <1>1
  <2>2. Len(b) = R + 1 - B
    BY <1>1, <1>8, <1>11, <2>1
  <2>3. R + 1 - B <= Len(cur)
    BY <1>1, <1>5, <1>10
  <2> QED BY <2>1, <2>2, <2>3
<1>13. ASSUME NEW i \in 1..Len(b) PROVE b[i] = cur[i]
  <2>1. CASE i \in 1..Len(m)
    BY <1>8, <1>11, <2>1
  <2>2. CASE i = Len(m) + 1
    <3>0. i = R - B + 1 /\ i = Len(b)
      BY <1>8, <1>11, <2>2
    <3>1. B + i = R + 1 /\ i \in 1..Len(cur)
      BY <1>1, <1>6, <1>10, <1>12, <3>0
    <3> QED BY <1>6, <1>7, <1>11, <2>2, <3>1
  <2> QED BY <1>11, <1>12, <2>1, <2>2
<1> QED BY <1>2, <1>3, <1>7, <1>8, <1>11, <1>12, <1>13 DEF R, L, B, m, b, cur

LEMMA PartArrives ==
    ASSUME TypeOK, NEW e \in Ends, NEW r \in Ends, DirectionInv(e, r),
           NEW p \in packets[e], ReadPart(r, p),
           SenderSame(e), call'[e] = call[e], NoNew(e, "data"),
           \A q \in packets'[r] : q.flag = "ack" =>
               q \in packets[r] \/ q \in AckOf(p)
    PROVE  DirectionInv(e, r)'
<1> DEFINE R == receiveSequence[r]
           b == Append(receiveMessage[r], p.frag)
<1>1. /\ p.flag = "data" /\ ~p.eom /\ Expected(r, p) /\ p.sequence = R
      /\ receiveSequence'[r] = R + 1
      /\ receiveMessage'[r] = b
      /\ delivered'[r] = delivered[r]
  BY DEF ReadPart, Expected, TypeOK
<1>2. /\ R \in Nat /\ ackSequence[e] \in Nat /\ sendSequence[e] \in Nat
      /\ numbered[e] \in Seq(Fragment)
      /\ \A q \in packets[r] : q.sequence \in Nat
  BY DirectionFacts
<1>3. /\ R = ackSequence[e] /\ R < sendSequence[e]
      /\ delivered[r] = SubSeq(accepted[e], 1, Len(accepted[e]) - 1)
      /\ Len(b) = R + 1 - Base(e)
      /\ \A i \in 1..Len(b) : b[i] = Current(e)[i]
      /\ R + 1 # Len(numbered[e])
  BY <1>1, Expects
<1> HIDE DEF b
<1>4. Current(e)' = Current(e) /\ Base(e)' = Base(e)
  BY DEF Current, Base, SenderSame
<1>5. SenderInv(e)'
  BY <1>4 DEF DirectionInv, SenderInv, SenderSame
<1>6. ReceiverInv(e, r)'
  <2>1. R + 1 <= sendSequence[e] /\ ackSequence[e] <= R + 1
    BY <1>2, <1>3
  <2>2. receiveSequence'[r] # Len(numbered'[e])
    BY <1>1, <1>3 DEF SenderSame
  <2>3. delivered'[r] = SubSeq(accepted'[e], 1, Len(accepted'[e]) - 1)
    BY <1>1, <1>3 DEF SenderSame
  <2>4. /\ Len(receiveMessage'[r]) = receiveSequence'[r] - Base(e)'
        /\ \A i \in 1..Len(receiveMessage'[r]) :
              receiveMessage'[r][i] = Current(e)'[i]
    <3>1. Len(receiveMessage'[r]) = receiveSequence'[r] - Base(e)'
      <4>1. Len(receiveMessage'[r]) = Len(b)
        BY <1>1
      <4>2. Base(e)' = Base(e)
        BY <1>4
      <4>3. receiveSequence'[r] = R + 1
        BY <1>1
      <4>4. Len(b) = R + 1 - Base(e)
        BY <1>3
      <4>5. R \in Nat /\ Base(e) \in Int
        BY DirectionFacts
      <4> HIDE DEF R
      <4> QED BY <4>1, <4>2, <4>3, <4>4, <4>5
    <3>2. \A i \in 1..Len(b) : b[i] = Current(e)'[i]
      BY <1>3, <1>4
    <3> QED BY <1>1, <3>1, <3>2
  <2>5. /\ ackSequence'[e] <= receiveSequence'[r]
        /\ receiveSequence'[r] <= sendSequence'[e]
    BY <1>1, <2>1 DEF SenderSame
  <2> QED BY <2>2, <2>3, <2>4, <2>5 DEF ReceiverInv
<1>7. InFlightInv(e, r)'
  <2>1. ASSUME NEW q \in packets'[r], q.flag = "ack" PROVE q.sequence < R + 1
    <3>1. CASE q \in packets[r]
      BY <1>2, <2>1, <3>1 DEF DirectionInv, InFlightInv
    <3>2. CASE q \in AckOf(p)
      BY <1>1, <1>2, <3>2 DEF AckOf
    <3> QED BY <2>1, <3>1, <3>2
  <2> QED BY <1>1, <1>4, <2>1 DEF DirectionInv, InFlightInv, SenderSame, NoNew
<1> QED BY <1>5, <1>6, <1>7 DEF DirectionInv

LEMMA LastArrives ==
    ASSUME TypeOK, NEW e \in Ends, NEW r \in Ends, DirectionInv(e, r),
           NEW p \in packets[e], ReadLast(r, p),
           SenderSame(e), call'[e] = call[e], NoNew(e, "data"),
           \A q \in packets'[r] : q.flag = "ack" =>
               q \in packets[r] \/ q \in AckOf(p)
    PROVE  /\ DirectionInv(e, r)'
           /\ Len(delivered[r]) < Len(accepted[e])
           /\ delivered'[r] =
                  Append(delivered[r], accepted[e][Len(delivered[r]) + 1])
<1> DEFINE R == receiveSequence[r]
           b == Append(receiveMessage[r], p.frag)
           k == Len(accepted[e])
<1>1. /\ p.flag = "data" /\ p.eom /\ Expected(r, p) /\ p.sequence = R
      /\ receiveSequence'[r] = R + 1
      /\ receiveMessage'[r] = <<>>
      /\ delivered'[r] = Append(delivered[r], b)
  BY DEF ReadLast, Expected, TypeOK
<1>2. /\ R \in Nat /\ ackSequence[e] \in Nat /\ sendSequence[e] \in Nat
      /\ numbered[e] \in Seq(Fragment)
      /\ accepted[e] \in Seq(Seq(Fragment)) /\ Current(e) \in Seq(Fragment)
      /\ \A q \in packets[r] : q.sequence \in Nat
  BY DirectionFacts
<1>3. /\ R = ackSequence[e] /\ R < sendSequence[e]
      /\ accepted[e] # <<>>
      /\ delivered[r] = SubSeq(accepted[e], 1, k - 1)
      /\ b \in Seq(Fragment)
      /\ Len(b) = R + 1 - Base(e)
      /\ \A i \in 1..Len(b) : b[i] = Current(e)[i]
      /\ R + 1 = Len(numbered[e])
  BY <1>1, Expects
<1> HIDE DEF b
<1>4. b = Current(e)
  <2>1. Len(b) = Len(Current(e))
    <3> DEFINE L == Len(numbered[e])
               c == Len(Current(e))
    <3>1. L \in Nat /\ c \in Nat /\ Base(e) = L - c
      BY <1>2 DEF Base
    <3>2. Len(b) = R + 1 - Base(e) /\ R + 1 = L
      BY <1>3
    <3> HIDE DEF L, c
    <3>3. Len(b) = c
      BY <1>2, <3>1, <3>2
    <3> QED BY <3>3 DEF c
  <2> QED BY <1>2, <1>3, <2>1, SeqEqual
<1>5. k \in Nat /\ k >= 1 /\ Current(e) = accepted[e][k]
  BY <1>2, <1>3 DEF Current
<1>6. Len(delivered[r]) = k - 1
  BY <1>2, <1>3, <1>5
<1>7. delivered'[r] = Append(delivered[r], accepted[e][k])
  BY <1>1, <1>4, <1>5
<1>8. delivered'[r] = accepted[e]
  <2> DEFINE a == accepted[e]
             d == SubSeq(a, 1, k - 1)
  <2>1. a \in Seq(Seq(Fragment)) /\ k = Len(a) /\ k \in Nat /\ k >= 1
    BY <1>2, <1>5
  <2> HIDE DEF a, k
  <2>2. /\ d \in Seq(Seq(Fragment)) /\ Len(d) = k - 1
        /\ \A i \in 1..(k - 1) : d[i] = a[i]
    BY <2>1
  <2>3. a[k] \in Seq(Fragment)
    BY <2>1
  <2> HIDE DEF d
  <2>4. /\ Append(d, a[k]) \in Seq(Seq(Fragment))
        /\ Len(Append(d, a[k])) = k
        /\ Append(d, a[k])[k] = a[k]
        /\ \A i \in 1..(k - 1) : Append(d, a[k])[i] = d[i]
    BY <2>1, <2>2, <2>3, AppendFacts
  <2>5. \A i \in 1..k : Append(d, a[k])[i] = a[i]
    BY <2>1, <2>2, <2>4
  <2>6. Append(d, a[k]) = a
    BY <2>1, <2>4, <2>5, SeqEqual
  <2> QED BY <1>3, <1>7, <2>6 DEF a, d, k
<1>9. Current(e)' = Current(e) /\ Base(e)' = Base(e)
  BY DEF Current, Base, SenderSame
<1>10. SenderInv(e)'
  BY <1>9 DEF DirectionInv, SenderInv, SenderSame
<1>11. ReceiverInv(e, r)'
  <2>1. R + 1 <= sendSequence[e] /\ ackSequence[e] <= R + 1
    BY <1>2, <1>3
  <2> QED BY <1>1, <1>3, <1>8, <1>9, <2>1 DEF ReceiverInv, SenderSame
<1>12. InFlightInv(e, r)'
  <2>1. ASSUME NEW q \in packets'[r], q.flag = "ack" PROVE q.sequence < R + 1
    <3>1. CASE q \in packets[r]
      BY <1>2, <2>1, <3>1 DEF DirectionInv, InFlightInv
    <3>2. CASE q \in AckOf(p)
      BY <1>1, <1>2, <3>2 DEF AckOf
    <3> QED BY <2>1, <3>1, <3>2
  <2> QED BY <1>1, <1>9, <2>1 DEF DirectionInv, InFlightInv, SenderSame, NoNew
<1>13. Len(delivered[r]) < k /\ Len(delivered[r]) + 1 = k
  BY <1>5, <1>6
<1> QED BY <1>7, <1>10, <1>11, <1>12, <1>13 DEF DirectionInv

(* A repeated fragment is acknowledged again, and did arrive.              *)
LEMMA RepeatArrives ==
    ASSUME TypeOK, NEW e \in Ends, NEW r \in Ends, DirectionInv(e, r),
           NEW p \in packets[e], p.flag = "data", ~Expected(r, p),
           SenderSame(e), ReceiverSame(r), call'[e] = call[e],
           NoNew(e, "data"),
           \A q \in packets'[r] : q.flag = "ack" =>
               q \in packets[r] \/ q \in AckOf(p)
    PROVE  DirectionInv(e, r)'
<1>1. /\ receiveSequence[r] \in Nat /\ ackSequence[e] \in Nat
      /\ sendSequence[e] \in Nat /\ p.sequence \in Nat
  BY DirectionFacts
<1>2. /\ ackSequence[e] <= receiveSequence[r]
      /\ sendSequence[e] <= ackSequence[e] + 1
      /\ p.sequence < sendSequence[e] /\ p.sequence # receiveSequence[r]
  BY <1>1 DEF DirectionInv, SenderInv, ReceiverInv, InFlightInv, Expected
<1>3. p.sequence < receiveSequence[r]
  BY <1>1, <1>2
<1>4. Current(e)' = Current(e) /\ Base(e)' = Base(e)
  BY DEF Current, Base, SenderSame
<1>5. SenderInv(e)'
  BY <1>4 DEF DirectionInv, SenderInv, SenderSame
<1>6. ReceiverInv(e, r)'
  BY <1>4 DEF DirectionInv, ReceiverInv, SenderSame, ReceiverSame
<1>7. ASSUME NEW q \in packets'[r], q.flag = "ack"
      PROVE  q.sequence < receiveSequence[r]
  <2>1. CASE q \in packets[r]
    BY <1>7, <2>1 DEF DirectionInv, InFlightInv
  <2>2. CASE q \in AckOf(p)
    BY <1>3, <2>2 DEF AckOf
  <2> QED BY <1>7, <2>1, <2>2
<1>8. InFlightInv(e, r)'
  BY <1>4, <1>7 DEF DirectionInv, InFlightInv, SenderSame, ReceiverSame, NoNew
<1> QED BY <1>5, <1>6, <1>8 DEF DirectionInv

(* What an end writes that is neither fragment nor acknowledgement, and    *)
(* what the network adds at all.                                           *)
LEMMA Written ==
    ASSUME TypeOK, NEW x \in Ends, NEW in, NEW out, Network(x, in, out),
           in \subseteq packets[Peer(x)], out \subseteq Packet, NEW flag,
           NEW known, \A q \in out : q.flag = flag => q \in known
    PROVE  \A q \in packets'[x] : q.flag = flag => q \in packets[x] \/ q \in known
<1>1. packets'[x] \subseteq packets[x] \cup out
  BY PacketsOKDef, NetworkFacts DEF PacketsOK
<1> QED BY <1>1

(* For the direction it sends in, an end's step is one of the sender's.    *)
LEMMA SenderStep ==
    ASSUME TypeOK, NEW x \in Ends, NEW r \in Ends, r = Peer(x),
           DirectionInv(x, r), Step(x)
    PROVE  DirectionInv(x, r)'
<1> USE DEF sendvars, recvars, unrelvars, history
<1>0. /\ ReceiverSame(r) /\ NoNew(r, "ack")
      /\ x # r /\ SenderInv(x) /\ NextPacket(x) \subseteq Packet
      /\ \A q \in NextPacket(x) : q.flag = "data"
  <2>1. ReceiverSame(r) /\ packets'[r] \subseteq packets[r]
    BY OtherEnd
  <2>2. SenderInv(x)
    BY DEF DirectionInv
  <2>3. \A q \in NextPacket(x) : q.flag = "data"
    BY DEF NextPacket, DataPacket
  <2> QED BY <2>1, <2>2, <2>3, EndFacts, NextPacketType DEF NoNew
<1>n. ASSUME NEW in, Network(x, in, NextPacket(x)), in \subseteq packets[r],
             SendMessageNext(x), UNCHANGED <<sendMessage, canSend, ackSequence,
                                             accepted, numbered>>
      PROVE  DirectionInv(x, r)'
  <2>1. \A q \in packets'[x] : q.flag = "data" =>
            q \in packets[x] \/ q \in NextPacket(x)
    BY <1>0, <1>n, Written
  <2> QED BY <1>0, <1>n, <2>1, NextFragment
<1>k. ASSUME NEW in, NEW out, Network(x, in, out), in \subseteq packets[r],
             out \subseteq Packet, \A q \in out : q.flag # "data",
             UNCHANGED <<sendvars, accepted, numbered>>,
             call'[x] = "none" => call[x] = "none"
      PROVE  DirectionInv(x, r)'
  <2>1. NoNew(x, "data")
    <3>1. packets'[x] \subseteq packets[x] \cup out
      BY <1>k, PacketsOKDef, NetworkFacts DEF PacketsOK
    <3> QED BY <1>k, <3>1 DEF NoNew
  <2>2. SenderSame(x)
    BY <1>k DEF SenderSame
  <2>3. call'[x] = "none" => ~sendNext[x]
    BY <1>0, <1>k DEF SenderInv
  <2> QED BY <1>0, <2>1, <2>2, <2>3, DirectionKept
<1>1. CASE SendMessage(x)
  BY <1>0, <1>1, NewMessage
<1>2. CASE SendUnreliableMessage(x)
  <2> DEFINE out == {[flag |-> "unreliable",
                      sequence |-> unreliableSendSequence[x]]}
  <2>1. unreliableSendSequence[x] \in Nat
    BY DEF TypeOK
  <2>2. out \subseteq Packet /\ \A q \in out : q.flag # "data"
    BY <2>1 DEF Packet, Unreliable
  <2>3. Network(x, {}, out)
    BY <1>2 DEF SendUnreliableMessage
  <2> HIDE DEF out
  <2>4. UNCHANGED <<sendvars, accepted, numbered>> /\ call' = call
    BY <1>2 DEF SendUnreliableMessage
  <2> QED BY <1>k, <2>2, <2>3, <2>4
<1>3. CASE CanSendMessage(x)
  <2>1. /\ Network(x, {}, NextPacket(x)) /\ SendMessageNext(x)
        /\ UNCHANGED <<sendMessage, canSend, ackSequence, accepted, numbered>>
    BY <1>3 DEF CanSendMessage
  <2> QED BY <1>n, <2>1
<1>4. CASE GetMessage(x)
  <2>1. SenderSame(x) /\ NoNew(x, "data")
    BY <1>4 DEF GetMessage, SenderSame, NoNew
  <2>2. call'[x] # "none"
    BY <1>4 DEF GetMessage, TypeOK
  <2> QED BY <1>0, <2>1, <2>2, DirectionKept
<1>5. CASE GetMessageResend(x)
  BY <1>0, <1>5, Resend
<1>6. CASE ReadNothing(x)
  <2>1. /\ Network(x, {}, NextPacket(x)) /\ SendMessageNext(x)
        /\ UNCHANGED <<sendMessage, canSend, ackSequence, accepted, numbered>>
    BY <1>6 DEF ReadNothing
  <2> QED BY <1>n, <2>1
<1>7. CASE ReadFails(x)
  <2>1. SenderSame(x) /\ NoNew(x, "data")
    BY <1>7 DEF ReadFails, SenderSame, NoNew
  <2>2. call'[x] # "none"
    BY <1>7 DEF ReadFails, TypeOK
  <2> QED BY <1>0, <2>1, <2>2, DirectionKept
<1>8. ASSUME NEW p \in packets[r], Read(x, p) PROVE DirectionInv(x, r)'
  <2>0. /\ {p} \subseteq packets[r] /\ AckOf(p) \subseteq Packet
        /\ \A q \in AckOf(p) : q.flag = "ack"
    BY DirectionFacts, AckType DEF AckOf
  <2>1. CASE ReadUnreliable(x, p)
    <3>1. /\ Network(x, {p}, NextPacket(x)) /\ SendMessageNext(x)
          /\ UNCHANGED <<sendMessage, canSend, ackSequence, accepted, numbered>>
      BY <2>1 DEF ReadUnreliable
    <3> QED BY <1>n, <2>0, <3>1
  <2>2. CASE ReadAck(x, p)
    <3>1. NoNew(x, "data")
      <4>1. Network(x, {p}, {})
        BY <2>2 DEF ReadAck
      <4>2. packets'[x] \subseteq packets[x] \cup {}
        BY <2>0, <4>1, PacketsOKDef, NetworkFacts DEF PacketsOK
      <4> QED BY <4>2 DEF NoNew
    <3> QED BY <1>0, <2>2, <3>1, Acknowledged
  <2>3. CASE ReadOldAck(x, p)
    <3>1. /\ Network(x, {p}, {}) /\ call' = call
          /\ UNCHANGED <<sendvars, accepted, numbered>>
      BY <2>3 DEF ReadOldAck
    <3> QED BY <1>k, <2>0, <3>1
  <2>4. CASE ReadPart(x, p)
    <3>1. /\ Network(x, {p}, AckOf(p)) /\ call' = call
          /\ UNCHANGED <<sendvars, accepted, numbered>>
      BY <2>4 DEF ReadPart
    <3> QED BY <1>k, <2>0, <3>1
  <2>5. CASE ReadLast(x, p)
    <3> DEFINE out == AckOf(p) \cup NextPacket(x)
    <3>1. /\ Network(x, {p}, out) /\ SendMessageNext(x)
          /\ UNCHANGED <<sendMessage, canSend, ackSequence, accepted, numbered>>
      BY <2>5 DEF ReadLast
    <3>2. out \subseteq Packet /\ \A q \in out : q.flag = "data" => q \in NextPacket(x)
      BY <1>0, <2>0
    <3> HIDE DEF out
    <3>3. \A q \in packets'[x] : q.flag = "data" =>
              q \in packets[x] \/ q \in NextPacket(x)
      BY <2>0, <3>1, <3>2, Written
    <3> QED BY <1>0, <3>1, <3>3, NextFragment
  <2>6. CASE ReadRepeat(x, p)
    <3>1. /\ Network(x, {p}, AckOf(p)) /\ call' = call
          /\ UNCHANGED <<sendvars, accepted, numbered>>
      BY <2>6 DEF ReadRepeat, RepeatAnswer
    <3> QED BY <1>k, <2>0, <3>1
  <2> QED BY <1>8, <2>1, <2>2, <2>3, <2>4, <2>5, <2>6 DEF Read
<1> QED BY <1>1, <1>2, <1>3, <1>4, <1>5, <1>6, <1>7, <1>8 DEF Step

(* What the call that reads a last fragment adds to the acknowledgements.  *)
LEMMA LastWritten ==
    ASSUME TypeOK, NEW x \in Ends, NEW e \in Ends, e = Peer(x), SenderInv(x),
           NEW p \in packets[e], ReadLast(x, p)
    PROVE  \A q \in packets'[x] : q.flag = "ack" =>
               q \in packets[x] \/ q \in AckOf(p)
<1>1. {p} \subseteq packets[e] /\ AckOf(p) \subseteq Packet
  BY EndFacts, DirectionFacts, AckType
<1>2. /\ NextPacket(x) \subseteq Packet
      /\ \A q \in NextPacket(x) : q.flag = "data"
  BY NextPacketType DEF NextPacket, DataPacket
<1>3. packets'[x] \subseteq packets[x] \cup (AckOf(p) \cup NextPacket(x))
  <2> DEFINE out == AckOf(p) \cup NextPacket(x)
  <2>1. Network(x, {p}, out)
    BY DEF ReadLast
  <2>2. out \subseteq Packet
    BY <1>1, <1>2
  <2> HIDE DEF out
  <2>3. packets'[x] \subseteq packets[x] \cup out
    BY <1>1, <2>1, <2>2, PacketsOKDef, NetworkFacts DEF PacketsOK
  <2> QED BY <2>3 DEF out
<1> QED BY <1>2, <1>3

(* For the other direction, an end's step is one of the receiver's.        *)
LEMMA ReceiverStep ==
    ASSUME TypeOK, NEW x \in Ends, NEW e \in Ends, e = Peer(x),
           DirectionInv(x, e), DirectionInv(e, x), Step(x)
    PROVE  DirectionInv(e, x)'
<1> USE DEF sendvars, recvars, unrelvars, history
<1>0. /\ SenderSame(e) /\ call'[e] = call[e] /\ NoNew(e, "data")
      /\ call'[e] = "none" => ~sendNext[e]
      /\ NextPacket(x) \subseteq Packet
      /\ \A q \in NextPacket(x) : q.flag = "data"
  <2>1. /\ SenderSame(e) /\ call'[e] = call[e]
        /\ packets'[e] \subseteq packets[e]
    BY OtherEnd
  <2>2. SenderInv(x) /\ SenderInv(e)
    BY DEF DirectionInv
  <2>3. \A q \in NextPacket(x) : q.flag = "data"
    BY DEF NextPacket, DataPacket
  <2>4. call'[e] = "none" => ~sendNext[e]
    BY <2>1, <2>2 DEF SenderInv
  <2> QED BY <2>1, <2>2, <2>3, <2>4, NextPacketType DEF NoNew
<1>k. ASSUME NEW in, NEW out, Network(x, in, out), in \subseteq packets[e],
             out \subseteq Packet, \A q \in out : q.flag # "ack",
             UNCHANGED recvars
      PROVE  DirectionInv(e, x)'
  <2>1. NoNew(x, "ack")
    <3>1. packets'[x] \subseteq packets[x] \cup out
      BY <1>k, PacketsOKDef, NetworkFacts DEF PacketsOK
    <3> QED BY <1>k, <3>1 DEF NoNew
  <2>2. ReceiverSame(x)
    BY <1>k DEF ReceiverSame
  <2> QED BY <1>0, <2>1, <2>2, DirectionKept
<1>n. /\ \A q \in NextPacket(x) : q.flag # "ack"
      /\ \A q \in {} : q.flag # "ack"
      /\ {} \subseteq packets[e] /\ {} \subseteq Packet
  BY <1>0
<1>1. CASE SendMessage(x)
  <2> DEFINE k == Len(accepted[x]) + 1
  <2>1. PICK n \in 1..MaxParts[x] :
           Network(x, {}, {DataPacket(Text(k, n), sendSequence[x])})
    BY <1>1 DEF SendMessage
  <2>2. n \in Nat \ {0} /\ k \in Nat /\ sendSequence[x] \in Nat
    <3>1. MaxParts[x] \in Nat
      BY BoundAssumption
    <3>2. accepted[x] \in Seq(Seq(Fragment)) /\ sendSequence[x] \in Nat
      BY DEF TypeOK
    <3> QED BY <2>1, <3>1, <3>2
  <2> HIDE DEF k
  <2> DEFINE m == Text(k, n)
             out == {DataPacket(m, sendSequence[x])}
  <2>3. m \in Seq(Fragment) /\ m # <<>>
    BY <2>2, TextFacts
  <2> HIDE DEF m
  <2>4. out \subseteq Packet /\ \A q \in out : q.flag # "ack"
    <3>1. DataPacket(m, sendSequence[x]).flag # "ack"
      BY DEF DataPacket
    <3> QED BY <2>2, <2>3, <3>1, DataPacketType
  <2>5. Network(x, {}, out) /\ UNCHANGED recvars
    BY <1>1, <2>1 DEF SendMessage, m
  <2> HIDE DEF out
  <2> QED BY <1>k, <1>n, <2>4, <2>5
<1>2. CASE SendUnreliableMessage(x)
  <2> DEFINE out == {[flag |-> "unreliable",
                      sequence |-> unreliableSendSequence[x]]}
  <2>1. unreliableSendSequence[x] \in Nat
    BY DEF TypeOK
  <2>2. out \subseteq Packet /\ \A q \in out : q.flag # "ack"
    BY <2>1 DEF Packet, Unreliable
  <2>3. Network(x, {}, out) /\ UNCHANGED recvars
    BY <1>2 DEF SendUnreliableMessage
  <2> HIDE DEF out
  <2> QED BY <1>k, <1>n, <2>2, <2>3
<1>3. CASE CanSendMessage(x)
  <2>1. Network(x, {}, NextPacket(x)) /\ UNCHANGED recvars
    BY <1>3 DEF CanSendMessage
  <2> QED BY <1>0, <1>k, <1>n, <2>1
<1>4. CASE GetMessage(x)
  <2>1. ReceiverSame(x) /\ NoNew(x, "ack")
    BY <1>4 DEF GetMessage, ReceiverSame, NoNew
  <2> QED BY <1>0, <2>1, DirectionKept
<1>5. CASE GetMessageResend(x)
  <2> DEFINE out == {ReSendMessage(x)}
  <2>1. out \subseteq Packet
    BY <1>5, ResendType DEF GetMessageResend, DirectionInv
  <2>2. \A q \in out : q.flag # "ack"
    BY DEF ReSendMessage, DataPacket
  <2>3. Network(x, {}, out) /\ UNCHANGED recvars
    BY <1>5 DEF GetMessageResend
  <2> HIDE DEF out
  <2> QED BY <1>k, <1>n, <2>1, <2>2, <2>3
<1>6. CASE ReadNothing(x)
  <2>1. Network(x, {}, NextPacket(x)) /\ UNCHANGED recvars
    BY <1>6 DEF ReadNothing
  <2> QED BY <1>0, <1>k, <1>n, <2>1
<1>7. CASE ReadFails(x)
  <2>1. ReceiverSame(x) /\ NoNew(x, "ack")
    BY <1>7 DEF ReadFails, ReceiverSame, NoNew
  <2> QED BY <1>0, <2>1, DirectionKept
<1>8. ASSUME NEW p \in packets[e], Read(x, p) PROVE DirectionInv(e, x)'
  <2>0. {p} \subseteq packets[e] /\ AckOf(p) \subseteq Packet
    BY DirectionFacts, AckType
  <2>a. ASSUME Network(x, {p}, AckOf(p))
        PROVE  \A q \in packets'[x] : q.flag = "ack" =>
                   q \in packets[x] \/ q \in AckOf(p)
    <3>1. packets'[x] \subseteq packets[x] \cup AckOf(p)
      BY <2>0, <2>a, PacketsOKDef, NetworkFacts DEF PacketsOK
    <3> QED BY <3>1
  <2>1. CASE ReadUnreliable(x, p)
    <3>1. Network(x, {p}, NextPacket(x)) /\ UNCHANGED recvars
      BY <2>1 DEF ReadUnreliable
    <3> QED BY <1>0, <1>k, <1>n, <2>0, <3>1
  <2>2. CASE ReadAck(x, p)
    <3>1. Network(x, {p}, {}) /\ UNCHANGED recvars
      BY <2>2 DEF ReadAck
    <3> QED BY <1>k, <1>n, <2>0, <3>1
  <2>3. CASE ReadOldAck(x, p)
    <3>1. Network(x, {p}, {}) /\ UNCHANGED recvars
      BY <2>3 DEF ReadOldAck
    <3> QED BY <1>k, <1>n, <2>0, <3>1
  <2>4. CASE ReadPart(x, p)
    <3>1. Network(x, {p}, AckOf(p))
      BY <2>4 DEF ReadPart
    <3> QED BY <1>0, <2>4, <2>a, <3>1, PartArrives
  <2>5. CASE ReadLast(x, p)
    BY <1>0, <2>5, LastWritten, LastArrives DEF DirectionInv
  <2>6. CASE ReadRepeat(x, p)
    <3>1. /\ Network(x, {p}, AckOf(p)) /\ ReceiverSame(x)
          /\ p.flag = "data" /\ ~Expected(x, p)
      BY <2>6 DEF ReadRepeat, RepeatAnswer, ReceiverSame
    <3> QED BY <1>0, <2>a, <3>1, RepeatArrives
  <2> QED BY <1>8, <2>1, <2>2, <2>3, <2>4, <2>5, <2>6 DEF Read
<1> QED BY <1>1, <1>2, <1>3, <1>4, <1>5, <1>6, <1>7, <1>8 DEF Step

----------------------------------------------------------------------------
(* The invariants *)

LEMMA StreamInit == Init => TypeOK /\ StreamInv
<1> SUFFICES ASSUME Init PROVE TypeOK /\ StreamInv
  OBVIOUS
<1>1. TypeOK
  BY DEF Init, TypeOK
<1>2. ASSUME NEW e \in Ends PROVE DirectionInv(e, Peer(e))
  <2>0. Peer(e) \in Ends
    BY EndFacts
  <2>1. Current(e) = <<>> /\ Base(e) = 0
    BY DEF Init, Current, Base
  <2>2. SenderInv(e)
    BY <2>1 DEF Init, SenderInv
  <2>3. ReceiverInv(e, Peer(e))
    BY <2>0, <2>1 DEF Init, ReceiverInv
  <2>4. InFlightInv(e, Peer(e))
    BY <2>0 DEF Init, InFlightInv
  <2> QED BY <2>2, <2>3, <2>4 DEF DirectionInv
<1> QED BY <1>1, <1>2 DEF StreamInv, DirectionInv

LEMMA StreamStep ==
    ASSUME TypeOK, StreamInv, [Next]_vars
    PROVE  TypeOK' /\ StreamInv'
<1>1. TypeOK'
  BY TypeStep
<1>2. \A e \in Ends : DirectionInv(e, Peer(e))
  BY DEF StreamInv, DirectionInv
<1>3. ASSUME NEW x \in Ends, Step(x), NEW e \in Ends
      PROVE  DirectionInv(e, Peer(e))'
  <2> DEFINE y == Peer(x)
  <2>1. y \in Ends /\ Peer(y) = x /\ y # x /\ (e = x \/ e = y)
    BY EndFacts DEF Ends, Peer
  <2>2. DirectionInv(x, y) /\ DirectionInv(y, x)
    BY <1>2, <2>1
  <2>3. DirectionInv(x, y)'
    BY <1>3, <2>1, <2>2, SenderStep
  <2>4. DirectionInv(y, x)'
    BY <1>3, <2>1, <2>2, ReceiverStep
  <2> HIDE DEF y
  <2>5. CASE e = x
    BY <2>3, <2>5 DEF y
  <2>6. CASE e = y
    BY <2>1, <2>4, <2>6
  <2> QED BY <2>1, <2>5, <2>6
<1>4. CASE Next
  <2>1. PICK x \in Ends : Step(x)
    BY <1>4 DEF Next, Step
  <2> QED BY <1>1, <1>3, <2>1 DEF StreamInv, DirectionInv
<1>5. CASE UNCHANGED vars
  <2>1. ASSUME NEW e \in Ends PROVE DirectionInv(e, Peer(e))'
    <3>1. /\ SenderSame(e) /\ ReceiverSame(Peer(e)) /\ call' = call
          /\ NoNew(e, "data") /\ NoNew(Peer(e), "ack")
      BY <1>5 DEF vars, sendvars, recvars, unrelvars, history, SenderSame,
                  ReceiverSame, NoNew
    <3>2. call'[e] = "none" => ~sendNext[e]
      BY <1>2, <3>1 DEF DirectionInv, SenderInv
    <3> QED BY <1>2, <3>1, <3>2, EndFacts, DirectionKept
  <2> QED BY <1>1, <2>1 DEF StreamInv, DirectionInv
<1> QED BY <1>4, <1>5

(* SendMessage, GetMessage: every variable keeps its type.                 *)
THEOREM TypeCorrect == Spec => []TypeOK
<1>1. Init => TypeOK /\ StreamInv
  BY StreamInit
<1>2. TypeOK /\ StreamInv /\ [Next]_vars => (TypeOK /\ StreamInv)'
  BY StreamStep
<1> QED BY <1>1, <1>2, PTL DEF Spec

(* SendMessage, ReSendMessage, GetMessage: at any length of message and    *)
(* through any loss, repetition and reordering, the two buffers and the    *)
(* packets hold what the sequence numbers say they hold.                   *)
THEOREM StreamCorrect == Spec => []StreamInv
<1>1. Init => TypeOK /\ StreamInv
  BY StreamInit
<1>2. TypeOK /\ StreamInv /\ [Next]_vars => (TypeOK /\ StreamInv)'
  BY StreamStep
<1> QED BY <1>1, <1>2, PTL DEF Spec

(* SendMessage, GetMessage: one fragment at most is outstanding.           *)
THEOREM OneFragment == Spec => []OneFragmentOut
<1>1. ASSUME TypeOK, StreamInv PROVE OneFragmentOut
  <2> SUFFICES ASSUME NEW e \in Ends
               PROVE  /\ ackSequence[e] <= receiveSequence[Peer(e)]
                      /\ receiveSequence[Peer(e)] <= sendSequence[e]
                      /\ sendSequence[e] <= ackSequence[e] + 1
    BY DEF OneFragmentOut
  <2>1. ackSequence[e] \in Nat
    BY <1>1 DEF TypeOK
  <2> QED BY <1>1, <2>1 DEF StreamInv, SenderInv, ReceiverInv
<1> QED BY <1>1, TypeCorrect, StreamCorrect, PTL

(* ReSendMessage: a sequence number names one fragment for ever.           *)
THEOREM NumberNames == Spec => []NumberNamesFragment
<1>1. StreamInv => NumberNamesFragment
  BY DEF StreamInv, InFlightInv, NumberNamesFragment
<1> QED BY <1>1, StreamCorrect, PTL

----------------------------------------------------------------------------
(* The refinement.  From e to r = Peer(e) the abstract stream sends when e *)
(* does SendMessage, delivers when r reads a last fragment, and confirms   *)
(* when e reads the acknowledgement of its last fragment.                  *)

StreamSend(e) ==
    /\ canSend[e] = TRUE /\ canSend'[e] = FALSE
    /\ \E m \in Messages(e) : accepted'[e] = Append(accepted[e], m)
    /\ delivered'[Peer(e)] = delivered[Peer(e)]

StreamDeliver(e) ==
    LET r == Peer(e) IN
    /\ Len(delivered[r]) < Len(accepted[e])
    /\ delivered'[r] = Append(delivered[r], accepted[e][Len(delivered[r]) + 1])
    /\ canSend'[e] = canSend[e] /\ accepted'[e] = accepted[e]

StreamConfirm(e) ==
    /\ canSend[e] = FALSE /\ canSend'[e] = TRUE
    /\ delivered[Peer(e)] = accepted[e]
    /\ accepted'[e] = accepted[e] /\ delivered'[Peer(e)] = delivered[Peer(e)]

StreamSame(e) ==
    /\ canSend'[e] = canSend[e]
    /\ accepted'[e] = accepted[e]
    /\ delivered'[Peer(e)] = delivered[Peer(e)]

StreamNext(e) ==
    StreamSend(e) \/ StreamDeliver(e) \/ StreamConfirm(e) \/ StreamSame(e)

LEMMA SendRefines ==
    ASSUME TypeOK, NEW e \in Ends, SendMessage(e)
    PROVE  StreamSend(e)
<1> DEFINE k == Len(accepted[e]) + 1
<1>1. PICK n \in 1..MaxParts[e] :
         accepted' = [accepted EXCEPT ![e] = Append(@, Text(k, n))]
  BY DEF SendMessage
<1>2. k \in 1..MaxMessages[e]
  <2>1. Len(accepted[e]) \in Nat /\ MaxMessages[e] \in Nat
    BY BoundAssumption DEF TypeOK
  <2>2. Len(accepted[e]) < MaxMessages[e]
    BY DEF SendMessage
  <2> QED BY <2>1, <2>2
<1> HIDE DEF k
<1>3. Text(k, n) \in Messages(e)
  BY <1>1, <1>2 DEF Messages
<1>4. accepted'[e] = Append(accepted[e], Text(k, n))
  BY <1>1 DEF TypeOK
<1>5. canSend[e] = TRUE /\ canSend'[e] = FALSE /\ delivered' = delivered
  BY DEF SendMessage, TypeOK, recvars
<1> QED BY <1>3, <1>4, <1>5 DEF StreamSend

LEMMA AckRefines ==
    ASSUME TypeOK, NEW e \in Ends, NEW r \in Ends, r = Peer(e),
           DirectionInv(e, r), NEW p \in packets[r], ReadAck(e, p),
           receiveSequence[r] = sendSequence[e]
    PROVE  StreamConfirm(e) \/ StreamSame(e)
<1>1. accepted' = accepted /\ delivered' = delivered
  BY DEF ReadAck, recvars, history
<1>2. CASE Len(sendMessage[e]) > 1
  <2>1. canSend' = canSend
    BY <1>2 DEF ReadAck
  <2> QED BY <1>1, <2>1 DEF StreamSame
<1>3. CASE ~(Len(sendMessage[e]) > 1)
  <2>1. canSend'[e] = TRUE
    BY <1>3 DEF ReadAck, TypeOK
  <2>2. CASE canSend[e]
    <3>1. canSend[e] = TRUE
      BY <2>2, DirectionFacts
    <3> QED BY <1>1, <2>1, <3>1 DEF StreamSame
  <2>3. CASE ~canSend[e]
    <3> DEFINE a == ackSequence[e]
               n == Len(sendMessage[e])
    <3>1. a \in Nat /\ n \in Nat /\ sendSequence[e] \in Nat
      BY DirectionFacts
    <3>2. p.sequence = a /\ p.sequence = sendSequence[e] - 1
      BY DEF ReadAck, AckCurrent
    <3>3. n = 1
      <4>1. sendMessage[e] # <<>> /\ sendMessage[e] \in Seq(Fragment)
        BY <2>3, DirectionFacts DEF DirectionInv, SenderInv
      <4>2. n # 0
        BY <4>1
      <4>3. ~(n > 1)
        BY <1>3
      <4> HIDE DEF n
      <4> QED BY <3>1, <4>2, <4>3
    <3>4. receiveSequence[r] = a + 1
      BY <3>1, <3>2
    <3>5. Len(numbered[e]) = a + n
      BY DEF DirectionInv, SenderInv
    <3> HIDE DEF a, n
    <3>6. receiveSequence[r] = Len(numbered[e])
      BY <3>3, <3>4, <3>5
    <3>7. delivered[r] = accepted[e]
      BY <3>6 DEF DirectionInv, ReceiverInv
    <3>8. canSend[e] = FALSE
      BY <2>3, DirectionFacts
    <3> QED BY <1>1, <2>1, <3>7, <3>8 DEF StreamConfirm
  <2> QED BY <2>2, <2>3
<1> QED BY <1>2, <1>3

(* The sender's steps.                                                     *)
LEMMA SenderRefines ==
    ASSUME TypeOK, NEW e \in Ends, NEW r \in Ends, r = Peer(e),
           DirectionInv(e, r), Step(e)
    PROVE  StreamNext(e)
<1> USE DEF sendvars, recvars, unrelvars, history
<1>0. delivered'[r] = delivered[r] /\ ReceiverSame(r) /\ NoNew(r, "ack")
  <2>1. ReceiverSame(r) /\ packets'[r] \subseteq packets[r]
    BY OtherEnd
  <2> QED BY <2>1 DEF ReceiverSame, NoNew
<1>s. ASSUME canSend' = canSend, accepted' = accepted PROVE StreamNext(e)
  BY <1>0, <1>s DEF StreamNext, StreamSame
<1>1. CASE SendMessage(e)
  BY <1>1, SendRefines DEF StreamNext
<1>2. CASE SendUnreliableMessage(e)
  BY <1>2, <1>s DEF SendUnreliableMessage
<1>3. CASE CanSendMessage(e)
  BY <1>3, <1>s DEF CanSendMessage
<1>4. CASE GetMessage(e)
  BY <1>4, <1>s DEF GetMessage
<1>5. CASE GetMessageResend(e)
  BY <1>5, <1>s DEF GetMessageResend
<1>6. CASE ReadNothing(e)
  BY <1>6, <1>s DEF ReadNothing
<1>7. CASE ReadFails(e)
  BY <1>7, <1>s DEF ReadFails
<1>8. ASSUME NEW p \in packets[r], Read(e, p) PROVE StreamNext(e)
  <2>1. CASE ReadUnreliable(e, p)
    BY <1>s, <2>1 DEF ReadUnreliable
  <2>2. CASE ReadAck(e, p)
    <3>1. NoNew(e, "data")
      <4>1. Network(e, {p}, {})
        BY <2>2 DEF ReadAck
      <4>2. packets'[e] \subseteq packets[e] \cup {}
        BY <1>8, <4>1, PacketsOKDef, NetworkFacts DEF PacketsOK
      <4> QED BY <4>2 DEF NoNew
    <3>2. receiveSequence[r] = sendSequence[e]
      BY <1>0, <1>8, <2>2, <3>1, Acknowledged
    <3> QED BY <1>8, <2>2, <3>2, AckRefines DEF StreamNext
  <2>3. CASE ReadOldAck(e, p)
    BY <1>s, <2>3 DEF ReadOldAck
  <2>4. CASE ReadPart(e, p)
    BY <1>s, <2>4 DEF ReadPart
  <2>5. CASE ReadLast(e, p)
    BY <1>s, <2>5 DEF ReadLast
  <2>6. CASE ReadRepeat(e, p)
    BY <1>s, <2>6 DEF ReadRepeat
  <2> QED BY <1>8, <2>1, <2>2, <2>3, <2>4, <2>5, <2>6 DEF Read
<1> QED BY <1>1, <1>2, <1>3, <1>4, <1>5, <1>6, <1>7, <1>8 DEF Step

(* The receiver's steps.                                                   *)
LEMMA ReceiverRefines ==
    ASSUME TypeOK, NEW r \in Ends, NEW e \in Ends, e = Peer(r),
           DirectionInv(e, r), DirectionInv(r, e), Step(r)
    PROVE  StreamNext(e)
<1> USE DEF sendvars, recvars, unrelvars, history
<1>0. /\ Peer(e) = r /\ SenderSame(e) /\ call'[e] = call[e]
      /\ NoNew(e, "data")
  <2>1. /\ SenderSame(e) /\ call'[e] = call[e]
        /\ packets'[e] \subseteq packets[e]
    BY OtherEnd
  <2> QED BY <2>1, EndFacts DEF NoNew
<1>s. ASSUME delivered' = delivered PROVE StreamNext(e)
  BY <1>0, <1>s DEF StreamNext, StreamSame, SenderSame
<1>1. CASE SendMessage(r)
  BY <1>1, <1>s DEF SendMessage
<1>2. CASE SendUnreliableMessage(r)
  BY <1>2, <1>s DEF SendUnreliableMessage
<1>3. CASE CanSendMessage(r)
  BY <1>3, <1>s DEF CanSendMessage
<1>4. CASE GetMessage(r)
  BY <1>4, <1>s DEF GetMessage
<1>5. CASE GetMessageResend(r)
  BY <1>5, <1>s DEF GetMessageResend
<1>6. CASE ReadNothing(r)
  BY <1>6, <1>s DEF ReadNothing
<1>7. CASE ReadFails(r)
  BY <1>7, <1>s DEF ReadFails
<1>8. ASSUME NEW p \in packets[e], Read(r, p) PROVE StreamNext(e)
  <2>1. CASE ReadUnreliable(r, p)
    BY <1>s, <2>1 DEF ReadUnreliable
  <2>2. CASE ReadAck(r, p)
    BY <1>s, <2>2 DEF ReadAck
  <2>3. CASE ReadOldAck(r, p)
    BY <1>s, <2>3 DEF ReadOldAck
  <2>4. CASE ReadPart(r, p)
    BY <1>s, <2>4 DEF ReadPart
  <2>5. CASE ReadLast(r, p)
    <3>1. /\ Len(delivered[r]) < Len(accepted[e])
          /\ delivered'[r] =
                 Append(delivered[r], accepted[e][Len(delivered[r]) + 1])
      BY <1>0, <1>8, <2>5, LastWritten, LastArrives DEF DirectionInv
    <3> QED BY <1>0, <3>1 DEF StreamNext, StreamDeliver, SenderSame
  <2>6. CASE ReadRepeat(r, p)
    BY <1>s, <2>6 DEF ReadRepeat
  <2> QED BY <1>8, <2>1, <2>2, <2>3, <2>4, <2>5, <2>6 DEF Read
<1> QED BY <1>1, <1>2, <1>3, <1>4, <1>5, <1>6, <1>7, <1>8 DEF Step

LEMMA StepRefines ==
    ASSUME TypeOK, StreamInv, [Next]_vars, NEW e \in Ends
    PROVE  StreamNext(e)
<1>1. \A d \in Ends : DirectionInv(d, Peer(d))
  BY DEF StreamInv, DirectionInv
<1>2. CASE Next
  <2>1. PICK x \in Ends : Step(x)
    BY <1>2 DEF Next, Step
  <2> DEFINE y == Peer(x)
  <2>2. y \in Ends /\ Peer(y) = x /\ y # x /\ (e = x \/ e = y)
    BY EndFacts DEF Ends, Peer
  <2>3. DirectionInv(x, y) /\ DirectionInv(y, x)
    BY <1>1, <2>2
  <2>4. StreamNext(x)
    BY <2>1, <2>2, <2>3, SenderRefines
  <2>5. StreamNext(y)
    BY <2>1, <2>2, <2>3, ReceiverRefines
  <2> HIDE DEF y
  <2> QED BY <2>2, <2>4, <2>5
<1>3. CASE UNCHANGED vars
  BY <1>3 DEF vars, sendvars, recvars, history, StreamNext, StreamSame
<1> QED BY <1>2, <1>3

(* SendMessage, GetMessage: what the client sends, the server receives     *)
(* exactly once, whole and in order, and the client may send again only    *)
(* when it did.  (That it does is checked, ImplementsToServer.)            *)
THEOREM RefinesToServer == Spec => ToServer!Spec
<1>1. Init => ToServer!Init
  BY DEF Init, ToServer!Init, Ends
<1>2. ASSUME TypeOK, StreamInv, [Next]_vars
      PROVE  [ToServer!Next]_(ToServer!vars)
  <2>1. StreamNext(Client) /\ Peer(Client) = Server
    BY <1>2, StepRefines DEF Ends, Peer
  <2> QED BY <2>1 DEF StreamNext, StreamSend, StreamDeliver, StreamConfirm,
                      StreamSame, ToServer!Next, ToServer!Send,
                      ToServer!Deliver, ToServer!Confirm, ToServer!vars
<1> QED BY <1>1, <1>2, TypeCorrect, StreamCorrect, PTL DEF Spec, ToServer!Spec

(* The same from the server to the client (ImplementsToClient).            *)
THEOREM RefinesToClient == Spec => ToClient!Spec
<1>1. Init => ToClient!Init
  BY DEF Init, ToClient!Init, Ends
<1>2. ASSUME TypeOK, StreamInv, [Next]_vars
      PROVE  [ToClient!Next]_(ToClient!vars)
  <2>1. StreamNext(Server) /\ Peer(Server) = Client
    BY <1>2, StepRefines, EndsAssumption DEF Ends, Peer
  <2> QED BY <2>1 DEF StreamNext, StreamSend, StreamDeliver, StreamConfirm,
                      StreamSame, ToClient!Next, ToClient!Send,
                      ToClient!Deliver, ToClient!Confirm, ToClient!vars
<1> QED BY <1>1, <1>2, TypeCorrect, StreamCorrect, PTL DEF Spec, ToClient!Spec

=============================================================================
