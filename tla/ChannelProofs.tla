--------------------------- MODULE ChannelProofs ---------------------------
(***************************************************************************)
(* Proofs about the channel of module Netchan and its use by the frame     *)
(* loops of module QWChannel, for every value of their constants.          *)
(* ChannelInv is inductive: TypeOK, BuffersOK, PacketsOK and RecordsOK do  *)
(* not need the rest of it, and are treated first.  The frame loops use    *)
(* the channel as Netchan allows, so what holds of any use holds of        *)
(* theirs; that the server's replies match the client's packets comes      *)
(* last.                                                                   *)
(***************************************************************************)
EXTENDS QWChannel, SequenceTheorems, TLAPS

BaseInv == TypeOK /\ BuffersOK /\ PacketsOK /\ RecordsOK

LEMMA Ends2 == \A e \in Ends : /\ Peer(e) \in Ends
                               /\ Peer(e) # e
                               /\ Peer(Peer(e)) = e
                               /\ \A d \in Ends : d = e \/ d = Peer(e)
BY EndsAssumption DEF Ends, Peer

LEMMA MsgCapNat == MsgCap \in Nat /\ MsgCap > 0
BY BoundAssumption

LEMMA FlipBit == \A b \in Bit : Flip(b) \in Bit /\ Flip(b) # b
BY DEF Bit, Flip

(* The items of a chunk form a sequence of the chunk's size. *)
LEMMA ItemsType == ASSUME NEW c \in Chunk
                   PROVE  Items(c) \in Seq(Nat) /\ Len(Items(c)) = Size(c)
BY DEF Items, Size, Chunk

(* A sequence made of the elements of u followed by those of w. *)
LEMMA JoinEqual ==
    ASSUME NEW u \in Seq(Nat), NEW w \in Seq(Nat), NEW v \in Seq(Nat),
           Len(v) = Len(u) + Len(w),
           \A i \in 1..Len(u) : v[i] = u[i],
           \A i \in 1..Len(w) : v[Len(u) + i] = w[i]
    PROVE  u \o w = v
<1>1. /\ u \o w \in Seq(Nat)
      /\ Len(u \o w) = Len(u) + Len(w)
      /\ \A i \in 1 .. Len(u) + Len(w) :
            (u \o w)[i] = IF i <= Len(u) THEN u[i] ELSE w[i - Len(u)]
  BY ConcatProperties
<1>2. ASSUME NEW i \in 1 .. Len(u) + Len(w) PROVE (u \o w)[i] = v[i]
  <2>1. CASE i <= Len(u)
    BY <1>1, <2>1
  <2>2. CASE ~(i <= Len(u))
    <3>1. /\ i - Len(u) \in 1..Len(w)
          /\ Len(u) + (i - Len(u)) = i
      BY <2>2
    <3>2. (u \o w)[i] = w[i - Len(u)]
      BY <1>1, <2>2
    <3> QED BY <3>1, <3>2
  <2> QED BY <2>1, <2>2
<1> QED BY <1>1, <1>2, SeqEqual

(* Chunks that meet join. *)
LEMMA ItemsJoin ==
    ASSUME NEW c \in Chunk
    PROVE  Items([from |-> 0, to |-> c.from]) \o Items(c)
             = Items([from |-> 0, to |-> c.to])
<1> DEFINE a == [from |-> 0, to |-> c.from]
           b == [from |-> 0, to |-> c.to]
<1>1. /\ a \in Chunk /\ b \in Chunk
      /\ Size(a) = c.from /\ Size(b) = c.to
      /\ c.from \in Nat /\ c.to \in Nat /\ c.from <= c.to
      /\ Size(c) = c.to - c.from
  BY DEF Chunk, Size
<1>2. /\ Items(a) \in Seq(Nat) /\ Len(Items(a)) = c.from
      /\ Items(b) \in Seq(Nat) /\ Len(Items(b)) = c.to
      /\ Items(c) \in Seq(Nat) /\ Len(Items(c)) = c.to - c.from
  <2> HIDE DEF a, b
  <2> QED BY <1>1, ItemsType
<1>3. /\ \A i \in 1..c.from : Items(a)[i] = i
      /\ \A i \in 1..c.to : Items(b)[i] = i
      /\ \A i \in 1..(c.to - c.from) : Items(c)[i] = c.from + i
  BY <1>1 DEF Items, Size
<1> HIDE DEF a, b
<1>4. \A i \in 1..Len(Items(c)) : Items(b)[Len(Items(a)) + i] = Items(c)[i]
  <2> SUFFICES ASSUME NEW i \in 1..(c.to - c.from)
               PROVE  Items(b)[c.from + i] = Items(c)[i]
    BY <1>2
  <2>1. c.from + i \in 1..c.to
    BY <1>1
  <2> QED BY <1>3, <2>1
<1>5. /\ \A i \in 1..Len(Items(a)) : Items(b)[i] = Items(a)[i]
      /\ Len(Items(b)) = Len(Items(a)) + Len(Items(c))
  BY <1>1, <1>2, <1>3
<1>6. Items(a) \o Items(c) = Items(b)
  BY <1>2, <1>4, <1>5, JoinEqual
<1> QED BY <1>6 DEF a, b

(* The channel as Netchan_Setup leaves it satisfies the whole invariant. *)
THEOREM InitOK == Init => ChannelInv
<1> SUFFICES ASSUME Init PROVE ChannelInv
  OBVIOUS
<1>1. TypeOK
  BY VoidAssumption DEF Init, TypeOK, Bit, Chunk, NoItems
<1>2. BuffersOK
  BY DEF Init, BuffersOK, NoItems, Size
<1>3. PacketsOK
  <2>1. \A e \in Ends : VoidAck > 0
    BY VoidAssumption, BoundAssumption DEF Ends
  <2> QED BY <2>1 DEF Init, PacketsOK
<1>4. RecordsOK
  BY DEF Init, RecordsOK
<1>5. ASSUME NEW e \in Ends PROVE DirectionOK(e, Peer(e))
  BY Ends2 DEF Init, DirectionOK, ReceiverOK, InFlightOK, HeadersOK, Got, Items,
       NoItems, Size
<1> QED BY <1>1, <1>2, <1>3, <1>4, <1>5 DEF ChannelInv

----------------------------------------------------------------------------
(* The steps of Next, with what they have in common: only a transmission   *)
(* adds a packet, only an acceptance changes what was received, and        *)
(* outgoing_sequence never decreases.                                      *)

(* Every field of the channel keeps its type. *)
THEOREM TypeStep == TypeOK /\ [Next]_vars => TypeOK'
<1> SUFFICES ASSUME TypeOK, [Next]_vars PROVE TypeOK'
  OBVIOUS
<1> USE DEF TypeOK, Bit, sendvars, bufvars, recvars, relvars
<1>1. ASSUME NEW e \in Ends, Write(e) PROVE TypeOK'
  BY <1>1 DEF Write, Append1, OnlyNew, Chunk
<1>1a. ASSUME NEW e \in Ends, Clear(e) PROVE TypeOK'
  BY <1>1a DEF Clear, Emptied, Chunk
<1>2. ASSUME NEW e \in Ends, NEW rel \in BOOLEAN, NEW c \in Chunk,
             SendPacket(e, rel, c)
      PROVE  /\ packets' \in [Ends -> SUBSET Packet]
             /\ outgoing_sequence' \in [Ends -> Nat]
             /\ last_reliable_sequence' \in [Ends -> Nat]
  <2>1. AckField(e) \in Nat /\ AckBit(e) \in Bit
    BY VoidAssumption DEF AckField, AckBit
  <2>2. Len(received[e]) \in Nat
    OBVIOUS
  <2> DEFINE p == [sequence |-> outgoing_sequence[e], reliable |-> rel,
                   sequence_ack |-> AckField(e), reliable_ack |-> AckBit(e),
                   data |-> c, got |-> Len(received[e])]
  <2>3. p \in Packet
    BY <2>1, <2>2 DEF Packet
  <2>4. packets' = [packets EXCEPT ![e] = @ \cup {p}]
    BY <1>2 DEF SendPacket
  <2>5. packets' \in [Ends -> SUBSET Packet]
    BY <2>3, <2>4
  <2> QED BY <1>2, <2>5 DEF SendPacket, LastReliable
<1>3. ASSUME NEW e \in Ends, TransmitNew(e) PROVE TypeOK'
  <2>1. message[e] \in Chunk /\ Size(message[e]) \in Nat
    BY DEF Chunk, Size
  <2>2. SendPacket(e, TRUE, message[e])
    BY <1>3 DEF TransmitNew
  <2>3. message' \in [Ends -> Chunk]
    BY <1>3 DEF TransmitNew, Emptied, Chunk
  <2>4. /\ packets' \in [Ends -> SUBSET Packet]
        /\ outgoing_sequence' \in [Ends -> Nat]
        /\ last_reliable_sequence' \in [Ends -> Nat]
    BY <1>2, <2>1, <2>2
  <2>5. reliable_sequence' \in [Ends -> Bit]
    BY <1>3, FlipBit DEF TransmitNew
  <2> QED BY <1>3, <2>1, <2>3, <2>4, <2>5 DEF TransmitNew
<1>4. ASSUME NEW e \in Ends, TransmitAgain(e) PROVE TypeOK'
  <2>1. Outstanding(e) \in Chunk
    BY DEF Outstanding, NoItems, Chunk
  <2> QED BY <1>2, <1>4, <2>1 DEF TransmitAgain
<1>5. ASSUME NEW e \in Ends, TransmitPlain(e) PROVE TypeOK'
  <2>1. NoItems \in Chunk
    BY DEF NoItems, Chunk
  <2> QED BY <1>2, <1>5, <2>1 DEF TransmitPlain
<1>6. ASSUME NEW e \in Ends, SkipPacket(e) PROVE TypeOK'
  BY <1>6 DEF SkipPacket
<1>7. ASSUME NEW e \in Ends, NEW p \in packets[Peer(e)], Accept(e, p),
             outgoing_sequence' \in [Ends -> Nat]
      PROVE  TypeOK'
  <2>1. /\ p \in Packet
        /\ Items(p.data) \in Seq(Nat)
    BY Ends2, ItemsType DEF Packet
  <2>2. received' \in [Ends -> Seq(Nat)]
    BY <1>7, <2>1 DEF Accept
  <2>p. /\ p.sequence \in Nat /\ p.sequence_ack \in Nat
        /\ p.reliable_ack \in {0, 1}
        /\ Flip(incoming_reliable_sequence[e]) \in {0, 1}
    BY <2>1, FlipBit DEF Packet
  <2>3a. incoming_sequence' \in [Ends -> Nat \cup {-1}]
    BY <1>7, <2>p DEF Accept
  <2>3b. incoming_acknowledged' \in [Ends -> Nat]
    BY <1>7, <2>p DEF Accept
  <2>3c. incoming_reliable_acknowledged' \in [Ends -> Bit]
    BY <1>7, <2>p DEF Accept
  <2>3d. incoming_reliable_sequence' \in [Ends -> Bit]
    BY <1>7, <2>p DEF Accept
  <2>4. reliable_length' \in [Ends -> Nat] /\ voided' \in [Ends -> BOOLEAN]
    BY <1>7 DEF Accept
  <2> QED BY <1>7, <2>2, <2>3a, <2>3b, <2>3c, <2>3d, <2>4 DEF Accept
<1>8. ASSUME NEW e \in Ends, Process(e) PROVE TypeOK'
  BY <1>7, <1>8 DEF Process
<1>9. ASSUME NEW e \in Ends, ProcessAndMatch(e) PROVE TypeOK'
  <2>1. PICK p \in packets[Peer(e)] :
           /\ Accept(e, p)
           /\ outgoing_sequence' =
                 [outgoing_sequence EXCEPT ![e] = Larger(p.sequence, @)]
    BY <1>9 DEF ProcessAndMatch
  <2>2. p.sequence \in Nat
    BY Ends2 DEF Packet
  <2>3. outgoing_sequence' \in [Ends -> Nat]
    BY <2>1, <2>2 DEF Larger
  <2> QED BY <1>7, <2>1, <2>3
<1>10. CASE UNCHANGED vars
  BY <1>10 DEF vars
<1> QED BY <1>1, <1>1a, <1>3, <1>4, <1>5, <1>6, <1>8, <1>9, <1>10
        DEF Next, Transmit, Ends

(* The channel is always well typed. *)
THEOREM TypeCorrect == Spec => []TypeOK
<1>1. Init => TypeOK
  BY InitOK DEF ChannelInv
<1> QED BY <1>1, TypeStep, PTL DEF Spec
----------------------------------------------------------------------------
(* BuffersOK, PacketsOK and RecordsOK. *)

LEMMA BaseStutter ==
    BuffersOK /\ PacketsOK /\ RecordsOK /\ UNCHANGED vars
        => (BuffersOK /\ PacketsOK /\ RecordsOK)'
BY DEF vars, sendvars, bufvars, recvars, relvars, BuffersOK, PacketsOK,
       RecordsOK, Got

LEMMA BaseWrite ==
    ASSUME TypeOK, BuffersOK, PacketsOK, RecordsOK, NEW e \in Ends, Write(e)
    PROVE  (BuffersOK /\ PacketsOK /\ RecordsOK)'
<1>1. BuffersOK'
  <2> SUFFICES ASSUME NEW d \in Ends
               PROVE  overflowed'[d] \/ message'[d].from = reliable_buf'[d].to
    BY DEF Write, BuffersOK, relvars
  <2>1. CASE d = e
    <3>1. CASE Size(message[e]) < MsgCap
      <4>1. message'[e].from = message[e].from
        BY <3>1 DEF Write, TypeOK, Append1, Chunk
      <4>2. overflowed[e] => overflowed'[e]
        BY DEF Write, TypeOK
      <4>3. reliable_buf' = reliable_buf
        BY DEF Write, relvars
      <4> QED BY <2>1, <4>1, <4>2, <4>3 DEF BuffersOK
    <3>2. CASE ~(Size(message[e]) < MsgCap)
      <4>0. message[e] \in Chunk
        BY DEF TypeOK
      <4>1. Size(message[e]) >= MsgCap
        BY <3>2, <4>0, MsgCapNat DEF Size, Chunk
      <4>2. overflowed'[e]
        BY <4>1 DEF Write, TypeOK
      <4> QED BY <2>1, <4>2
    <3> QED BY <3>1, <3>2
  <2>2. CASE d # e
    BY <2>2 DEF Write, BuffersOK, TypeOK, relvars
  <2> QED BY <2>1, <2>2
<1>2. PacketsOK' /\ RecordsOK'
  BY DEF Write, PacketsOK, RecordsOK, sendvars, recvars, Got
<1> QED BY <1>1, <1>2

LEMMA BaseClear ==
    ASSUME TypeOK, BuffersOK, PacketsOK, RecordsOK, NEW e \in Ends, Clear(e)
    PROVE  (BuffersOK /\ PacketsOK /\ RecordsOK)'
<1>1. BuffersOK'
  BY DEF Clear, BuffersOK, TypeOK, relvars, Emptied
<1>2. PacketsOK' /\ RecordsOK'
  BY DEF Clear, PacketsOK, RecordsOK, sendvars, recvars, Got
<1> QED BY <1>1, <1>2

(* Handing a packet to the network. *)
LEMMA BaseSend ==
    ASSUME TypeOK, PacketsOK, RecordsOK,
           NEW e \in Ends, NEW rel \in BOOLEAN, NEW c \in Chunk,
           SendPacket(e, rel, c), UNCHANGED recvars
    PROVE  PacketsOK' /\ RecordsOK'
<1> DEFINE p == [sequence |-> outgoing_sequence[e], reliable |-> rel,
                 sequence_ack |-> AckField(e), reliable_ack |-> AckBit(e),
                 data |-> c, got |-> Len(received[e])]
<1>1. /\ packets'[e] = packets[e] \cup {p}
      /\ \A d \in Ends : d # e => packets'[d] = packets[d]
      /\ outgoing_sequence'[e] = outgoing_sequence[e] + 1
      /\ \A d \in Ends : d # e => outgoing_sequence'[d] = outgoing_sequence[d]
      /\ last_reliable_sequence'[e] =
            IF rel THEN outgoing_sequence[e] + 1 ELSE last_reliable_sequence[e]
      /\ \A d \in Ends : d # e =>
            last_reliable_sequence'[d] = last_reliable_sequence[d]
      /\ outgoing_sequence[e] < MaxSeq[e]
      /\ \A d \in Ends : Got(d)' = Got(d)
      /\ incoming_sequence' = incoming_sequence
  BY DEF SendPacket, TypeOK, LastReliable, recvars, Got
<1>2. /\ outgoing_sequence[e] \in Nat /\ last_reliable_sequence[e] \in Nat
      /\ incoming_sequence[e] \in Nat \cup {-1}
      /\ Got(e) \in Nat
      /\ VoidAck \in Nat /\ MaxSeq[e] \in Nat /\ MaxSeq[e] < VoidAck
      /\ packets[e] \subseteq Packet
  BY VoidAssumption, BoundAssumption DEF TypeOK, Got
<1>3. /\ p.sequence = outgoing_sequence[e] /\ p.reliable = rel
      /\ p.got = Got(e)
      /\ p.sequence_ack # VoidAck => p.sequence_ack = incoming_sequence[e]
  BY DEF Got, AckField
<1> HIDE DEF p
<1>4. ASSUME NEW d \in Ends
      PROVE  /\ last_reliable_sequence'[d] <= outgoing_sequence'[d]
             /\ outgoing_sequence'[d] < VoidAck
             /\ \A q \in packets'[d] :
                   /\ q.sequence < outgoing_sequence'[d]
                   /\ q.reliable => q.sequence < last_reliable_sequence'[d]
                   /\ q.sequence_ack # VoidAck =>
                         q.sequence_ack <= incoming_sequence'[d]
                   /\ q.got <= Got(d)'
             /\ \A q1, q2 \in packets'[d] :
                   q1.sequence <= q2.sequence => q1.got <= q2.got
  <2>1. CASE d # e
    BY <1>1, <2>1 DEF PacketsOK
  <2>2. CASE d = e
    <3>1. /\ last_reliable_sequence'[e] <= outgoing_sequence'[e]
          /\ last_reliable_sequence[e] <= last_reliable_sequence'[e]
          /\ outgoing_sequence'[e] < VoidAck
      BY <1>1, <1>2 DEF PacketsOK
    <3>2. ASSUME NEW q \in packets'[e]
          PROVE  /\ q.sequence < outgoing_sequence'[e]
                 /\ q.reliable => q.sequence < last_reliable_sequence'[e]
                 /\ q.sequence_ack # VoidAck =>
                       q.sequence_ack <= incoming_sequence[e]
                 /\ q.got <= Got(e)
      <4>1. CASE q \in packets[e]
        <5>1. q.sequence \in Nat
          BY <1>2, <4>1 DEF Packet
        <5> QED BY <1>1, <1>2, <3>1, <4>1, <5>1 DEF PacketsOK
      <4>2. CASE q = p
        BY <1>1, <1>2, <1>3, <4>2
      <4> QED BY <1>1, <4>1, <4>2
    <3>3. ASSUME NEW q1 \in packets'[e], NEW q2 \in packets'[e],
                 q1.sequence <= q2.sequence
          PROVE  q1.got <= q2.got
      <4>1. CASE q1 \in packets[e] /\ q2 \in packets[e]
        BY <3>3, <4>1 DEF PacketsOK
      <4>2. CASE q2 = p
        BY <1>2, <1>3, <3>2, <4>2
      <4>3. CASE q1 = p /\ q2 \in packets[e]
        <5>1. q2.sequence < outgoing_sequence[e] /\ q2.sequence \in Nat
          BY <1>2, <4>3 DEF PacketsOK, Packet
        <5> QED BY <1>2, <1>3, <3>3, <4>3, <5>1
      <4> QED BY <1>1, <4>1, <4>2, <4>3
    <3> QED BY <1>1, <2>2, <3>1, <3>2, <3>3
  <2> QED BY <2>1, <2>2
<1>5. PacketsOK'
  BY <1>4 DEF PacketsOK
<1>6. RecordsOK'
  <2>1. \A d \in Ends : packets[d] \subseteq packets'[d]
    BY <1>1
  <2> QED BY <2>1, Ends2 DEF RecordsOK, recvars
<1> QED BY <1>5, <1>6

LEMMA BaseTransmitNew ==
    ASSUME TypeOK, BuffersOK, PacketsOK, RecordsOK,
           NEW e \in Ends, TransmitNew(e)
    PROVE  (BuffersOK /\ PacketsOK /\ RecordsOK)'
<1>1. message[e] \in Chunk /\ SendPacket(e, TRUE, message[e]) /\ UNCHANGED recvars
  BY DEF TransmitNew, TypeOK
<1>2. PacketsOK' /\ RecordsOK'
  BY <1>1, BaseSend
<1>3. ASSUME NEW d \in Ends
      PROVE  /\ reliable_buf'[d].from = reliable_buf'[d].to
                   => reliable_buf'[d] = NoItems
             /\ reliable_length'[d] \in {0, Size(reliable_buf'[d])}
             /\ overflowed'[d] \/ message'[d].from = reliable_buf'[d].to
  <2>1. CASE d # e
    BY <2>1 DEF TransmitNew, BuffersOK, TypeOK
  <2>2. CASE d = e
    <3>1. /\ reliable_buf'[e] = message[e]
          /\ reliable_length'[e] = Size(message[e])
          /\ message'[e].from = message[e].to
      BY DEF TransmitNew, TypeOK, Emptied
    <3>2. message[e].from # message[e].to
      BY DEF TransmitNew, CopyDue, Size, TypeOK, Chunk
    <3> QED BY <2>2, <3>1, <3>2
  <2> QED BY <2>1, <2>2
<1> QED BY <1>2, <1>3 DEF BuffersOK

LEMMA BaseTransmitOld ==
    ASSUME TypeOK, BuffersOK, PacketsOK, RecordsOK,
           NEW e \in Ends, TransmitAgain(e) \/ TransmitPlain(e)
    PROVE  (BuffersOK /\ PacketsOK /\ RecordsOK)'
<1>1. Outstanding(e) \in Chunk /\ NoItems \in Chunk
  BY DEF Outstanding, NoItems, Chunk, TypeOK
<1>2. PacketsOK' /\ RecordsOK'
  BY <1>1, BaseSend DEF TransmitAgain, TransmitPlain
<1>3. BuffersOK'
  BY DEF TransmitAgain, TransmitPlain, BuffersOK, bufvars, relvars
<1> QED BY <1>2, <1>3

(* Using up sequence numbers without a packet. *)
LEMMA BaseSkip ==
    ASSUME TypeOK, BuffersOK, PacketsOK, RecordsOK,
           NEW e \in Ends, SkipPacket(e)
    PROVE  (BuffersOK /\ PacketsOK /\ RecordsOK)'
<1>1. BuffersOK' /\ RecordsOK'
  BY DEF SkipPacket, BuffersOK, RecordsOK, bufvars, relvars, recvars
<1>2. /\ outgoing_sequence[e] \in Nat /\ MaxSeq[e] \in Nat
      /\ VoidAck \in Nat /\ MaxSeq[e] < VoidAck
  BY VoidAssumption, BoundAssumption DEF TypeOK
<1>3. /\ outgoing_sequence'[e] = outgoing_sequence[e] + 1
      /\ outgoing_sequence[e] < MaxSeq[e]
      /\ \A d \in Ends : d # e => outgoing_sequence'[d] = outgoing_sequence[d]
      /\ packets' = packets /\ last_reliable_sequence' = last_reliable_sequence
      /\ incoming_sequence' = incoming_sequence
      /\ \A d \in Ends : Got(d)' = Got(d)
  BY DEF SkipPacket, TypeOK, recvars, Got
<1>4. last_reliable_sequence \in [Ends -> Nat] /\ packets \in [Ends -> SUBSET Packet]
  BY DEF TypeOK
<1>5. PacketsOK'
  BY <1>2, <1>3, <1>4 DEF PacketsOK, Packet
<1> QED BY <1>1, <1>5

(* What Accept does to the two ends. *)
LEMMA AcceptFacts ==
    ASSUME TypeOK, NEW e \in Ends, NEW p \in packets[Peer(e)], Accept(e, p)
    PROVE  /\ p \in Packet
           /\ p.sequence > incoming_sequence[e]
           /\ incoming_sequence'[e] = p.sequence
           /\ incoming_acknowledged'[e] = p.sequence_ack
           /\ incoming_reliable_acknowledged'[e] = p.reliable_ack
           /\ Got(e)' = Got(e) + IF p.reliable THEN Size(p.data) ELSE 0
           /\ Got(e) \in Nat /\ Size(p.data) \in Nat
           /\ \A d \in Ends : d # e =>
                 /\ incoming_sequence'[d] = incoming_sequence[d]
                 /\ incoming_acknowledged'[d] = incoming_acknowledged[d]
                 /\ incoming_reliable_acknowledged'[d]
                      = incoming_reliable_acknowledged[d]
                 /\ Got(d)' = Got(d)
<1>1. p \in Packet
  BY Ends2 DEF TypeOK
<1>2. p.sequence \in Nat /\ p.data \in Chunk /\ Size(p.data) \in Nat
  BY <1>1 DEF Packet, Chunk, Size
<1>3. /\ Items(p.data) \in Seq(Nat) /\ Len(Items(p.data)) = Size(p.data)
      /\ received[e] \in Seq(Nat)
  BY <1>2, ItemsType DEF TypeOK
<1>4. Len(received[e] \o Items(p.data)) = Got(e) + Size(p.data)
  <2> DEFINE items == Items(p.data)
             had == received[e]
  <2>1. items \in Seq(Nat) /\ had \in Seq(Nat)
    BY <1>3
  <2> HIDE DEF items, had
  <2>2. Len(had \o items) = Len(had) + Len(items)
    BY <2>1, ConcatProperties
  <2> QED BY <1>3, <2>2 DEF Got, items, had
<1>5. Got(e)' = Got(e) + IF p.reliable THEN Size(p.data) ELSE 0
  <2>1. CASE p.reliable
    BY <1>4, <2>1 DEF Accept, TypeOK, Got
  <2>2. CASE ~p.reliable
    <3>1. received'[e] = received[e] /\ Len(received[e]) \in Nat
      BY <2>2, <1>3 DEF Accept, TypeOK
    <3> QED BY <2>2, <3>1 DEF Got
  <2> QED BY <2>1, <2>2
<1>6. Got(e) \in Nat
  BY <1>3 DEF Got
<1>7. p.sequence > incoming_sequence[e]
  <2>1. incoming_sequence[e] \in Int /\ p.sequence >= incoming_sequence[e] + 1
    BY DEF Accept, Fresh, TypeOK
  <2> QED BY <1>2, <2>1
<1> QED BY <1>1, <1>2, <1>5, <1>6, <1>7 DEF Accept, TypeOK, Got

LEMMA BaseAccept ==
    ASSUME TypeOK, BuffersOK, PacketsOK, RecordsOK,
           NEW e \in Ends, NEW p \in packets[Peer(e)], Accept(e, p),
           \A d \in Ends : /\ outgoing_sequence'[d] \in Nat
                           /\ outgoing_sequence'[d] >= outgoing_sequence[d]
                           /\ outgoing_sequence'[d] < VoidAck
    PROVE  (BuffersOK /\ PacketsOK /\ RecordsOK)'
<1>1. BuffersOK'
  <2>1. reliable_buf' = reliable_buf /\ message' = message /\ overflowed' = overflowed
    BY DEF Accept, relvars, bufvars
  <2>2. \A d \in Ends : reliable_length'[d] \in {0, reliable_length[d]}
    BY DEF Accept, TypeOK
  <2> QED BY <2>1, <2>2 DEF BuffersOK
<1>2. packets' = packets /\ last_reliable_sequence' = last_reliable_sequence
  BY DEF Accept
<1>3. PacketsOK'
  <2> SUFFICES ASSUME NEW d \in Ends
      PROVE  /\ last_reliable_sequence[d] <= outgoing_sequence'[d]
             /\ \A q \in packets[d] :
                   /\ q.sequence < outgoing_sequence'[d]
                   /\ q.sequence_ack # VoidAck =>
                         q.sequence_ack <= incoming_sequence'[d]
                   /\ q.got <= Got(d)'
    BY <1>2 DEF PacketsOK
  <2>1. /\ last_reliable_sequence[d] \in Nat /\ outgoing_sequence[d] \in Nat
        /\ outgoing_sequence'[d] \in Nat
        /\ incoming_sequence[d] \in Nat \cup {-1}
        /\ packets[d] \subseteq Packet
    BY DEF TypeOK
  <2>2. incoming_sequence'[d] >= incoming_sequence[d] /\ incoming_sequence'[d] \in Int
    BY <2>1, AcceptFacts DEF Packet
  <2>3. Got(d)' >= Got(d) /\ Got(d) \in Nat /\ Got(d)' \in Nat
    <3>1. CASE d = e
      BY AcceptFacts, <3>1
    <3>2. CASE d # e
      <4>1. Got(d)' = Got(d)
        BY AcceptFacts, <3>2
      <4>2. Got(d) \in Nat
        BY DEF TypeOK, Got
      <4> QED BY <4>1, <4>2
    <3> QED BY <3>1, <3>2
  <2> QED BY <2>1, <2>2, <2>3 DEF PacketsOK, Packet
<1>4. RecordsOK'
  <2> SUFFICES ASSUME NEW d \in Ends
      PROVE  \/ incoming_sequence'[d] = -1 /\ incoming_acknowledged'[d] = 0
             \/ \E q \in packets[Peer(d)] :
                   /\ q.sequence = incoming_sequence'[d]
                   /\ q.sequence_ack = incoming_acknowledged'[d]
                   /\ q.reliable_ack = incoming_reliable_acknowledged'[d]
    BY <1>2 DEF RecordsOK
  <2>1. CASE d = e
    BY AcceptFacts, <2>1
  <2>2. CASE d # e
    BY AcceptFacts, <2>2 DEF RecordsOK
  <2> QED BY <2>1, <2>2
<1> QED BY <1>1, <1>3, <1>4

(* Both ways of accepting a packet move outgoing_sequence only forwards,   *)
(* and never to the number that means nothing was received.                *)
LEMMA ReadFacts ==
    ASSUME TypeOK, PacketsOK, NEW e \in Ends, Process(e) \/ ProcessAndMatch(e)
    PROVE  \E p \in packets[Peer(e)] :
              /\ Accept(e, p)
              /\ \A d \in Ends : /\ outgoing_sequence'[d] \in Nat
                                 /\ outgoing_sequence'[d] >= outgoing_sequence[d]
                                 /\ outgoing_sequence'[d] < VoidAck
<1>1. \A d \in Ends : /\ outgoing_sequence[d] \in Nat
                      /\ outgoing_sequence[d] < VoidAck
  BY DEF TypeOK, PacketsOK
<1>2. CASE Process(e)
  BY <1>1, <1>2 DEF Process
<1>3. CASE ProcessAndMatch(e)
  <2>1. PICK p \in packets[Peer(e)] :
           /\ Accept(e, p)
           /\ outgoing_sequence' =
                 [outgoing_sequence EXCEPT ![e] = Larger(p.sequence, @)]
    BY <1>3 DEF ProcessAndMatch
  <2>2. p.sequence \in Nat /\ p.sequence < outgoing_sequence[Peer(e)]
    BY Ends2 DEF TypeOK, PacketsOK, Packet
  <2>3. p.sequence < VoidAck
    BY <1>1, <2>2, Ends2, VoidAssumption
  <2>4. ASSUME NEW d \in Ends
        PROVE  /\ outgoing_sequence'[d] \in Nat
               /\ outgoing_sequence'[d] >= outgoing_sequence[d]
               /\ outgoing_sequence'[d] < VoidAck
    BY <1>1, <2>1, <2>2, <2>3 DEF Larger, TypeOK
  <2> QED BY <2>1, <2>4
<1> QED BY <1>2, <1>3

LEMMA BaseStep ==
    ASSUME TypeOK, BuffersOK, PacketsOK, RecordsOK, [Next]_vars
    PROVE  (TypeOK /\ BuffersOK /\ PacketsOK /\ RecordsOK)'
<1>1. TypeOK'
  BY TypeStep
<1>2. ASSUME NEW e \in Ends, Process(e) \/ ProcessAndMatch(e)
      PROVE  (BuffersOK /\ PacketsOK /\ RecordsOK)'
  BY <1>2, ReadFacts, BaseAccept
<1>3. (BuffersOK /\ PacketsOK /\ RecordsOK)'
  BY <1>2, BaseWrite, BaseClear, BaseTransmitNew, BaseTransmitOld, BaseSkip,
     BaseStutter
     DEF Next, Transmit, Ends
<1> QED BY <1>1, <1>3

----------------------------------------------------------------------------
(* DirectionOK, for the items e sends and its peer receives. *)

(* The peer hands a packet to the network: what it says is true.           *)
LEMMA PeerSends ==
    ASSUME TypeOK, NEW e \in Ends, DirectionOK(e, Peer(e)),
           NEW rel \in BOOLEAN, NEW c \in Chunk,
           SendPacket(Peer(e), rel, c), UNCHANGED recvars,
           reliable_buf'[e] = reliable_buf[e],
           reliable_length'[e] = reliable_length[e],
           reliable_sequence'[e] = reliable_sequence[e]
    PROVE  DirectionOK(e, Peer(e))'
<1> DEFINE r == Peer(e)
           p == [sequence |-> outgoing_sequence[r], reliable |-> rel,
                 sequence_ack |-> AckField(r), reliable_ack |-> AckBit(r),
                 data |-> c, got |-> Len(received[r])]
<1>1. r \in Ends /\ r # e
  BY Ends2
<1>2. /\ packets'[e] = packets[e]
      /\ packets'[r] = packets[r] \cup {p}
      /\ last_reliable_sequence'[e] = last_reliable_sequence[e]
  BY <1>1 DEF SendPacket, TypeOK
<1>3. ReceiverOK(e, r)' /\ InFlightOK(e, r)'
  BY <1>2 DEF DirectionOK, ReceiverOK, InFlightOK, recvars, Got, Fresh
<1>4. p.got = Got(r) /\ p.reliable_ack = AckBit(r) /\ p.sequence_ack = AckField(r)
  BY DEF Got
<1>5. Got(r) \in Nat
  BY <1>1 DEF TypeOK, Got
<1>6. AckField(r) # VoidAck => AckBit(r) = incoming_reliable_sequence[r]
  BY DEF AckField, AckBit
<1> HIDE DEF p
<1>7. HeadersOK(e, r)'
  <2> SUFFICES ASSUME NEW q \in packets'[r], q.sequence >= incoming_sequence[e]
               PROVE  /\ q.got \in {reliable_buf[e].from, reliable_buf[e].to}
                      /\ reliable_length[e] = 0 => q.got = reliable_buf[e].to
                      /\ q.sequence_ack # VoidAck =>
                            /\ (q.reliable_ack = reliable_sequence[e])
                                  <=> (q.got = reliable_buf[e].to)
                            /\ q.got < Got(r) =>
                                  q.sequence_ack < last_reliable_sequence[e]
    BY <1>2 DEF HeadersOK, recvars, Got
  <2>1. CASE q \in packets[r]
    BY <2>1 DEF DirectionOK, HeadersOK
  <2>2. CASE q = p
    BY <1>4, <1>5, <1>6, <2>2 DEF DirectionOK, ReceiverOK
  <2> QED BY <1>2, <2>1, <2>2
<1> QED BY <1>3, <1>7 DEF DirectionOK

(* Ranges of what the two ends hold. *)
LEMMA RangeFacts ==
    ASSUME TypeOK, NEW e \in Ends
    PROVE  /\ reliable_buf[e].from \in Nat /\ reliable_buf[e].to \in Nat
           /\ reliable_buf[e].from <= reliable_buf[e].to
           /\ message[e].from \in Nat /\ message[e].to \in Nat
           /\ message[e].from <= message[e].to
           /\ Got(e) \in Nat
           /\ incoming_sequence[e] \in Int
           /\ incoming_acknowledged[e] \in Nat
           /\ outgoing_sequence[e] \in Nat
           /\ last_reliable_sequence[e] \in Nat
           /\ reliable_sequence[e] \in Bit
           /\ incoming_reliable_sequence[e] \in Bit
           /\ \A p \in packets[e] : /\ p \in Packet
                                    /\ p.sequence \in Nat
                                    /\ p.sequence_ack \in Nat
                                    /\ p.reliable_ack \in Bit
                                    /\ p.got \in Nat
                                    /\ p.data \in Chunk
BY DEF TypeOK, Chunk, Got, Packet

LEMMA SelfTransmitNew ==
    ASSUME TypeOK, BuffersOK, NEW e \in Ends, DirectionOK(e, Peer(e)),
           TransmitNew(e)
    PROVE  DirectionOK(e, Peer(e))'
<1> DEFINE r == Peer(e)
           b == reliable_buf[e]
           m == message[e]
           p == [sequence |-> outgoing_sequence[e], reliable |-> TRUE,
                 sequence_ack |-> AckField(e), reliable_ack |-> AckBit(e),
                 data |-> m, got |-> Len(received[e])]
<1>1. r \in Ends /\ r # e
  BY Ends2
<1>2. /\ reliable_length[e] = 0
      /\ m.from = b.to /\ m.from < m.to /\ Size(m) > 0
  BY RangeFacts DEF TransmitNew, CopyDue, BuffersOK, Size
<1>3. /\ packets'[e] = packets[e] \cup {p}
      /\ packets'[r] = packets[r]
      /\ reliable_buf'[e] = m
      /\ reliable_length'[e] = Size(m)
      /\ reliable_sequence'[e] = Flip(reliable_sequence[e])
      /\ last_reliable_sequence'[e] = outgoing_sequence[e] + 1
      /\ UNCHANGED recvars
  BY <1>1 DEF TransmitNew, SendPacket, LastReliable, TypeOK
<1>4. /\ Got(r) = b.to /\ Got(r)' = Got(r)
      /\ incoming_reliable_sequence[r] = reliable_sequence[e]
      /\ Flip(reliable_sequence[e]) # reliable_sequence[e]
  BY <1>2, <1>3, FlipBit, RangeFacts DEF DirectionOK, ReceiverOK, recvars, Got
<1>5. ReceiverOK(e, r)'
  <2>1. received'[r] = received[r]
        /\ incoming_reliable_sequence'[r] = incoming_reliable_sequence[r]
    BY <1>3 DEF recvars
  <2>2. received[r] = Items([from |-> 0, to |-> Got(r)])
    BY DEF DirectionOK, ReceiverOK
  <2> QED BY <1>2, <1>3, <1>4, <2>1, <2>2, RangeFacts DEF ReceiverOK
<1>6. p.reliable /\ p.data = m /\ p.sequence + 1 = outgoing_sequence[e] + 1
  OBVIOUS
<1> HIDE DEF p
<1>7. InFlightOK(e, r)'
  <2> SUFFICES ASSUME NEW q \in packets'[e], q.reliable, Fresh(r, q)
               PROVE  /\ q.data = m
                      /\ Size(m) > 0
                      /\ Got(r) = m.from
                      /\ q.sequence + 1 = outgoing_sequence[e] + 1
    BY <1>3, <1>4 DEF InFlightOK, Fresh, recvars
  <2>1. CASE q \in packets[e]
    <3>1. Size(b) > 0 /\ Got(r) = b.from
      BY <2>1 DEF DirectionOK, InFlightOK
    <3> QED BY <1>4, <3>1, RangeFacts DEF Size
  <2>2. CASE q = p
    BY <1>2, <1>4, <1>6, <2>2
  <2> QED BY <1>3, <2>1, <2>2
<1>8. HeadersOK(e, r)'
  <2> SUFFICES ASSUME NEW q \in packets[r], q.sequence >= incoming_sequence[e]
               PROVE  /\ q.got = m.from /\ q.got # m.to /\ ~(q.got < Got(r))
                      /\ q.sequence_ack # VoidAck =>
                            q.reliable_ack # Flip(reliable_sequence[e])
    BY <1>2, <1>3, <1>4, RangeFacts DEF HeadersOK, recvars
  <2>1. /\ q.got = b.to
        /\ q.sequence_ack # VoidAck => q.reliable_ack = reliable_sequence[e]
    BY <1>2 DEF DirectionOK, HeadersOK
  <2> QED BY <1>1, <1>2, <1>4, <2>1, RangeFacts
<1> QED BY <1>5, <1>7, <1>8 DEF DirectionOK

(* The retransmission test of Netchan_Transmit, when the acknowledgement   *)
(* it reads is a real one: the peer lacks the outstanding message and will *)
(* accept no earlier copy of it.                                           *)
LEMMA DroppedMeansLost ==
    ASSUME TypeOK, PacketsOK, RecordsOK, NEW e \in Ends,
           DirectionOK(e, Peer(e)), Dropped(e),
           incoming_acknowledged[e] # VoidAck
    PROVE  /\ Got(Peer(e)) = reliable_buf[e].from
           /\ Size(reliable_buf[e]) > 0
           /\ reliable_length[e] # 0
           /\ \A q \in packets[e] : ~(q.reliable /\ Fresh(Peer(e), q))
<1> DEFINE r == Peer(e)
           b == reliable_buf[e]
<1>1. r \in Ends
  BY Ends2
<1>2. incoming_acknowledged[e] > last_reliable_sequence[e]
      /\ incoming_acknowledged[e] > 0
  BY RangeFacts DEF Dropped
<1>3. PICK h \in packets[r] :
         /\ h.sequence = incoming_sequence[e]
         /\ h.sequence_ack = incoming_acknowledged[e]
         /\ h.reliable_ack = incoming_reliable_acknowledged[e]
  BY <1>2 DEF RecordsOK
<1>4. /\ h.got \in {b.from, b.to}
      /\ reliable_length[e] = 0 => h.got = b.to
      /\ (h.reliable_ack = reliable_sequence[e]) <=> (h.got = b.to)
      /\ h.got < Got(r) => h.sequence_ack < last_reliable_sequence[e]
  BY <1>1, <1>3, RangeFacts DEF DirectionOK, HeadersOK
<1>5. h.got = b.from /\ h.got # b.to /\ reliable_length[e] # 0
  BY <1>3, <1>4 DEF Dropped
<1>6. h.got <= Got(r) /\ Got(r) \in {b.from, b.to}
  BY <1>1, <1>3 DEF PacketsOK, DirectionOK, ReceiverOK
<1>7. ~(h.got < Got(r))
  BY <1>1, <1>2, <1>3, <1>4, RangeFacts
<1>8. Got(r) = b.from /\ Size(b) > 0
  BY <1>1, <1>5, <1>6, <1>7, RangeFacts DEF Size
<1>9. ASSUME NEW q \in packets[e], q.reliable PROVE ~Fresh(r, q)
  <2>1. q.sequence < last_reliable_sequence[e] /\ q.sequence \in Nat
    BY <1>9, RangeFacts DEF PacketsOK
  <2>2. h.sequence_ack <= incoming_sequence[r] /\ incoming_sequence[r] \in Int
    BY <1>1, <1>3, RangeFacts DEF PacketsOK
  <2> QED BY <1>1, <1>2, <1>3, <2>1, <2>2, RangeFacts DEF Fresh
<1> QED BY <1>5, <1>8, <1>9

LEMMA SelfTransmitOld ==
    ASSUME TypeOK, BuffersOK, PacketsOK, RecordsOK, NEW e \in Ends,
           DirectionOK(e, Peer(e)), ~voided'[e],
           TransmitAgain(e) \/ TransmitPlain(e)
    PROVE  DirectionOK(e, Peer(e))'
<1> DEFINE r == Peer(e)
           b == reliable_buf[e]
<1>1. r \in Ends /\ r # e
  BY Ends2
<1>2. /\ packets'[r] = packets[r]
      /\ UNCHANGED recvars /\ UNCHANGED relvars /\ UNCHANGED reliable_length
      /\ last_reliable_sequence'[e] >= last_reliable_sequence[e]
      /\ last_reliable_sequence'[e] \in Nat
  <2>1. last_reliable_sequence[e] <= outgoing_sequence[e]
    BY DEF PacketsOK
  <2>2. PICK rel \in BOOLEAN : \E c : SendPacket(e, rel, c)
    BY Zenon DEF TransmitAgain, TransmitPlain
  <2>3. packets'[r] = packets[r]
    BY <1>1, <2>2 DEF SendPacket, TypeOK
  <2>4. UNCHANGED recvars /\ UNCHANGED relvars /\ UNCHANGED reliable_length
    BY DEF TransmitAgain, TransmitPlain
  <2>5. last_reliable_sequence'[e] = LastReliable(e, rel)
    BY <2>2 DEF SendPacket, TypeOK
  <2>6. LastReliable(e, rel) \in
             {last_reliable_sequence[e], outgoing_sequence[e] + 1}
    BY DEF LastReliable
  <2> QED BY <2>1, <2>3, <2>4, <2>5, <2>6, RangeFacts
<1>3. ReceiverOK(e, r)'
  BY <1>2 DEF DirectionOK, ReceiverOK, recvars, relvars, Got
<1>4. HeadersOK(e, r)'
  <2> SUFFICES ASSUME NEW q \in packets[r], q.sequence >= incoming_sequence[e],
                      q.sequence_ack # VoidAck, q.got < Got(r)
               PROVE  q.sequence_ack < last_reliable_sequence'[e]
    BY <1>2 DEF DirectionOK, HeadersOK, recvars, relvars, Got
  <2>1. q.sequence_ack < last_reliable_sequence[e]
    BY DEF DirectionOK, HeadersOK
  <2> QED BY <1>1, <1>2, <2>1, RangeFacts
<1>5. InFlightOK(e, r)'
  <2>1. CASE TransmitAgain(e)
    <3>1. incoming_acknowledged[e] # VoidAck /\ Dropped(e)
      BY <2>1 DEF TransmitAgain, TypeOK
    <3>2. /\ Got(r) = b.from /\ Size(b) > 0 /\ reliable_length[e] # 0
          /\ \A q \in packets[e] : ~(q.reliable /\ Fresh(r, q))
      BY <3>1, DroppedMeansLost
    <3> DEFINE p == [sequence |-> outgoing_sequence[e], reliable |-> TRUE,
                     sequence_ack |-> AckField(e), reliable_ack |-> AckBit(e),
                     data |-> Outstanding(e), got |-> Len(received[e])]
    <3>3. /\ packets'[e] = packets[e] \cup {p}
          /\ last_reliable_sequence'[e] = outgoing_sequence[e] + 1
      BY <2>1 DEF TransmitAgain, SendPacket, LastReliable, TypeOK
    <3>4. p.data = b /\ p.sequence = outgoing_sequence[e]
      BY <3>2 DEF Outstanding
    <3> HIDE DEF p
    <3> SUFFICES ASSUME NEW q \in packets'[e], q.reliable, Fresh(r, q)
                 PROVE  /\ q.data = b
                        /\ Size(b) > 0
                        /\ Got(r) = b.from
                        /\ q.sequence + 1 = last_reliable_sequence'[e]
      BY <1>2 DEF InFlightOK, Fresh, recvars, relvars, Got
    <3>5. q = p
      BY <3>2, <3>3
    <3> QED BY <3>2, <3>3, <3>4, <3>5
  <2>2. CASE TransmitPlain(e)
    <3> DEFINE p == [sequence |-> outgoing_sequence[e], reliable |-> FALSE,
                     sequence_ack |-> AckField(e), reliable_ack |-> AckBit(e),
                     data |-> NoItems, got |-> Len(received[e])]
    <3>1. /\ packets'[e] = packets[e] \cup {p}
          /\ last_reliable_sequence'[e] = last_reliable_sequence[e]
      BY <2>2 DEF TransmitPlain, SendPacket, LastReliable, TypeOK
    <3>2. ~p.reliable
      OBVIOUS
    <3> HIDE DEF p
    <3> QED BY <1>2, <3>1, <3>2
            DEF DirectionOK, InFlightOK, Fresh, recvars, relvars, Got
  <2> QED BY <2>1, <2>2
<1> QED BY <1>3, <1>4, <1>5 DEF DirectionOK

(* e itself accepts a packet: the acknowledgement in it may clear the      *)
(* buffer, and the headers that still matter are fewer.                    *)
LEMMA SelfAccepts ==
    ASSUME TypeOK, BuffersOK, PacketsOK, NEW e \in Ends,
           DirectionOK(e, Peer(e)), ~voided'[e],
           NEW h \in packets[Peer(e)], Accept(e, h)
    PROVE  DirectionOK(e, Peer(e))'
<1> DEFINE r == Peer(e)
           b == reliable_buf[e]
<1>1. r \in Ends /\ r # e
  BY Ends2
<1>2. /\ UNCHANGED <<packets, last_reliable_sequence>> /\ UNCHANGED relvars
      /\ received'[r] = received[r]
      /\ incoming_sequence'[r] = incoming_sequence[r]
      /\ incoming_reliable_sequence'[r] = incoming_reliable_sequence[r]
      /\ incoming_sequence'[e] = h.sequence
      /\ h.sequence >= incoming_sequence[e] + 1
      /\ h.sequence \in Nat
  BY <1>1, RangeFacts DEF Accept, Fresh, TypeOK
<1>3. h.sequence >= incoming_sequence[e] /\ h.sequence > incoming_sequence[e]
  BY <1>2, RangeFacts
<1>4. reliable_length'[e] = 0 => h.got = b.to
  <2>1. CASE reliable_length[e] = 0
    BY <1>3, <2>1 DEF DirectionOK, HeadersOK
  <2>2. CASE reliable_length[e] # 0 /\ Acknowledges(e, h)
    <3>1. h.sequence_ack # VoidAck
      BY <2>2 DEF Accept, TypeOK
    <3> QED BY <1>3, <2>2, <3>1 DEF DirectionOK, HeadersOK, Acknowledges
  <2>3. CASE reliable_length[e] # 0 /\ ~Acknowledges(e, h)
    BY <2>3 DEF Accept, TypeOK
  <2> QED BY <2>1, <2>2, <2>3
<1>5. ReceiverOK(e, r)'
  <2>1. reliable_length'[e] = 0 => Got(r) = b.to
    <3>1. h.got <= Got(r) /\ Got(r) \in {b.from, b.to}
      BY <1>1 DEF PacketsOK, DirectionOK, ReceiverOK
    <3> QED BY <1>1, <1>4, <3>1, RangeFacts
  <2> QED BY <1>2, <2>1 DEF DirectionOK, ReceiverOK, relvars, Got
<1>6. InFlightOK(e, r)'
  BY <1>2 DEF DirectionOK, InFlightOK, Fresh, relvars, Got
<1>7. HeadersOK(e, r)'
  <2> SUFFICES ASSUME NEW q \in packets[r], q.sequence >= h.sequence
               PROVE  /\ q.got \in {b.from, b.to}
                      /\ reliable_length'[e] = 0 => q.got = b.to
                      /\ q.sequence_ack # VoidAck =>
                            /\ (q.reliable_ack = reliable_sequence[e])
                                  <=> (q.got = b.to)
                            /\ q.got < Got(r) =>
                                  q.sequence_ack < last_reliable_sequence[e]
    BY <1>2 DEF HeadersOK, relvars, Got
  <2>1. q.sequence >= incoming_sequence[e]
    BY <1>1, <1>2, <1>3, RangeFacts
  <2>2. h.got <= q.got
    BY <1>1 DEF PacketsOK
  <2>3. q.got \in {b.from, b.to}
    BY <2>1 DEF DirectionOK, HeadersOK
  <2>4. reliable_length'[e] = 0 => q.got = b.to
    BY <1>1, <1>4, <2>2, <2>3, RangeFacts
  <2> QED BY <2>1, <2>3, <2>4 DEF DirectionOK, HeadersOK
<1> QED BY <1>5, <1>6, <1>7 DEF DirectionOK

(* The peer accepts a packet of e: a reliable one is exactly what it       *)
(* lacks, and after it no other copy is acceptable.                        *)
LEMMA PeerAccepts ==
    ASSUME TypeOK, BuffersOK, PacketsOK, NEW e \in Ends,
           DirectionOK(e, Peer(e)),
           NEW p \in packets[e], Accept(Peer(e), p)
    PROVE  DirectionOK(e, Peer(e))'
<1> DEFINE r == Peer(e)
           b == reliable_buf[e]
<1>1. r \in Ends /\ r # e /\ Peer(r) = e
  BY Ends2
<1>2. /\ UNCHANGED <<packets, last_reliable_sequence>> /\ UNCHANGED relvars
      /\ incoming_sequence'[e] = incoming_sequence[e]
      /\ reliable_length'[e] = reliable_length[e]
      /\ Fresh(r, p)
      /\ incoming_sequence'[r] = p.sequence
      /\ received'[r] = IF p.reliable THEN received[r] \o Items(p.data)
                                      ELSE received[r]
      /\ incoming_reliable_sequence'[r] =
            IF p.reliable THEN Flip(incoming_reliable_sequence[r])
                          ELSE incoming_reliable_sequence[r]
  BY <1>1 DEF Accept, TypeOK
<1>3. p.sequence > incoming_sequence[r]
  BY <1>1, <1>2, RangeFacts DEF Fresh
<1>4. CASE ~p.reliable
  <2>1. /\ received'[r] = received[r]
        /\ incoming_reliable_sequence'[r] = incoming_reliable_sequence[r]
    BY <1>2, <1>4
  <2>2. ReceiverOK(e, r)' /\ HeadersOK(e, r)'
    BY <1>2, <2>1 DEF DirectionOK, ReceiverOK, HeadersOK, relvars, Got
  <2>3. \A q \in packets[e] : Fresh(r, q)' => Fresh(r, q)
    BY <1>1, <1>2, <1>3, RangeFacts DEF Fresh
  <2>4. InFlightOK(e, r)'
    BY <1>2, <2>1, <2>3 DEF DirectionOK, InFlightOK, relvars, Got
  <2> QED BY <2>2, <2>4 DEF DirectionOK
<1>5. CASE p.reliable
  <2>1. /\ p.data = b /\ Size(b) > 0 /\ Got(r) = b.from
        /\ p.sequence + 1 = last_reliable_sequence[e]
    BY <1>2, <1>5 DEF DirectionOK, InFlightOK
  <2>2. b \in Chunk /\ b.from < b.to
    BY <2>1, RangeFacts DEF TypeOK, Size
  <2>3. received'[r] = Items([from |-> 0, to |-> b.to])
    <3>1. received[r] = Items([from |-> 0, to |-> b.from])
      BY <2>1 DEF DirectionOK, ReceiverOK
    <3> QED BY <1>2, <1>5, <2>1, <2>2, <3>1, ItemsJoin
  <2>4. Got(r)' = b.to
    <3>1. [from |-> 0, to |-> b.to] \in Chunk
          /\ Size([from |-> 0, to |-> b.to]) = b.to
      BY RangeFacts DEF Chunk, Size
    <3> QED BY <2>3, <3>1, ItemsType DEF Got
  <2>5. incoming_reliable_sequence'[r] = reliable_sequence[e]
    <3>1. incoming_reliable_sequence[r] # reliable_sequence[e]
      <4>1. (incoming_reliable_sequence[r] = reliable_sequence[e])
              <=> (Got(r) = b.to)
        BY DEF DirectionOK, ReceiverOK
      <4>2. Got(r) # b.to
        BY <2>1, <2>2, RangeFacts
      <4> QED BY <4>1, <4>2
    <3> QED BY <1>1, <1>2, <1>5, <3>1, RangeFacts DEF Bit, Flip
  <2>6. ReceiverOK(e, r)'
    BY <1>2, <2>3, <2>4, <2>5 DEF ReceiverOK, relvars
  <2>7. InFlightOK(e, r)'
    <3> SUFFICES ASSUME NEW q \in packets[e], q.reliable,
                        q.sequence >= p.sequence + 1
                 PROVE  FALSE
      BY <1>2 DEF InFlightOK, Fresh, relvars
    <3>1. Fresh(r, q)
      BY <1>1, <1>3, RangeFacts DEF Fresh
    <3>2. q.sequence + 1 = last_reliable_sequence[e]
      BY <3>1 DEF DirectionOK, InFlightOK
    <3> QED BY <2>1, <3>2, RangeFacts
  <2>8. HeadersOK(e, r)'
    <3> SUFFICES ASSUME NEW q \in packets[r], q.sequence >= incoming_sequence[e]
                 PROVE  /\ q.got \in {b.from, b.to}
                        /\ reliable_length[e] = 0 => q.got = b.to
                        /\ q.sequence_ack # VoidAck =>
                              /\ (q.reliable_ack = reliable_sequence[e])
                                    <=> (q.got = b.to)
                              /\ q.sequence_ack < last_reliable_sequence[e]
      BY <1>2 DEF HeadersOK, relvars
    <3>1. q.sequence_ack # VoidAck => q.sequence_ack <= incoming_sequence[r]
      BY <1>1 DEF PacketsOK
    <3>2. p.sequence < last_reliable_sequence[e]
      BY <1>5 DEF PacketsOK
    <3> QED BY <1>1, <1>3, <3>1, <3>2, RangeFacts DEF DirectionOK, HeadersOK
  <2> QED BY <2>6, <2>7, <2>8 DEF DirectionOK
<1> QED BY <1>4, <1>5

(* Steps that touch nothing DirectionOK reads. *)
LEMMA DirectionStutter ==
    ASSUME NEW e \in Ends, DirectionOK(e, Peer(e)),
           UNCHANGED <<packets, last_reliable_sequence, recvars, relvars,
                       reliable_length>>
    PROVE  DirectionOK(e, Peer(e))'
BY DEF DirectionOK, ReceiverOK, InFlightOK, HeadersOK, Fresh, Got,
       recvars, relvars

LEMMA DirectionStep ==
    ASSUME ChannelInv, [Next]_vars, NEW e \in Ends, ~voided'[e]
    PROVE  DirectionOK(e, Peer(e))'
<1> USE DEF ChannelInv
<1> DEFINE r == Peer(e)
<1>1. r \in Ends /\ r # e /\ Peer(r) = e /\ \A d \in Ends : d = e \/ d = r
  BY Ends2
<1>2. ASSUME NEW d \in Ends, voided[d] PROVE voided'[d]
  <2>1. voided \in [Ends -> BOOLEAN]
    BY DEF TypeOK
  <2>2. ASSUME NEW a \in Ends, NEW h \in packets[Peer(a)], Accept(a, h)
        PROVE  voided'[d]
    BY <1>2, <2>1, <2>2 DEF Accept
  <2>3. ASSUME NEW a \in Ends, Process(a) \/ ProcessAndMatch(a)
        PROVE  voided'[d]
    BY <2>2, <2>3 DEF Process, ProcessAndMatch
  <2>4. ASSUME NEW a \in Ends, TransmitAgain(a) PROVE voided'[d]
    BY <1>2, <2>1, <2>4 DEF TransmitAgain
  <2>5. ASSUME NEW a \in Ends,
               \/ Write(a) \/ Clear(a) \/ TransmitNew(a) \/ TransmitPlain(a)
               \/ SkipPacket(a)
        PROVE  voided'[d]
    BY <1>2, <2>5 DEF Write, Clear, TransmitNew, TransmitPlain, SkipPacket
  <2>6. CASE UNCHANGED vars
    BY <1>2, <2>6 DEF vars
  <2> QED BY <2>3, <2>4, <2>5, <2>6 DEF Next, Transmit, Ends
<1>3. DirectionOK(e, r)
  BY <1>2
<1>4. ASSUME NEW d \in Ends, Write(d) \/ Clear(d) \/ SkipPacket(d)
      PROVE  DirectionOK(e, r)'
  BY <1>3, <1>4, DirectionStutter DEF Write, Clear, SkipPacket, sendvars
<1>5. ASSUME NEW d \in Ends, Transmit(d) PROVE DirectionOK(e, r)'
  <2>1. CASE d = e
    BY <1>3, <1>5, <2>1, SelfTransmitNew, SelfTransmitOld DEF Transmit
  <2>2. CASE d = r
    <3>1. message[r] \in Chunk /\ Outstanding(r) \in Chunk /\ NoItems \in Chunk
      BY <1>1 DEF TypeOK, Outstanding, NoItems, Chunk
    <3>2. CASE TransmitNew(r)
      <4>1. /\ reliable_buf'[e] = reliable_buf[e]
            /\ reliable_length'[e] = reliable_length[e]
            /\ reliable_sequence'[e] = reliable_sequence[e]
            /\ SendPacket(r, TRUE, message[r]) /\ UNCHANGED recvars
        BY <1>1, <3>2 DEF TransmitNew, TypeOK
      <4> QED BY <1>3, <3>1, <4>1, PeerSends
    <3>3. CASE TransmitAgain(r)
      <4>1. /\ reliable_buf'[e] = reliable_buf[e]
            /\ reliable_length'[e] = reliable_length[e]
            /\ reliable_sequence'[e] = reliable_sequence[e]
            /\ SendPacket(r, TRUE, Outstanding(r)) /\ UNCHANGED recvars
        BY <3>3 DEF TransmitAgain, relvars
      <4> QED BY <1>3, <3>1, <4>1, PeerSends
    <3>4. CASE TransmitPlain(r)
      <4>1. /\ reliable_buf'[e] = reliable_buf[e]
            /\ reliable_length'[e] = reliable_length[e]
            /\ reliable_sequence'[e] = reliable_sequence[e]
            /\ SendPacket(r, FALSE, NoItems) /\ UNCHANGED recvars
        BY <3>4 DEF TransmitPlain, relvars
      <4> QED BY <1>3, <3>1, <4>1, PeerSends
    <3> QED BY <1>5, <2>2, <3>2, <3>3, <3>4 DEF Transmit
  <2> QED BY <1>1, <2>1, <2>2
<1>6. ASSUME NEW d \in Ends, Process(d) \/ ProcessAndMatch(d)
      PROVE  DirectionOK(e, r)'
  <2>1. PICK p \in packets[Peer(d)] : Accept(d, p)
    BY <1>6, ReadFacts
  <2>2. CASE d = e
    BY <1>3, <2>1, <2>2, SelfAccepts
  <2>3. CASE d = r
    BY <1>1, <1>3, <2>1, <2>3, PeerAccepts
  <2> QED BY <1>1, <2>2, <2>3
<1>7. CASE UNCHANGED vars
  BY <1>3, <1>7, DirectionStutter DEF vars, sendvars
<1> QED BY <1>4, <1>5, <1>6, <1>7 DEF Next, Ends

(* The inductive invariant holds in every state of every behaviour. *)
THEOREM ChannelInvariant == Spec => []ChannelInv
<1>1. ChannelInv /\ [Next]_vars => ChannelInv'
  BY BaseStep, DirectionStep DEF ChannelInv
<1> QED BY <1>1, InitOK, PTL DEF Spec

(* Netchan_Transmit and Netchan_Process over a network that may lose,      *)
(* repeat, delay and reorder packets deliver the reliable items in order,  *)
(* exactly once, unless a void acknowledgement decided something.          *)
THEOREM ExactlyOnce == Spec => []InOrderExactlyOnce
<1>1. ChannelInv => InOrderExactlyOnce
  BY DEF ChannelInv, DirectionOK, ReceiverOK, InOrderExactlyOnce, Got
<1> QED BY <1>1, ChannelInvariant, PTL

(* "it has been received": the reliable buffer is free again only when its *)
(* contents reached the peer, with the same exception.                     *)
THEOREM ClearedOnlyIfReceived == Spec => []ClearedMeansReceivedUnlessVoid
<1>1. ChannelInv => ClearedMeansReceivedUnlessVoid
  BY DEF ChannelInv, DirectionOK, ReceiverOK, ClearedMeansReceivedUnlessVoid, Got
<1> QED BY <1>1, ChannelInvariant, PTL

(* A copy of a reliable message leaves again only while the peer lacks it. *)
THEOREM NoNeedlessResend == Spec => ResendOnlyIfLost
<1> DEFINE A == \A e \in Ends :
                   TransmitAgain(e) =>
                       voided'[e] \/ Len(received[Peer(e)]) = reliable_buf[e].from
<1>1. ChannelInv /\ [Next]_vars => A
  <2> SUFFICES ASSUME ChannelInv, NEW e \in Ends, TransmitAgain(e), ~voided'[e]
               PROVE  Len(received[Peer(e)]) = reliable_buf[e].from
    OBVIOUS
  <2>1. /\ ~voided[e] /\ Dropped(e)
        /\ incoming_acknowledged[e] # VoidAck
    BY DEF TransmitAgain, TypeOK, ChannelInv
  <2> QED BY <2>1, DroppedMeansLost DEF ChannelInv, Got
<1>2. ResendOnlyIfLost <=> [][A]_vars
  BY DEF ResendOnlyIfLost
<1>3. Spec => [][A]_vars
  <2> HIDE DEF A
  <2> QED BY <1>1, ChannelInvariant, PTL DEF Spec
<1> QED BY <1>2, <1>3

----------------------------------------------------------------------------
(* The frame loops *)

allvars == <<vars, policyvars>>

(* Every step of a frame loop is a step of the channel or leaves it alone. *)
LEMMA StepMaps == [ChannelNext]_allvars => [Next]_vars
  <1> SUFFICES ASSUME [ChannelNext]_allvars PROVE [Next]_vars
      OBVIOUS
  <1>1. Client \in Ends /\ Server \in Ends
        BY DEF Ends
  <1>2. CASE Connect \/ ClientWrite \/ ClientClear \/ ClientRead
        BY <1>1, <1>2 DEF Connect, ClientWrite, ClientClear, ClientRead, Next
  <1>3. CASE ClientSend \/ ClientWithhold
        BY <1>1, <1>3 DEF ClientSend, ClientWithhold, TryTransmit, Next
  <1>4. CASE ServerWrite \/ ServerClear \/ ServerRead \/ Drop
        BY <1>1, <1>4 DEF ServerWrite, ServerClear, ServerRead, Drop, Next
  <1>5. CASE Reply \/ Choke
        BY <1>1, <1>5 DEF Reply, Choke, TryTransmit, Next
  <1>6. CASE OverflowClear \/ OverflowDrop
        BY <1>1, <1>6 DEF OverflowClear, OverflowDrop, Next
  <1>7. CASE OverflowSend \/ FinalMessage
        BY <1>1, <1>7 DEF OverflowSend, FinalMessage, TransmitForced,
           TryTransmit, Next
  <1>8. CASE UNCHANGED allvars
        BY <1>8 DEF allvars
  <1> QED BY <1>2, <1>3, <1>4, <1>5, <1>6, <1>7, <1>8 DEF ChannelNext

(* QWChannel implements Netchan: the client's and the server's send        *)
(* policies are among the uses of a channel that Netchan describes.        *)
THEOREM ImplementsNetchan == ChannelSpec => Spec
  <1>1. ChannelInit => Init
        BY DEF ChannelInit
  <1> QED BY <1>1, StepMaps, PTL DEF ChannelSpec, Spec, allvars

(* Hence reliable items arrive in order exactly once in every connection   *)
(* in which no void acknowledgement decided anything.                      *)
THEOREM ConnectionExactlyOnce == ChannelSpec => []InOrderExactlyOnce
  BY ImplementsNetchan, ExactlyOnce, PTL

----------------------------------------------------------------------------
(* The replies *)

ServerSame ==
    /\ incoming_sequence'[Server] = incoming_sequence[Server]
    /\ packets'[Server] = packets[Server]
    /\ outgoing_sequence'[Server] = outgoing_sequence[Server]

ReplyInv == MatchInv /\ OneReplyPerPacket

LEMMA Distinct == Client \in Ends /\ Server \in Ends /\ Client # Server
  BY EndsAssumption DEF Ends

(* Steps of the client and the server's writes leave the server's sequence *)
(* state alone.                                                            *)
LEMMA ClientSteps ==
  ASSUME TypeOK,
         \/ \E e \in Ends : Write(e) \/ Clear(e)
         \/ Process(Client) \/ Transmit(Client) \/ SkipPacket(Client)
         \/ UNCHANGED vars
  PROVE  ServerSame
  <1> USE Distinct
  <1>1. ASSUME NEW e \in Ends, Write(e) \/ Clear(e) PROVE ServerSame
        BY <1>1 DEF Write, Clear, ServerSame, sendvars, recvars
  <1>2. CASE Process(Client)
        BY <1>2 DEF Process, Accept, ServerSame, TypeOK
  <1>3. CASE Transmit(Client)
        BY <1>3 DEF Transmit, TransmitNew, TransmitAgain, TransmitPlain,
           SendPacket, ServerSame, TypeOK, recvars
  <1>4. CASE SkipPacket(Client)
        BY <1>4 DEF SkipPacket, ServerSame, TypeOK, recvars
  <1>5. CASE UNCHANGED vars
        BY <1>5 DEF vars, sendvars, recvars, ServerSame
  <1> QED BY <1>1, <1>2, <1>3, <1>4, <1>5

(* Whatever leaves the sequences alone and owes no new reply.  When the    *)
(* server was busy with an overflow it must still be, or owe nothing.      *)
LEMMA SameKeeps ==
  ASSUME TypeOK, ReplyInv, ServerSame, UNCHANGED forced,
         send_message' /\ Idle' => send_message /\ Idle,
         send_message' /\ ~zombie' /\ ~exited' => send_message,
         zombie => zombie',
         exited => exited',
         overflow' = "dropped" => zombie' \/ overflow = "dropped"
  PROVE  ReplyInv'
  <1> USE Distinct
  <1>1. OneReplyPerPacket'
        BY DEF ReplyInv, OneReplyPerPacket, ServerSame
  <1>2. MatchInv'
        BY DEF ReplyInv, MatchInv, ServerSame
  <1> QED BY <1>1, <1>2 DEF ReplyInv

(* An accepted packet has a higher number than every packet answered.      *)
LEMMA ReadKeeps == TypeOK /\ ReplyInv /\ ServerRead => ReplyInv'
  <1> SUFFICES ASSUME TypeOK, ReplyInv, ServerRead PROVE ReplyInv'
      OBVIOUS
  <1> USE Distinct
  <1>1. PICK p \in packets[Peer(Server)] :
            /\ Accept(Server, p)
            /\ zombie => UNCHANGED outgoing_sequence
            /\ ~zombie => outgoing_sequence' =
                   [outgoing_sequence EXCEPT ![Server] = Larger(p.sequence, @)]
        BY DEF ServerRead, Process, ProcessAndMatch
  <1>2. p.sequence \in Nat
        BY DEF TypeOK, Packet, Peer
  <1>3. /\ incoming_sequence[Server] \in Nat \cup {-1}
        /\ outgoing_sequence[Server] \in Nat
        /\ \A q \in packets[Server] : q.sequence_ack \in Nat
    <2>1. incoming_sequence[Server] \in Nat \cup {-1}
          BY DEF TypeOK
    <2>2. outgoing_sequence[Server] \in Nat
          BY DEF TypeOK
    <2>3. packets[Server] \subseteq Packet
          BY DEF TypeOK
    <2>4. \A q \in Packet : q.sequence_ack \in Nat
          BY DEF Packet
    <2> QED BY <2>1, <2>2, <2>3, <2>4
  <1>4. /\ incoming_sequence'[Server] = p.sequence
        /\ p.sequence >= incoming_sequence[Server] + 1
        /\ packets' = packets
        BY <1>1 DEF Accept, Fresh, TypeOK
  <1>5. Idle /\ UNCHANGED <<zombie, overflow, exited, forced>>
        BY DEF ServerRead
  <1>6. ~zombie => outgoing_sequence'[Server] = p.sequence
        BY <1>1, <1>2, <1>3, <1>4, <1>5
           DEF Larger, ReplyInv, MatchInv, TypeOK, Idle
  <1>7. MatchInv'
        BY <1>2, <1>3, <1>4, <1>5, <1>6 DEF ReplyInv, MatchInv
  <1>8. OneReplyPerPacket'
        BY <1>4, <1>5 DEF ReplyInv, OneReplyPerPacket
  <1> QED BY <1>7, <1>8 DEF ReplyInv

(* What a transmission of the server adds.                                 *)
LEMMA NewPacket ==
  ASSUME TypeOK, Transmit(Server)
  PROVE  /\ \E new \in Packet :
               /\ packets'[Server] = packets[Server] \cup {new}
               /\ new.sequence = outgoing_sequence[Server]
               /\ new.sequence_ack = AckField(Server)
         /\ outgoing_sequence'[Server] = outgoing_sequence[Server] + 1
         /\ UNCHANGED incoming_sequence
  <1> USE Distinct
  <1>1. PICK rel \in BOOLEAN, chunk \in Chunk : SendPacket(Server, rel, chunk)
        <2>1. /\ message[Server] \in Chunk
              /\ Outstanding(Server) \in Chunk
              /\ NoItems \in Chunk
              BY DEF TypeOK, Outstanding, NoItems, Chunk
        <2>2. CASE TransmitNew(Server)
              BY <2>1, <2>2 DEF TransmitNew
        <2>3. CASE TransmitAgain(Server)
              BY <2>1, <2>3 DEF TransmitAgain
        <2>4. CASE TransmitPlain(Server)
              BY <2>1, <2>4 DEF TransmitPlain
        <2> QED BY <2>2, <2>3, <2>4 DEF Transmit
  <1> DEFINE new == [sequence |-> outgoing_sequence[Server],
                     reliable |-> rel,
                     sequence_ack |-> AckField(Server),
                     reliable_ack |-> AckBit(Server),
                     data |-> chunk, got |-> Len(received[Server])]
  <1>2. packets' = [packets EXCEPT ![Server] = @ \cup {new}]
        BY <1>1 DEF SendPacket
  <1>3. /\ new.sequence_ack = AckField(Server)
        /\ new.sequence = outgoing_sequence[Server]
        OBVIOUS
  <1>4. new \in Packet
        <2>1. AckField(Server) \in Nat /\ AckBit(Server) \in Bit
              BY VoidAssumption DEF AckField, AckBit, TypeOK, Bit
        <2> QED BY <2>1 DEF Packet, TypeOK
  <1> HIDE DEF new
  <1>5. packets'[Server] = packets[Server] \cup {new}
        BY <1>2 DEF TypeOK
  <1>6. outgoing_sequence'[Server] = outgoing_sequence[Server] + 1
        BY <1>1 DEF SendPacket, TypeOK
  <1>7. UNCHANGED incoming_sequence
        BY DEF Transmit, TransmitNew, TransmitAgain, TransmitPlain, recvars
  <1> QED BY <1>3, <1>4, <1>5, <1>6, <1>7

(* A reply acknowledges the newest packet, which no other reply does.      *)
LEMMA ReplyKeeps == TypeOK /\ ReplyInv /\ Reply => ReplyInv'
  <1> SUFFICES ASSUME TypeOK, ReplyInv, Reply PROVE ReplyInv'
      OBVIOUS
  <1> USE Distinct
  <1>1. /\ Idle /\ send_message /\ ~send_message'
        /\ UNCHANGED <<zombie, overflow, exited, forced>>
        BY DEF Reply, Owed
  <1>2. CASE UNCHANGED vars
        <2>1. ServerSame
              BY <1>2, ClientSteps
        <2> QED BY <1>1, <2>1, SameKeeps
  <1>3. CASE Transmit(Server)
    <2>1. PICK new \in Packet :
              /\ packets'[Server] = packets[Server] \cup {new}
              /\ new.sequence = outgoing_sequence[Server]
              /\ new.sequence_ack = AckField(Server)
          BY <1>3, NewPacket
    <2>2. /\ outgoing_sequence'[Server] = outgoing_sequence[Server] + 1
          /\ UNCHANGED incoming_sequence
          BY <1>3, NewPacket
    <2>3. new.sequence_ack = incoming_sequence[Server]
          BY <1>1, <2>1 DEF AckField, ReplyInv, MatchInv
    <2>4. /\ incoming_sequence[Server] \in Nat \cup {-1}
          /\ outgoing_sequence[Server] \in Nat
          /\ \A q \in packets[Server] : q.sequence_ack \in Nat
          BY DEF TypeOK, Packet
    <2>5. MatchInv'
          BY <1>1, <2>1, <2>2, <2>3, <2>4 DEF ReplyInv, MatchInv
    <2>6. \A q \in packets[Server] :
              q.sequence \notin forced =>
                  q.sequence_ack < incoming_sequence[Server]
          BY <1>1 DEF ReplyInv, MatchInv
    <2>7. OneReplyPerPacket'
          BY <1>1, <2>1, <2>3, <2>4, <2>6 DEF ReplyInv, OneReplyPerPacket
    <2> QED BY <2>5, <2>7 DEF ReplyInv
  <1> QED BY <1>2, <1>3 DEF Reply, TryTransmit

(* A forced packet is on the list of forced packets, and after it a live   *)
(* client has no server to answer it.                                      *)
LEMMA ForcedKeeps ==
  ASSUME TypeOK, ReplyInv, TransmitForced,
         zombie' \/ exited',
         ~send_message' \/ ~Idle',
         overflow' = "dropped" => zombie'
  PROVE  ReplyInv'
  <1> USE Distinct
  <1>1. ASSUME NEW q \in packets'[Server], q.sequence \notin forced'
        PROVE  q \in packets[Server] /\ q.sequence \notin forced
        BY <1>1 DEF TransmitForced
  <1>2. UNCHANGED incoming_sequence
        <2>1. CASE Transmit(Server)
              BY <2>1, NewPacket
        <2>2. CASE UNCHANGED vars
              BY <2>2 DEF vars, recvars
        <2> QED BY <2>1, <2>2 DEF TransmitForced, TryTransmit
  <1>3. OneReplyPerPacket'
        BY <1>1 DEF ReplyInv, OneReplyPerPacket
  <1>4. MatchInv'
        BY <1>1, <1>2 DEF ReplyInv, MatchInv
  <1> QED BY <1>3, <1>4 DEF ReplyInv

LEMMA ReplyStep == TypeOK /\ ReplyInv /\ [ChannelNext]_allvars => ReplyInv'
  <1> SUFFICES ASSUME TypeOK, ReplyInv, [ChannelNext]_allvars PROVE ReplyInv'
      OBVIOUS
  <1> USE Distinct
  <1>1. CASE ServerRead
        BY <1>1, ReadKeeps
  <1>2. CASE Reply
        BY <1>2, ReplyKeeps
  <1>3. CASE Connect \/ ClientWrite \/ ClientClear \/ ClientRead \/ ClientWithhold
        <2>1. ServerSame
              BY <1>3, ClientSteps
                 DEF Connect, ClientWrite, ClientClear, ClientRead, ClientWithhold
        <2>2. UNCHANGED servervars
              BY <1>3 DEF Connect, ClientWrite, ClientClear, ClientRead,
                          ClientWithhold, policyvars
        <2> QED BY <2>1, <2>2, SameKeeps DEF servervars, Idle
  <1>4. CASE ClientSend
        <2>1. ServerSame /\ UNCHANGED servervars
              BY <1>4, ClientSteps DEF ClientSend, TryTransmit
        <2> QED BY <2>1, SameKeeps DEF servervars, Idle
  <1>5. CASE ServerWrite \/ ServerClear \/ Drop
        <2>1. ServerSame
              BY <1>5, ClientSteps DEF ServerWrite, ServerClear, Drop
        <2>2. /\ UNCHANGED <<send_message, overflow, exited, forced>>
              /\ zombie => zombie'
              BY <1>5 DEF ServerWrite, ServerClear, Drop, policyvars, servervars
        <2> QED BY <2>1, <2>2, SameKeeps DEF Idle
  <1>6. CASE Choke \/ UNCHANGED allvars
        <2>1. ServerSame
              BY <1>6, ClientSteps DEF Choke, allvars
        <2>2. /\ UNCHANGED <<overflow, exited, zombie, forced>>
              /\ send_message' => send_message
              BY <1>6 DEF Choke, Owed, allvars, policyvars, servervars
        <2> QED BY <2>1, <2>2, SameKeeps DEF Idle
  <1>7. CASE OverflowClear
        <2>1. ServerSame
              BY <1>7, ClientSteps DEF OverflowClear
        <2>2. /\ UNCHANGED <<send_message, exited, zombie, forced>>
              /\ overflow' = "cleared"
              BY <1>7 DEF OverflowClear
        <2> QED BY <2>1, <2>2, SameKeeps DEF Idle
  <1>8. CASE OverflowDrop
        <2>1. ServerSame
              BY <1>8, ClientSteps DEF OverflowDrop
        <2>2. /\ UNCHANGED <<exited, forced>>
              /\ zombie'
              /\ overflow' = "dropped"
              BY <1>8 DEF OverflowDrop
        <2> QED BY <2>1, <2>2, SameKeeps DEF Idle
  <1>9. CASE FinalMessage
        <2>1. /\ TransmitForced /\ exited'
              /\ ~zombie /\ UNCHANGED overflow
              BY <1>9 DEF FinalMessage
        <2>2. overflow # "dropped"
              BY <2>1 DEF ReplyInv, MatchInv
        <2> QED BY <2>1, <2>2, ForcedKeeps DEF Idle
  <1>10. CASE OverflowSend
        <2>1. TransmitForced /\ ~send_message' /\ UNCHANGED <<zombie, exited>>
              BY <1>10 DEF OverflowSend, Owed
        <2>2. zombie
              BY <1>10 DEF OverflowSend, ReplyInv, MatchInv
        <2> QED BY <2>1, <2>2, ForcedKeeps
  <1> QED BY <1>1, <1>2, <1>3, <1>4, <1>5, <1>6, <1>7, <1>8, <1>9, <1>10
          DEF ChannelNext

THEOREM ReplyInvariant == ChannelSpec => []ReplyInv
  <1>1. ChannelInit => ReplyInv
        BY Distinct DEF ChannelInit, Init, ReplyInv, MatchInv, OneReplyPerPacket
  <1>2. ChannelSpec => []TypeOK
        BY ImplementsNetchan, TypeCorrect, PTL
  <1> QED BY <1>1, <1>2, ReplyStep, PTL DEF ChannelSpec, allvars

(* The server answers a packet of the client at most once, overflows and   *)
(* its final message aside.                                                *)
THEOREM AnsweredOnce == ChannelSpec => []OneReplyPerPacket
  <1>1. ReplyInv => OneReplyPerPacket
        BY DEF ReplyInv
  <1> QED BY <1>1, ReplyInvariant, PTL

(* A reply to a live client has the number of the packet it answers, so    *)
(* SV_ExecuteClientMessage never finds that the sequences have slipped.    *)
THEOREM RepliesMatch == ChannelSpec => ReplyMatches
  <1>1. ReplyInv /\ [ChannelNext]_allvars =>
            [Reply /\ ~zombie => outgoing_sequence[Server]
                                    = incoming_sequence[Server]]_allvars
        BY DEF ReplyInv, MatchInv, Reply, Idle
  <1> QED BY <1>1, ReplyInvariant, PTL DEF ChannelSpec, ReplyMatches, allvars
=============================================================================
