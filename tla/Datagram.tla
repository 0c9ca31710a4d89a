------------------------------ MODULE Datagram ------------------------------
(***************************************************************************)
(* NetQuake's reliable messages over datagrams (libs/net/nm/net_dgrm.c).   *)
(* A message is cut into fragments of MAX_DATAGRAM bytes; one fragment at  *)
(* a time is on its way, under a number of its own, sent again each second *)
(* until its number is acknowledged.  Unreliable messages are numbered     *)
(* separately and never repeated.                                          *)
(*                                                                         *)
(* Data.  A fragment is the pair of the message it belongs to (the end's   *)
(* first, second, ...) and its place in it.  sendMessage holds the         *)
(* fragments not yet acknowledged, so sendMessageLength is its length.     *)
(* What an unreliable message says is its number.                          *)
(*                                                                         *)
(* Network.  packets[e] is what e's Write calls sent and is still on its   *)
(* way: a packet may be lost, overtaken, and read more than once.          *)
(*                                                                         *)
(* Time.  Whether a second has passed since lastSendTime is left open.     *)
(***************************************************************************)
EXTENDS Integers, Sequences

CONSTANTS
    Client, Server, \* the two ends
    MaxMessages,    \* bound: reliable messages end e hands over
    MaxParts,       \* bound: fragments of a message of end e (32 in the code)
    MaxUnreliable   \* bound: unreliable messages end e sends

Ends == {Client, Server}

ASSUME EndsAssumption  == Client # Server
ASSUME BoundAssumption == /\ MaxMessages \in [Ends -> Nat]
                          /\ MaxParts \in [Ends -> Nat \ {0}]
                          /\ MaxUnreliable \in [Ends -> Nat]

Peer(e) == IF e = Client THEN Server ELSE Client

Fragment == [msg : Nat, part : Nat]
Text(k, n) == [i \in 1..n |-> [msg |-> k, part |-> i]]
Messages(e) == {Text(k, n) : k \in 1..MaxMessages[e], n \in 1..MaxParts[e]}

Data == [flag : {"data"}, sequence : Nat, frag : Fragment, eom : BOOLEAN]
Ack == [flag : {"ack"}, sequence : Nat]
Unreliable == [flag : {"unreliable"}, sequence : Nat]

VARIABLES
    sendMessage,                        \* fragments not acknowledged
    canSend, sendNext,
    sendSequence, ackSequence,
    receiveSequence, receiveMessage,
    unreliableSendSequence, unreliableReceiveSequence,
    call,       \* an end is in GetMessage's loop, or GetMessage returned -1
    packets,
    accepted,   \* history: messages SendMessage took
    delivered,  \* history: messages GetMessage returned with 1
    numbered    \* history: the fragments of accepted, in order

sendvars == <<sendMessage, canSend, sendNext, sendSequence, ackSequence>>
recvars == <<receiveSequence, receiveMessage, delivered>>
unrelvars == <<unreliableSendSequence, unreliableReceiveSequence>>
history == <<accepted, numbered>>
vars == <<sendvars, recvars, unrelvars, call, packets, history>>

TypeOK ==
    /\ sendMessage \in [Ends -> Seq(Fragment)]
    /\ canSend \in [Ends -> BOOLEAN]
    /\ sendNext \in [Ends -> BOOLEAN]
    /\ sendSequence \in [Ends -> Nat]
    /\ ackSequence \in [Ends -> Nat]
    /\ receiveSequence \in [Ends -> Nat]
    /\ receiveMessage \in [Ends -> Seq(Fragment)]
    /\ unreliableSendSequence \in [Ends -> Nat]
    /\ unreliableReceiveSequence \in [Ends -> Nat]
    /\ call \in [Ends -> {"none", "reading", "failed"}]
    /\ packets \in [Ends -> SUBSET (Data \cup Ack \cup Unreliable)]
    /\ accepted \in [Ends -> Seq(Seq(Fragment))]
    /\ delivered \in [Ends -> Seq(Seq(Fragment))]
    /\ numbered \in [Ends -> Seq(Fragment)]

Init ==     \* NET_NewQSocket
    /\ sendMessage = [e \in Ends |-> <<>>]
    /\ canSend = [e \in Ends |-> TRUE]
    /\ sendNext = [e \in Ends |-> FALSE]
    /\ sendSequence = [e \in Ends |-> 0]
    /\ ackSequence = [e \in Ends |-> 0]
    /\ receiveSequence = [e \in Ends |-> 0]
    /\ receiveMessage = [e \in Ends |-> <<>>]
    /\ unreliableSendSequence = [e \in Ends |-> 0]
    /\ unreliableReceiveSequence = [e \in Ends |-> 0]
    /\ call = [e \in Ends |-> "none"]
    /\ packets = [e \in Ends |-> {}]
    /\ accepted = [e \in Ends |-> <<>>]
    /\ delivered = [e \in Ends |-> <<>>]
    /\ numbered = [e \in Ends |-> <<>>]

----------------------------------------------------------------------------
(* External: the network, from e's side.  Of the packets an end writes any *)
(* may get lost; one it reads may come again.                              *)
Network(e, in, out) ==
    \E again \in SUBSET in, through \in SUBSET out :
        packets' = [packets EXCEPT ![Peer(e)] = (@ \ in) \cup again,
                                   ![e] = @ \cup through]

----------------------------------------------------------------------------
(* Sending *)

(* The packet that carries the first fragment of m.                        *)
DataPacket(m, sequence) ==
    [flag |-> "data", sequence |-> sequence, frag |-> m[1], eom |-> Len(m) <= 1]

SendMessage(e) ==
    /\ call[e] = "none"
    /\ canSend[e]
    /\ Len(accepted[e]) < MaxMessages[e]
    /\ \E n \in 1..MaxParts[e] :
          LET m == Text(Len(accepted[e]) + 1, n) IN
          /\ sendMessage' = [sendMessage EXCEPT ![e] = m]
          /\ Network(e, {}, {DataPacket(m, sendSequence[e])})
          /\ accepted' = [accepted EXCEPT ![e] = Append(@, m)]
          /\ numbered' = [numbered EXCEPT ![e] = @ \o m]
    /\ sendSequence' = [sendSequence EXCEPT ![e] = @ + 1]
    /\ canSend' = [canSend EXCEPT ![e] = FALSE]
    /\ UNCHANGED <<sendNext, ackSequence, recvars, unrelvars, call>>

(* SendMessageNext, where it is called if sendNext is set; NextPacket is   *)
(* what it writes.                                                         *)
NextPacket(e) ==
    IF sendNext[e] THEN {DataPacket(sendMessage[e], sendSequence[e])} ELSE {}

SendMessageNext(e) ==
    /\ sendSequence' =
           [sendSequence EXCEPT ![e] = IF sendNext[e] THEN @ + 1 ELSE @]
    /\ sendNext' = [sendNext EXCEPT ![e] = FALSE]

SendUnreliableMessage(e) ==
    /\ call[e] = "none"
    /\ unreliableSendSequence[e] < MaxUnreliable[e]
    /\ Network(e, {}, {[flag |-> "unreliable",
                        sequence |-> unreliableSendSequence[e]]})
    /\ unreliableSendSequence' = [unreliableSendSequence EXCEPT ![e] = @ + 1]
    /\ UNCHANGED <<sendvars, recvars, unreliableReceiveSequence, call, history>>

(* Asked before every SendMessage; it only changes anything when a failed  *)
(* GetMessage left a fragment to send.                                     *)
CanSendMessage(e) ==
    /\ call[e] = "failed"
    /\ Network(e, {}, NextPacket(e))
    /\ SendMessageNext(e)
    /\ call' = [call EXCEPT ![e] = "none"]
    /\ UNCHANGED <<sendMessage, canSend, ackSequence, recvars, unrelvars, history>>

----------------------------------------------------------------------------
(* GetMessage *)

(* A call begins; after a second ReSendMessage repeats the fragment that   *)
(* is on its way.                                                          *)
GetMessage(e) ==
    /\ call[e] = "none"
    /\ call' = [call EXCEPT ![e] = "reading"]
    /\ UNCHANGED <<sendvars, recvars, unrelvars, packets, history>>

ReSendNumber(e) == sendSequence[e] - 1

ReSendMessage(e) == DataPacket(sendMessage[e], ReSendNumber(e))

GetMessageResend(e) ==
    /\ call[e] = "none"
    /\ ~canSend[e]
    /\ Network(e, {}, {ReSendMessage(e)})
    /\ sendNext' = [sendNext EXCEPT ![e] = FALSE]
    /\ call' = [call EXCEPT ![e] = "reading"]
    /\ UNCHANGED <<sendMessage, canSend, sendSequence, ackSequence, recvars,
                   unrelvars, history>>

(* The way out of the loop when nothing is left to read, and after a       *)
(* message: a fragment that became due is sent now.                        *)
ReadNothing(e) ==
    /\ call[e] = "reading"
    /\ Network(e, {}, NextPacket(e))
    /\ SendMessageNext(e)
    /\ call' = [call EXCEPT ![e] = "none"]
    /\ UNCHANGED <<sendMessage, canSend, ackSequence, recvars, unrelvars, history>>

(* Read failed: the caller drops the connection, or goes on with           *)
(* CanSendMessage (NET_SendToAll, Host_ShutdownServer).                    *)
ReadFails(e) ==
    /\ call[e] = "reading"
    /\ call' = [call EXCEPT ![e] = "failed"]
    /\ UNCHANGED <<sendvars, recvars, unrelvars, packets, history>>

ReadUnreliable(e, p) ==
    /\ call[e] = "reading"
    /\ p.flag = "unreliable"
    /\ unreliableReceiveSequence' = [unreliableReceiveSequence EXCEPT
           ![e] = IF p.sequence < @ THEN @ ELSE p.sequence + 1]
    /\ Network(e, {p}, NextPacket(e))
    /\ SendMessageNext(e)
    /\ call' = [call EXCEPT ![e] = "none"]
    /\ UNCHANGED <<sendMessage, canSend, ackSequence, recvars,
                   unreliableSendSequence, history>>

AckCurrent_Twice(e, p) == p.sequence = sendSequence[e] - 1
AckCurrent(e, p) ==
    /\ p.sequence = sendSequence[e] - 1
    /\ p.sequence = ackSequence[e]

ReadAck(e, p) ==
    /\ call[e] = "reading"
    /\ p.flag = "ack"
    /\ AckCurrent(e, p)
    /\ Network(e, {p}, {})
    /\ ackSequence' = [ackSequence EXCEPT ![e] = @ + 1]
    /\ sendMessage' = [sendMessage EXCEPT ![e] = SubSeq(@, 2, Len(@))]
    /\ IF Len(sendMessage[e]) > 1
       THEN /\ sendNext' = [sendNext EXCEPT ![e] = TRUE]
            /\ UNCHANGED canSend
       ELSE /\ canSend' = [canSend EXCEPT ![e] = TRUE]
            /\ UNCHANGED sendNext
    /\ UNCHANGED <<sendSequence, recvars, unrelvars, call, history>>

(* A stale or repeated acknowledgement is skipped.                         *)
ReadOldAck(e, p) ==
    /\ call[e] = "reading"
    /\ p.flag = "ack"
    /\ ~AckCurrent(e, p)
    /\ Network(e, {p}, {})
    /\ UNCHANGED <<sendvars, recvars, unrelvars, call, history>>

Expected_Any(e, p) == TRUE
Expected(e, p) == p.sequence = receiveSequence[e]

(* Every fragment is acknowledged, new or not.                             *)
AckOf(p) == {[flag |-> "ack", sequence |-> p.sequence]}

ReadPart(e, p) ==
    /\ call[e] = "reading"
    /\ p.flag = "data" /\ ~p.eom
    /\ Expected(e, p)
    /\ Network(e, {p}, AckOf(p))
    /\ receiveSequence' = [receiveSequence EXCEPT ![e] = @ + 1]
    /\ receiveMessage' = [receiveMessage EXCEPT ![e] = Append(@, p.frag)]
    /\ UNCHANGED <<sendvars, delivered, unrelvars, call, history>>

(* The last fragment: the message is handed up and the call ends.          *)
ReadLast(e, p) ==
    /\ call[e] = "reading"
    /\ p.flag = "data" /\ p.eom
    /\ Expected(e, p)
    /\ Network(e, {p}, AckOf(p) \cup NextPacket(e))
    /\ receiveSequence' = [receiveSequence EXCEPT ![e] = @ + 1]
    /\ delivered' = [delivered EXCEPT ![e] =
                         Append(@, Append(receiveMessage[e], p.frag))]
    /\ receiveMessage' = [receiveMessage EXCEPT ![e] = <<>>]
    /\ SendMessageNext(e)
    /\ call' = [call EXCEPT ![e] = "none"]
    /\ UNCHANGED <<sendMessage, canSend, ackSequence, unrelvars, history>>

RepeatAnswer_None(p) == {}
RepeatAnswer(p) == AckOf(p)

ReadRepeat(e, p) ==
    /\ call[e] = "reading"
    /\ p.flag = "data"
    /\ ~Expected(e, p)
    /\ Network(e, {p}, RepeatAnswer(p))
    /\ UNCHANGED <<sendvars, recvars, unrelvars, call, history>>

----------------------------------------------------------------------------

Read(e, p) ==
    \/ ReadUnreliable(e, p)
    \/ ReadAck(e, p)
    \/ ReadOldAck(e, p)
    \/ ReadPart(e, p)
    \/ ReadLast(e, p)
    \/ ReadRepeat(e, p)

Next ==
    \E e \in Ends :
        \/ SendMessage(e)
        \/ SendUnreliableMessage(e)
        \/ CanSendMessage(e)
        \/ GetMessage(e)
        \/ GetMessageResend(e)
        \/ ReadNothing(e)
        \/ ReadFails(e)
        \/ \E p \in packets[Peer(e)] : Read(e, p)

Spec == Init /\ [][Next]_vars

(* An end calls GetMessage each frame and the call returns; a failed call  *)
(* is followed by CanSendMessage.  Seconds pass, so calls that begin with  *)
(* a resend come again and again, and not every resend, nor every answer   *)
(* to one, is lost.  A packet that reached the socket is read; the last    *)
(* three conditions say so of the packets a sender can be waiting for.     *)
Fairness ==
    \A e \in Ends :
        /\ WF_vars(GetMessage(e))
        /\ WF_vars(ReadNothing(e))
        /\ WF_vars(CanSendMessage(e))
        /\ SF_vars(GetMessageResend(e) /\ ReSendMessage(e) \in packets'[e])
        /\ SF_vars(\E p \in packets[Peer(e)] : ReadAck(e, p))
        /\ SF_vars(\E p \in packets[Peer(e)] : ReadPart(e, p) \/ ReadLast(e, p))
        /\ SF_vars(\E p \in packets[Peer(e)] :
               /\ ReadRepeat(e, p) /\ p.sequence = receiveSequence[e] - 1
               /\ AckOf(p) \subseteq packets'[e])

FairSpec == Spec /\ Fairness

----------------------------------------------------------------------------
(* Properties *)

(* The message e sent last, and how many fragments came before it.         *)
Current(e) == IF accepted[e] = <<>> THEN <<>> ELSE accepted[e][Len(accepted[e])]
Base(e) == Len(numbered[e]) - Len(Current(e))

SenderInv(e) ==
    /\ IF canSend[e] THEN sendMessage[e] = <<>> /\ ~sendNext[e]
                     ELSE sendMessage[e] # <<>> /\ accepted[e] # <<>>
    /\ sendSequence[e] = IF canSend[e] \/ sendNext[e] THEN ackSequence[e]
                                                      ELSE ackSequence[e] + 1
    /\ call[e] = "none" => ~sendNext[e]
    /\ Len(numbered[e]) = ackSequence[e] + Len(sendMessage[e])
    /\ \A i \in 1..Len(sendMessage[e]) :
          sendMessage[e][i] = numbered[e][ackSequence[e] + i]
    /\ Base(e) >= 0 /\ Base(e) <= ackSequence[e]
    /\ \A i \in 1..Len(Current(e)) : Current(e)[i] = numbered[e][Base(e) + i]

ReceiverInv(e, r) ==
    /\ ackSequence[e] <= receiveSequence[r]
    /\ receiveSequence[r] <= sendSequence[e]
    /\ IF receiveSequence[r] = Len(numbered[e])
       THEN delivered[r] = accepted[e] /\ receiveMessage[r] = <<>>
       ELSE /\ delivered[r] = SubSeq(accepted[e], 1, Len(accepted[e]) - 1)
            /\ Len(receiveMessage[r]) = receiveSequence[r] - Base(e)
            /\ \A i \in 1..Len(receiveMessage[r]) :
                  receiveMessage[r][i] = Current(e)[i]

InFlightInv(e, r) ==
    /\ \A p \in packets[e] : p.flag = "data" =>
          /\ p.sequence < sendSequence[e]
          /\ p.frag = numbered[e][p.sequence + 1]
          /\ p.sequence >= Base(e) =>
                (p.eom <=> p.sequence + 1 = Len(numbered[e]))
    /\ \A p \in packets[r] : p.flag = "ack" => p.sequence < receiveSequence[r]

(* SendMessage, SendMessageNext, ReSendMessage, GetMessage: the send       *)
(* buffer is what follows the acknowledged fragments, the receive buffer   *)
(* the part of the last message that arrived, a packet carries the         *)
(* fragment its number stands for and says rightly whether it is the last  *)
(* of its message, and only fragments that arrived are acknowledged; no    *)
(* call of GetMessage begins with a fragment still to be sent, which a     *)
(* resend would send under the number of the one before.                   *)
StreamInv ==
    \A e \in Ends :
        SenderInv(e) /\ ReceiverInv(e, Peer(e)) /\ InFlightInv(e, Peer(e))

(* SendMessage, GetMessage: the sender is at most one fragment ahead of    *)
(* the receiver and knows every fragment that arrived but the newest: the  *)
(* number ReSendMessage derives, sendSequence - 1, is the one outstanding. *)
OneFragmentOut ==
    \A e \in Ends :
        /\ ackSequence[e] <= receiveSequence[Peer(e)]
        /\ receiveSequence[Peer(e)] <= sendSequence[e]
        /\ sendSequence[e] <= ackSequence[e] + 1

(* ReSendMessage: however often a fragment is sent again and whatever is   *)
(* acknowledged meanwhile, a number always names the same fragment.        *)
NumberNamesFragment ==
    \A e \in Ends : \A p \in packets[e] :
        p.flag = "data" =>
            /\ p.sequence < sendSequence[e]
            /\ p.frag = numbered[e][p.sequence + 1]

(* The abstract stream in each direction: messages arrive exactly once,    *)
(* whole and in order, the sender can send again only after its message    *)
(* arrived; and, packets being lost, repeated and reordered, every message *)
(* arrives and every sender can send again.                                *)
ToServer == INSTANCE ReliableStream WITH
    Message <- Messages(Client), ready <- canSend[Client],
    sent <- accepted[Client], received <- delivered[Server]

ToClient == INSTANCE ReliableStream WITH
    Message <- Messages(Server), ready <- canSend[Server],
    sent <- accepted[Server], received <- delivered[Client]

ImplementsToServer == ToServer!FairSpec
ImplementsToClient == ToClient!FairSpec
=============================================================================
