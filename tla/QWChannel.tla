----------------------------- MODULE QWChannel -----------------------------
(***************************************************************************)
(* One QuakeWorld connection: the network channel as the client's and the  *)
(* server's frame loops really drive it, from the server's acceptance      *)
(* until the slot is freed or the server exits.  Netchan lets both ends    *)
(* send at any time; here the client sends one packet per frame once it    *)
(* has heard S2C_CONNECTION, unless pps_check withholds it, and the server *)
(* answers the packets it accepted.  Two things make it send unasked: the  *)
(* drop of a client whose reliable messages overflowed, and its own exit.  *)
(***************************************************************************)
EXTENDS Netchan

CONSTANTS
    MaxDrops,   \* packets pps_check withholds in a row at most, 2
    MaxForced   \* bound: packets the server sends unasked

ASSUME DropsAssumption == MaxDrops \in Nat /\ MaxForced \in Nat

VARIABLES
    connected,      \* cls.state >= ca_connected
    dropcount,      \* pps_check's count of packets withheld in a row
    send_message,   \* the server owes this client a reply
    zombie,         \* the server dropped the client: cs_zombie
    overflow,       \* where SV_SendClientMessages is in an overflow's drop:
                    \* "none", "cleared" or "dropped"
    exited,         \* the server sent its final message and is gone
    forced          \* history: numbers of the packets nobody asked for

clientvars == <<connected, dropcount>>
servervars == <<send_message, zombie, overflow, exited, forced>>
policyvars == <<clientvars, servervars>>

ChannelInit ==      \* SVC_DirectConnect
    /\ Init
    /\ connected = FALSE
    /\ dropcount = 0
    /\ send_message = FALSE
    /\ zombie = FALSE
    /\ overflow = "none"
    /\ exited = FALSE
    /\ forced = {}

(* Netchan_Transmit sends nothing once chan->message has overflowed.       *)
TryTransmit(e) ==
    \/ Transmit(e)
    \/ overflowed[e] /\ UNCHANGED vars

----------------------------------------------------------------------------
(* The client *)

(* CL_ConnectionlessPacket, S2C_CONNECTION: queue "new"; repeats are       *)
(* ignored.                                                                *)
Connect ==
    /\ ~connected
    /\ connected' = TRUE
    /\ Write(Client)
    /\ UNCHANGED <<dropcount, servervars>>

ClientWrite ==
    /\ connected
    /\ Write(Client)
    /\ UNCHANGED policyvars

(* CL_ClearState, when a svc_serverdata arrives.                           *)
ClientClear ==
    /\ connected
    /\ Clear(Client)
    /\ UNCHANGED policyvars

ClientRead ==
    /\ connected
    /\ Process(Client)
    /\ UNCHANGED policyvars

(* CL_SendCmd, with pps_check's choice left open but for its limit.        *)
ClientSend ==
    /\ connected
    /\ TryTransmit(Client)
    /\ dropcount' = 0
    /\ UNCHANGED <<connected, servervars>>

ClientWithhold ==
    /\ connected
    /\ dropcount < MaxDrops
    /\ SkipPacket(Client)
    /\ dropcount' = dropcount + 1
    /\ UNCHANGED <<connected, servervars>>

----------------------------------------------------------------------------
(* The server *)

(* Not in the middle of an overflow's drop, and still running.             *)
Idle == overflow = "none" /\ ~exited

(* Prints reach zombies too, and from anywhere: SV_DropClient runs progs.  *)
ServerWrite ==
    /\ ~exited
    /\ Write(Server)
    /\ UNCHANGED policyvars

(* SV_New_f, SV_Soundlist_f and SV_Modellist_f for a client with blocks    *)
(* backed up, SV_Spawn_f for any.                                          *)
ServerClear ==
    /\ Idle
    /\ ~zombie
    /\ Clear(Server)
    /\ UNCHANGED policyvars

(* "don't reply, sequences have slipped" *)
Slipped(e) == incoming_sequence'[e] < outgoing_sequence[e]

(* SV_ReadPackets and, but for a zombie, SV_ExecuteClientMessage.          *)
ServerRead ==
    /\ Idle
    /\ IF zombie THEN Process(Server) /\ send_message' = TRUE
                 ELSE /\ ProcessAndMatch(Server)
                      /\ send_message' = ~Slipped(Server)
    /\ UNCHANGED <<clientvars, zombie, overflow, exited, forced>>

Drop_MakesRoom ==   \* gives up the message still unacknowledged
    /\ Idle
    /\ ~zombie
    /\ zombie' = TRUE
    /\ message[Server].to < MaxItems[Server]
    /\ message' = [message EXCEPT ![Server] = Append1(@)]
    /\ reliable_length' = [reliable_length EXCEPT ![Server] = 0]
    /\ UNCHANGED <<overflowed, sendvars, recvars, relvars, voided,
                   clientvars, send_message, overflow, exited, forced>>

(* SV_DropClient: one last reliable message, then a zombie.                *)
Drop ==
    /\ Idle
    /\ ~zombie
    /\ zombie' = TRUE
    /\ Write(Server)
    /\ UNCHANGED <<clientvars, send_message, overflow, exited, forced>>

Owed_Kept == TRUE
Owed == FALSE

(* SV_SendClientMessages: "send messages only if the client has sent one   *)
(* and the bandwidth is not choked"; a choked reply is given up, and so is *)
(* one that SV_UpdateClientStats has overflowed.                           *)
Reply ==
    /\ Idle
    /\ send_message
    /\ send_message' = Owed
    /\ TryTransmit(Server)
    /\ UNCHANGED <<clientvars, zombie, overflow, exited, forced>>

Choke ==
    /\ Idle
    /\ send_message
    /\ send_message' = Owed
    /\ UNCHANGED <<vars, clientvars, zombie, overflow, exited, forced>>

(* Netchan_Transmit, called without a packet of the client to answer.      *)
TransmitForced ==
    /\ Cardinality(forced) < MaxForced
    /\ TryTransmit(Server)
    /\ forced' = forced \cup
           {p.sequence : p \in packets'[Server] \ packets[Server]}

(* "if the reliable message overflowed, drop the client": discard, print,  *)
(* drop, and send at once, whether or not a packet of the client is        *)
(* unanswered.  A zombie whose message overflows goes through it again.    *)
OverflowClear ==
    /\ Idle
    /\ overflowed[Server]
    /\ Clear(Server)
    /\ overflow' = "cleared"
    /\ UNCHANGED <<clientvars, send_message, zombie, exited, forced>>

OverflowDrop ==
    /\ overflow = "cleared" /\ ~exited
    /\ Write(Server)
    /\ zombie' = TRUE
    /\ send_message' = TRUE
    /\ overflow' = "dropped"
    /\ UNCHANGED <<clientvars, exited, forced>>

OverflowSend ==
    /\ overflow = "dropped" /\ ~exited
    /\ TransmitForced
    /\ send_message' = Owed
    /\ overflow' = "none"
    /\ UNCHANGED <<clientvars, zombie, exited>>

(* SV_FinalMessage and SV_Restart_f: to live clients "the messages are     *)
(* sent immediately", then the process ends.                               *)
FinalMessage ==
    /\ ~exited
    /\ ~zombie
    /\ TransmitForced
    /\ exited' = TRUE
    /\ UNCHANGED <<clientvars, send_message, zombie, overflow>>

----------------------------------------------------------------------------
ChannelNext ==
    \/ Connect \/ ClientWrite \/ ClientClear \/ ClientRead
    \/ ClientSend \/ ClientWithhold
    \/ ServerWrite \/ ServerClear \/ ServerRead \/ Drop \/ Reply \/ Choke
    \/ OverflowClear \/ OverflowDrop \/ OverflowSend \/ FinalMessage

ChannelSpec == ChannelInit /\ [][ChannelNext]_<<vars, policyvars>>

----------------------------------------------------------------------------
(* What the server has sent and still owes, by the acknowledgements on it: *)
(* but for the forced packets one per packet accepted, none before the     *)
(* first, and numbered like it while the client is live.                   *)
MatchInv ==
    LET last == incoming_sequence[Server] IN
    /\ overflow = "dropped" => zombie
    /\ last = -1 /\ Idle => ~send_message
    /\ \A p \in packets[Server] :
          p.sequence \notin forced =>
              /\ p.sequence_ack <= last
              /\ send_message /\ Idle => p.sequence_ack < last
    /\ ~zombie /\ ~exited =>
          /\ outgoing_sequence[Server] <= last + 1
          /\ send_message => outgoing_sequence[Server] = last

(* Properties.  That both frame loops use the channel only in the ways     *)
(* Netchan allows is the refinement ChannelSpec => Spec.                   *)

(* SV_ExecuteClientMessage: "make sure the reply sequence number matches   *)
(* the incoming sequence number".  Whatever the client withheld and the    *)
(* network lost, a reply to a live client carries the number of the packet *)
(* it answers.                                                             *)
ReplyMatches ==
    [][Reply /\ ~zombie =>
          outgoing_sequence[Server] = incoming_sequence[Server]]_<<vars, policyvars>>

(* SV_SendClientMessages: "send messages only if the client has sent one". *)
(* The server answers a packet of the client at most once, zombie or not:  *)
(* two packets of its own with one acknowledgement mean that one of them   *)
(* was forced by an overflow or by the server's exit.                      *)
OneReplyPerPacket ==
    \A p, q \in packets[Server] :
        p.sequence_ack = q.sequence_ack =>
            p = q \/ p.sequence \in forced \/ q.sequence \in forced
=============================================================================
