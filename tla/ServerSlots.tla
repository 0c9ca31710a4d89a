---------------------------- MODULE ServerSlots ----------------------------
(***************************************************************************)
(* The QuakeWorld server's table of clients, svs.clients: how a connect    *)
(* packet takes a slot, how packets find theirs, and how a slot becomes    *)
(* free again (qw/source/sv_main.c); and the clients that connect, give    *)
(* up, connect anew or are started again (cl_main.c).                      *)
(*                                                                         *)
(* An entry is searched by address, first match first: a connect packet    *)
(* looks for its address and port or its qport, any other packet for its   *)
(* address and qport.  A client program has an address of its own, and a   *)
(* qport that it draws when it starts (Netchan_Init).                      *)
(*                                                                         *)
(* A connection's sequence numbers are abstracted to what a channel has    *)
(* accepted last: a packet of the client's present connection or one of an *)
(* earlier.  Which of two packets of different connections has the higher  *)
(* number, and so whether the later one is stale, is left open.  Challenges*)
(* are one per address and last, bans, passwords and the flood test only   *)
(* refuse: they are left out, as are the slots the progs take (cs_server). *)
(***************************************************************************)
EXTENDS Integers, FiniteSets

CONSTANTS
    Clients,         \* the client programs, each with its address
    NoClient,
    MAX_CLIENTS,
    maxclients,
    MaxUserActions   \* bound: how often the user of a client intervenes

ASSUME SlotsAssumption == MAX_CLIENTS \in Nat /\ maxclients \in 1..MAX_CLIENTS
ASSUME UserAssumption  == MaxUserActions \in Nat /\ NoClient \notin Clients

Slots == 1..MAX_CLIENTS
Runs == 0..MaxUserActions     \* of a client program: its qports

VARIABLES
    clients,         \* svs.clients
    num_clients,     \* svs.num_clients
    cstate,          \* cls.state
    connecting,      \* connect_time # -1
    run,             \* the client program's qport
    interventions,   \* what its user has done so far
    connects,        \* connect packets on their way
    connections,     \* clients that S2C_CONNECTION is on its way to
    goodbyes,        \* clients that a zombie's svc_disconnect is on its way to
    earlier          \* ended connections of which packets may yet arrive, and
                     \* what they sent last

server  == <<clients, num_clients>>
client  == <<cstate, connecting, run, interventions>>
network == <<connects, connections, goodbyes, earlier>>
vars    == <<server, client, network>>

(* client_t: state, netchan.remote_address, netchan.qport, and which       *)
(* connection of the client the last packet was of that netchan accepted.  *)
(* What a free entry holds is never looked at.                             *)
Live == {"connected", "spawned"}
Entry == [state : {"free", "zombie"} \cup Live,
          remote : Clients \cup {NoClient}, qport : Runs,
          heard : {"nothing", "present", "earlier"}]
Free == [state |-> "free", remote |-> NoClient, qport |-> 0, heard |-> "nothing"]

Connects == [from : Clients, qport : Runs]
Packets == [from : Clients, qport : Runs, last : {"move", "drop"}]

TypeOK ==
    /\ clients \in [Slots -> Entry]
    /\ num_clients \in Int
    /\ cstate \in [Clients -> {"disconnected", "connected"}]
    /\ connecting \in [Clients -> BOOLEAN]
    /\ run \in [Clients -> Runs] /\ interventions \in [Clients -> Runs]
    /\ connects \subseteq Connects /\ earlier \subseteq Packets
    /\ connections \subseteq Clients /\ goodbyes \subseteq Clients

Init ==
    /\ clients = [s \in Slots |-> Free]
    /\ num_clients = 0
    /\ cstate = [c \in Clients |-> "disconnected"]
    /\ connecting = [c \in Clients |-> TRUE]
    /\ run = [c \in Clients |-> 0] /\ interventions = [c \in Clients |-> 0]
    /\ connects = {} /\ connections = {} /\ goodbyes = {} /\ earlier = {}

----------------------------------------------------------------------------
(* The table *)

IsFree(s) == clients[s].state = "free"
IsLive(s) == clients[s].state \in Live
Taken == {s \in Slots : ~IsFree(s)}
Of(c) == {s \in Taken : clients[s].remote = c}
ForPacket(c, q) == {s \in Of(c) : clients[s].qport = q}
First(slots) == CHOOSE s \in slots : \A t \in slots : s <= t

(* SV_DropClient: the entry is kept for zombietime.  What its channel will *)
(* accept does not matter any more.                                        *)
Dropped(s) == [clients EXCEPT ![s].state = "zombie", ![s].heard = "nothing"]

(* SV_AllocClient: there is an entry, and fewer than maxclients are taken, *)
(* zombies included.                                                       *)
Room == Cardinality(Taken) < maxclients

----------------------------------------------------------------------------
(* SVC_DirectConnect.  The network may bring the packet again.             *)

ConnectPacket(p) ==
    /\ p \in connects
    /\ connects' \in {connects, connects \ {p}}
    /\ UNCHANGED <<client, goodbyes, earlier>>

(* "dup connect": whoever it was that has the slot, it is not in the game. *)
Duplicate(c) == Of(c) # {} /\ clients[First(Of(c))].state = "connected"

DupConnect(p) ==
    /\ ConnectPacket(p)
    /\ Duplicate(p.from)
    /\ UNCHANGED <<server, connections>>

Reconnected_KeepsOld(c) == clients

(* "if there is already a slot for this ip, drop it"                       *)
Reconnected(c) == IF Of(c) = {} THEN clients ELSE Dropped(First(Of(c)))

FullConnect(p) ==
    /\ ConnectPacket(p)
    /\ ~Duplicate(p.from) /\ ~Room
    /\ clients' = Reconnected(p.from)
    /\ UNCHANGED <<num_clients, connections>>

(* S2C_CONNECTION is sent once, and may get lost.                          *)
NewConnect(p, arrives) ==
    /\ ConnectPacket(p)
    /\ ~Duplicate(p.from) /\ Room
    /\ clients' = [Reconnected(p.from) EXCEPT ![First(Slots \ Taken)] =
           [state |-> "connected", remote |-> p.from, qport |-> p.qport,
            heard |-> "nothing"]]
    /\ num_clients' = num_clients + 1
    /\ connections' = IF arrives THEN connections \cup {p.from} ELSE connections

----------------------------------------------------------------------------
(* SV_ReadPackets, for a packet that the channel of the first entry with   *)
(* its address and qport accepts.                                          *)

(* A zombie's channel only sends what is left in it: svc_disconnect.       *)
ReadByZombie(c, q) ==
    /\ ForPacket(c, q) # {}
    /\ clients[First(ForPacket(c, q))].state = "zombie"
    /\ goodbyes' = goodbyes \cup {c}
    /\ UNCHANGED <<server, client, connects, connections, earlier>>

ReadByLive(c, q, op, connection) ==
    /\ ForPacket(c, q) # {}
    /\ LET s == First(ForPacket(c, q)) IN
       /\ IsLive(s)
       /\ \/ op = "drop" /\ clients' = Dropped(s)
          \/ op = "move" /\ \E st \in {clients[s].state, "spawned"} :
                clients' = [clients EXCEPT ![s].state = st, ![s].heard = connection]
    /\ UNCHANGED <<num_clients, client, network>>

(* A move may complete the sign-on.                                        *)
ReadPresent(c) ==
    /\ cstate[c] = "connected"
    /\ ReadByZombie(c, run[c]) \/ ReadByLive(c, run[c], "move", "present")

ReadEarlier(p) ==
    /\ p \in earlier
    /\ \/ ReadByZombie(p.from, p.qport)
       \/ \E op \in {"move", p.last} : ReadByLive(p.from, p.qport, op, "earlier")

----------------------------------------------------------------------------
(* Other ends of a connection on the server *)

TimeOut_AsZombie(s) ==
    /\ IsLive(s)
    /\ clients' = Dropped(s)
    /\ num_clients' = num_clients - 1
    /\ UNCHANGED <<client, network>>

TimeOut_OnlySpawned(s) ==
    /\ clients[s].state = "spawned"
    /\ clients' = [clients EXCEPT ![s] = Free]
    /\ num_clients' = num_clients - 1
    /\ UNCHANGED <<client, network>>

(* SV_CheckTimeouts, in turn for an entry that is in use and for a zombie. *)
TimeOut(s) ==
    /\ IsLive(s)
    /\ clients' = [clients EXCEPT ![s] = Free]
    /\ num_clients' = num_clients - 1
    /\ UNCHANGED <<client, network>>

ZombieEnds(s) ==
    /\ clients[s].state = "zombie"
    /\ clients' = [clients EXCEPT ![s] = Free]
    /\ num_clients' = num_clients - 1
    /\ UNCHANGED <<client, network>>

(* The server drops a client: overflow, the kick command, the progs.       *)
Kick(s) ==
    /\ IsLive(s)
    /\ clients' = Dropped(s)
    /\ UNCHANGED <<num_clients, client, network>>

(* A change of level takes the players out of the game.                    *)
SV_SaveSpawnparms ==
    /\ \E s \in Slots : clients[s].state = "spawned"
    /\ clients' = [s \in Slots |->
           IF clients[s].state = "spawned"
           THEN [clients[s] EXCEPT !.state = "connected"] ELSE clients[s]]
    /\ UNCHANGED <<num_clients, client, network>>

----------------------------------------------------------------------------
(* The client *)

(* CL_CheckForResend each five seconds, and CL_SendConnectPacket for the   *)
(* challenge that comes back.                                              *)
CL_SendConnectPacket(c) ==
    /\ cstate[c] = "disconnected" /\ connecting[c]
    /\ connects' = connects \cup {[from |-> c, qport |-> run[c]]}
    /\ UNCHANGED <<server, client, connections, goodbyes, earlier>>

(* S2C_CONNECTION: Netchan_Setup.                                          *)
CL_Connected(c) ==
    /\ c \in connections
    /\ connections' = connections \ {c}
    /\ cstate' = [cstate EXCEPT ![c] = "connected"]
    /\ UNCHANGED <<server, connecting, run, interventions, connects, goodbyes,
                   earlier>>

(* The present connection of a client, if there is one, becomes an earlier *)
(* one.                                                                    *)
Ended(c, op) ==
    /\ clients' = [s \in Slots |->
           IF clients[s].remote = c /\ clients[s].heard = "present"
           THEN [clients[s] EXCEPT !.heard = "earlier"] ELSE clients[s]]
    /\ earlier' = IF cstate[c] = "connected"
                  THEN earlier \cup {[from |-> c, qport |-> run[c], last |-> op]}
                  ELSE earlier
    /\ cstate' = [cstate EXCEPT ![c] = "disconnected"]

CL_Disconnect(c) ==
    /\ Ended(c, "drop")
    /\ connecting' = [connecting EXCEPT ![c] = FALSE]
    /\ UNCHANGED <<num_clients, run, interventions>>

(* svc_disconnect, from a zombie's channel: Host_EndGame.                  *)
CL_EndGame(c) ==
    /\ c \in goodbyes /\ cstate[c] = "connected"
    /\ goodbyes' = goodbyes \ {c}
    /\ CL_Disconnect(c)
    /\ UNCHANGED <<connects, connections>>

(* cl_timeout                                                              *)
CL_TimeOut(c) ==
    /\ cstate[c] = "connected"
    /\ CL_Disconnect(c)
    /\ UNCHANGED <<connects, connections, goodbyes>>

Intervene(c) ==
    /\ interventions[c] < MaxUserActions
    /\ interventions' = [interventions EXCEPT ![c] = @ + 1]
    /\ connecting' = [connecting EXCEPT ![c] = TRUE]
    /\ UNCHANGED <<num_clients, connects, connections, goodbyes>>

(* CL_Connect_f: CL_Disconnect and CL_BeginServerConnect.                  *)
CL_Connect_f(c) == Intervene(c) /\ Ended(c, "drop") /\ UNCHANGED run

(* The program crashes, is started again and connects, with a new qport.   *)
Restart(c) ==
    Intervene(c) /\ Ended(c, "move") /\ run' = [run EXCEPT ![c] = @ + 1]

----------------------------------------------------------------------------
(* External: a packet that is still on its way, or comes again, gets lost. *)
Lose(p) ==
    /\ p \in connects \cup earlier
    /\ connects' = connects \ {p} /\ earlier' = earlier \ {p}
    /\ UNCHANGED <<server, client, connections, goodbyes>>

----------------------------------------------------------------------------
Server == \/ \E p \in connects : DupConnect(p) \/ FullConnect(p)
                                 \/ \E arrives \in BOOLEAN : NewConnect(p, arrives)
          \/ \E c \in Clients : ReadPresent(c)
          \/ \E p \in earlier : ReadEarlier(p)
          \/ \E s \in Slots : TimeOut(s) \/ ZombieEnds(s) \/ Kick(s)
          \/ SV_SaveSpawnparms
Client(c) == \/ CL_SendConnectPacket(c) \/ CL_Connected(c) \/ CL_EndGame(c)
             \/ CL_TimeOut(c) \/ CL_Connect_f(c) \/ Restart(c)
Next == \/ Server
        \/ \E c \in Clients : Client(c)
        \/ \E p \in connects \cup earlier : Lose(p)

Spec == Init /\ [][Next]_vars

(* The client's packets come to a live entry, which accepts them.          *)
Heard(c) ==
    /\ cstate[c] = "connected" /\ ForPacket(c, run[c]) # {}
    /\ IsLive(First(ForPacket(c, run[c])))
    /\ clients[First(ForPacket(c, run[c]))].heard = "present"

(* The first entry with the client's address accepts a packet of its       *)
(* connection, having accepted none of an earlier.                         *)
FirstContact(c) ==
    /\ ReadPresent(c) /\ Heard(c)'
    /\ clients[First(ForPacket(c, run[c]))].heard # "earlier"

(* The network is fair to a new connection: not every S2C_CONNECTION gets  *)
(* lost, nor every packet to a channel that accepted none of another; and  *)
(* it does not bring the same packet again for ever.                       *)
(* Zombies end; a live entry whose client is not heard, and a client that  *)
(* is not, time out.                                                       *)
Fairness ==
    /\ \A c \in Clients :
          /\ WF_vars(CL_SendConnectPacket(c)) /\ WF_vars(CL_Connected(c))
          /\ SF_vars(NewConnect([from |-> c, qport |-> run[c]], TRUE))
          /\ WF_vars(FirstContact(c))
          /\ WF_vars(CL_TimeOut(c) /\ ~Heard(c))
    /\ \A p \in Connects \cup Packets : WF_vars(Lose(p))
    /\ \A s \in Slots :
          /\ WF_vars(ZombieEnds(s))
          /\ WF_vars(/\ TimeOut(s)
                     /\ LET c == clients[s].remote IN
                        ~(Heard(c) /\ s = First(ForPacket(c, run[c]))))

FairSpec == Spec /\ Fairness

----------------------------------------------------------------------------
(* svs.num_clients is the number of entries that are not free: by it the   *)
(* server decides whether it may sleep on its input (sv_sys_unix.c:132).   *)
CountRight == num_clients = Cardinality(Taken)

(* SVC_DirectConnect, "if there is already a slot for this ip, drop it": a *)
(* connect packet leaves its client with one live entry, unless a zombie   *)
(* of the client comes first in the table and hides the others.            *)
LiveOf(c) == {s \in Of(c) : IsLive(s)}
SecondOnlyBehindZombie ==
    [][\A c \in Clients :
          Cardinality(LiveOf(c)') > Cardinality(LiveOf(c)) /\ LiveOf(c) # {}
          => clients[First(Of(c))].state = "zombie"]_vars

(* A client that tries to connect is heard by the server in the end, or    *)
(* gives up: neither a lost S2C_CONNECTION, after which its connects are   *)
(* "dup", nor an entry left by a crash keeps it out for ever.              *)
GetsIn ==
    \A c \in Clients :
        cstate[c] = "disconnected" /\ connecting[c] ~> Heard(c) \/ ~connecting[c]
=============================================================================
