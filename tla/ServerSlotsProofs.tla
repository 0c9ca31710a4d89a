------------------------- MODULE ServerSlotsProofs -------------------------
(* Proofs about ServerSlots, for any numbers of clients and slots: the     *)
(* count of entries is right, and when a client gets a second live entry.  *)
EXTENDS ServerSlots, FiniteSetTheorems, WellFoundedInduction, TLAPS

----------------------------------------------------------------------------
(* The table: First finds an entry, there is a free one if there is room,  *)
(* and the sets of entries are finite.                                     *)

LEMMA FirstIsOne ==
    ASSUME NEW slots \in SUBSET Slots, slots # {}
    PROVE  First(slots) \in slots
<1>1. slots \subseteq Nat
  BY SlotsAssumption DEF Slots
<1>2. PICK s \in slots : \A t \in slots : ~ (<<t, s>> \in OpToRel(<, Nat))
  BY <1>1, WFMin, NatLessThanWellFounded, Zenon
<1>3. \A t \in slots : <<t, s>> \in Nat \X Nat
  BY <1>1
<1>4. \A t \in slots : ~(t < s)
  BY <1>2, <1>3, Zenon DEF OpToRel
<1>5. \A t \in slots : s <= t
  BY <1>1, <1>4
<1>. QED  BY <1>5 DEF First

LEMMA SlotsFinite ==
    ASSUME NEW slots \in SUBSET Slots
    PROVE  IsFiniteSet(slots) /\ Cardinality(slots) \in Nat
<1>1. IsFiniteSet(Slots)
  BY SlotsAssumption, FS_Interval DEF Slots
<1>. QED  BY <1>1, FS_Subset, FS_CardinalityType

LEMMA RoomMeansFree ==
    ASSUME Room
    PROVE  Slots \ Taken # {}
<1>1. Cardinality(Slots) = MAX_CLIENTS
  BY SlotsAssumption, FS_Interval DEF Slots
<1>2. Taken \subseteq Slots
  BY DEF Taken
<1>3. CASE Slots \ Taken = {}
  <2>1. Taken = Slots
    BY <1>2, <1>3
  <2>. QED  BY <1>1, <2>1, SlotsAssumption DEF Room
<1>. QED  BY <1>3

----------------------------------------------------------------------------
(* Type correctness.  A program is started again at most as often as its   *)
(* user intervenes, which bounds its qports.                               *)

TypeInv == TypeOK /\ \A c \in Clients : run[c] <= interventions[c]

LEMMA DroppedTyped ==
    ASSUME TypeOK, NEW s
    PROVE  Dropped(s) \in [Slots -> Entry]
BY DEF TypeOK, Dropped, Entry

LEMMA ConnectTyped ==
    ASSUME TypeOK, NEW p, DupConnect(p) \/ FullConnect(p)
                          \/ \E arrives \in BOOLEAN : NewConnect(p, arrives)
    PROVE  TypeOK'
<1>1. p \in Connects
  BY DEF TypeOK, DupConnect, FullConnect, NewConnect, ConnectPacket
<1>2. connects' \subseteq Connects /\ UNCHANGED <<client, goodbyes, earlier>>
  BY DEF TypeOK, DupConnect, FullConnect, NewConnect, ConnectPacket
<1>3. Reconnected(p.from) \in [Slots -> Entry]
  BY DroppedTyped DEF Reconnected, TypeOK
<1>4. CASE DupConnect(p)
  BY <1>2, <1>4 DEF DupConnect, TypeOK, server, client
<1>5. CASE FullConnect(p)
  BY <1>2, <1>3, <1>5 DEF FullConnect, TypeOK, client
<1>6. CASE \E arrives \in BOOLEAN : NewConnect(p, arrives)
  <2>1. PICK arrives \in BOOLEAN : NewConnect(p, arrives)
    BY <1>6
  <2>2. [state |-> "connected", remote |-> p.from, qport |-> p.qport,
         heard |-> "nothing"] \in Entry
    BY <1>1 DEF Connects, Entry, Live
  <2>3. clients' \in [Slots -> Entry]
    BY <1>3, <2>1, <2>2 DEF NewConnect
  <2>4. num_clients' \in Int /\ connections' \subseteq Clients
    BY <1>1, <2>1 DEF NewConnect, TypeOK, Connects
  <2>. QED  BY <1>2, <2>3, <2>4 DEF TypeOK, client
<1>. QED  BY <1>4, <1>5, <1>6

LEMMA ReadTyped ==
    ASSUME TypeOK, NEW c \in Clients, NEW q, NEW op,
           NEW connection \in {"present", "earlier"},
           ReadByZombie(c, q) \/ ReadByLive(c, q, op, connection)
    PROVE  TypeOK'
<1>1. CASE ReadByZombie(c, q)
  BY <1>1 DEF ReadByZombie, TypeOK, server, client
<1>2. CASE ReadByLive(c, q, op, connection)
  <2>1. PICK s : /\ IsLive(s)
                 /\ \/ clients' = Dropped(s)
                    \/ \E st \in {clients[s].state, "spawned"} :
                          clients' = [clients EXCEPT ![s].state = st,
                                                     ![s].heard = connection]
    BY <1>2 DEF ReadByLive
  <2>2. clients' \in [Slots -> Entry]
    BY <2>1, DroppedTyped DEF TypeOK, Entry, IsLive, Live
  <2>. QED  BY <1>2, <2>2 DEF ReadByLive, TypeOK, client, network
<1>. QED  BY <1>1, <1>2

LEMMA TypeStep ==
    ASSUME TypeInv, [Next]_vars
    PROVE  TypeInv'
<1>. USE DEF TypeInv
<1>0. ASSUME UNCHANGED <<run, interventions>>, TypeOK' PROVE TypeInv'
  BY <1>0
<1>1. CASE UNCHANGED vars
  BY <1>1 DEF vars, server, client, network, TypeOK
<1>2. CASE \E p \in connects : DupConnect(p) \/ FullConnect(p)
                               \/ \E arrives \in BOOLEAN : NewConnect(p, arrives)
  <2>1. TypeOK'
    BY <1>2, ConnectTyped
  <2>. QED  BY <1>0, <1>2, <2>1
       DEF DupConnect, FullConnect, NewConnect, ConnectPacket, client
<1>3. CASE \E c \in Clients : ReadPresent(c)
  <2>1. TypeOK'
    BY <1>3, ReadTyped DEF ReadPresent
  <2>. QED  BY <1>0, <1>3, <2>1 DEF ReadPresent, ReadByZombie, ReadByLive, client
<1>4. CASE \E p \in earlier : ReadEarlier(p)
  <2>1. \A p \in earlier : p.from \in Clients
    BY DEF TypeOK, Packets
  <2>2. TypeOK'
    BY <1>4, <2>1, ReadTyped DEF ReadEarlier
  <2>. QED  BY <1>0, <1>4, <2>2 DEF ReadEarlier, ReadByZombie, ReadByLive, client
<1>5. CASE \E s \in Slots : TimeOut(s) \/ ZombieEnds(s) \/ Kick(s)
  <2>1. PICK s \in Slots : TimeOut(s) \/ ZombieEnds(s) \/ Kick(s)
    BY <1>5
  <2>2. NoClient \in Clients \cup {NoClient} /\ 0 \in Runs
    BY UserAssumption DEF Runs
  <2>3. Free \in Entry
    BY <2>2 DEF Free, Entry
  <2>4. clients' \in [Slots -> Entry]
    BY <2>1, <2>3, DroppedTyped DEF TimeOut, ZombieEnds, Kick, TypeOK
  <2>5. num_clients' \in Int /\ UNCHANGED <<client, network>>
    BY <2>1 DEF TimeOut, ZombieEnds, Kick, TypeOK
  <2>. QED  BY <2>4, <2>5 DEF TypeOK, client, network
<1>6. CASE SV_SaveSpawnparms
  <2>1. clients' \in [Slots -> Entry]
    BY <1>6 DEF SV_SaveSpawnparms, TypeOK, Entry, Live
  <2>. QED  BY <1>6, <2>1 DEF SV_SaveSpawnparms, TypeOK, client, network
<1>7. CASE \E c \in Clients : Client(c)
  <2>1. PICK c \in Clients : Client(c)
    BY <1>7
  <2>2. \A op \in {"move", "drop"} :
           Ended(c, op) => /\ clients' \in [Slots -> Entry]
                           /\ earlier' \subseteq Packets
                           /\ cstate' \in [Clients -> {"disconnected", "connected"}]
    <3>1. TAKE op \in {"move", "drop"}
    <3>2. HAVE Ended(c, op)
    <3>3. clients' \in [Slots -> Entry]
      BY <3>2 DEF Ended, TypeOK, Entry
    <3>4. [from |-> c, qport |-> run[c], last |-> op] \in Packets
      BY DEF TypeOK, Packets
    <3>. QED  BY <3>2, <3>3, <3>4 DEF Ended, TypeOK
  <2>3. CASE CL_SendConnectPacket(c)
    <3>1. [from |-> c, qport |-> run[c]] \in Connects
      BY DEF TypeOK, Connects
    <3>. QED  BY <2>3, <3>1 DEF CL_SendConnectPacket, TypeOK, server, client
  <2>4. CASE CL_Connected(c)
    BY <2>4 DEF CL_Connected, TypeOK, server
  <2>5. CASE CL_EndGame(c)
    BY <2>2, <2>5 DEF CL_EndGame, CL_Disconnect, TypeOK
  <2>6. CASE CL_TimeOut(c)
    BY <2>2, <2>6 DEF CL_TimeOut, CL_Disconnect, TypeOK
  <2>7. ASSUME Intervene(c)
        PROVE  /\ interventions' \in [Clients -> Runs]
               /\ interventions' = [interventions EXCEPT ![c] = @ + 1]
               /\ connecting' \in [Clients -> BOOLEAN]
               /\ interventions[c] \in Nat /\ interventions[c] + 1 \in Runs
    BY <2>7, UserAssumption DEF Intervene, TypeOK, Runs
  <2>8. CASE CL_Connect_f(c)
    BY <2>2, <2>7, <2>8, UserAssumption
       DEF CL_Connect_f, Intervene, TypeOK, Runs
  <2>9. CASE Restart(c)
    <3>1. run[c] \in Nat /\ run[c] + 1 \in Runs
      BY <2>7, <2>9, UserAssumption DEF Restart, TypeOK, Runs
    <3>2. \A d \in Clients : run'[d] <= interventions'[d]
      BY <2>7, <2>9, UserAssumption DEF Restart, TypeOK, Runs
    <3>. QED  BY <2>2, <2>7, <2>9, <3>1, <3>2 DEF Restart, Intervene, TypeOK
  <2>. QED  BY <2>1, <2>3, <2>4, <2>5, <2>6, <2>8, <2>9 DEF Client
<1>8. CASE \E p \in connects \cup earlier : Lose(p)
  BY <1>8 DEF Lose, TypeOK, server, client
<1>. QED  BY <1>1, <1>2, <1>3, <1>4, <1>5, <1>6, <1>7, <1>8 DEF Next, Server

LEMMA TypeInit == Init => TypeInv
<1>1. 0 \in Runs /\ Free \in Entry
  BY UserAssumption DEF Runs, Free, Entry
<1>. QED  BY <1>1 DEF Init, TypeInv, TypeOK, Runs

(* Every variable keeps its type, whatever the numbers of clients and      *)
(* slots.                                                                  *)
LEMMA TypeAlways == Spec => []TypeInv
BY TypeInit, TypeStep, PTL DEF Spec

THEOREM TypeCorrect == Spec => []TypeOK
<1>1. TypeInv => TypeOK
  BY DEF TypeInv
<1>. QED  BY <1>1, TypeAlways, PTL

----------------------------------------------------------------------------
(* The count.  A step takes at most one entry, or frees one, and counts it.*)

LEMMA DroppedTaken ==
    ASSUME TypeOK, NEW s \in Taken
    PROVE  \A t \in Slots : Dropped(s)[t].state = "free" <=> IsFree(t)
BY DEF TypeOK, Dropped, Taken, IsFree

LEMMA ReconnectedTaken ==
    ASSUME TypeOK, NEW c
    PROVE  /\ \A t \in Slots : Reconnected(c)[t].state = "free" <=> IsFree(t)
           /\ DOMAIN Reconnected(c) = Slots
<1>1. CASE Of(c) = {}
  BY <1>1 DEF Reconnected, IsFree, TypeOK
<1>2. CASE Of(c) # {}
  <2>1. First(Of(c)) \in Taken
    BY <1>2, FirstIsOne DEF Of, Taken
  <2>. QED  BY <1>2, <2>1, DroppedTaken DEF Reconnected, Dropped, TypeOK
<1>. QED  BY <1>1, <1>2

SameTaken == Taken' = Taken /\ num_clients' = num_clients
OneLess == \E s \in Taken : Taken' = Taken \ {s} /\ num_clients' = num_clients - 1
OneMore == \E s \in Slots \ Taken :
               Taken' = Taken \cup {s} /\ num_clients' = num_clients + 1

LEMMA ReadSameTaken ==
    ASSUME TypeOK, NEW c, NEW q, NEW op, NEW connection,
           ReadByZombie(c, q) \/ ReadByLive(c, q, op, connection)
    PROVE  SameTaken
<1>1. CASE ReadByZombie(c, q)
  BY <1>1 DEF ReadByZombie, server, SameTaken, Taken, IsFree
<1>2. CASE ReadByLive(c, q, op, connection)
  <2>1. ForPacket(c, q) \in SUBSET Slots /\ ForPacket(c, q) # {}
    BY <1>2 DEF ReadByLive, ForPacket, Of, Taken
  <2>2. PICK s \in ForPacket(c, q) :
           /\ IsLive(s)
           /\ \/ clients' = Dropped(s)
              \/ \E st \in {clients[s].state, "spawned"} :
                    clients' = [clients EXCEPT ![s].state = st,
                                               ![s].heard = connection]
    BY <1>2, <2>1, FirstIsOne DEF ReadByLive
  <2>3. s \in Taken
    BY DEF ForPacket, Of
  <2>4. \A t \in Slots : clients'[t].state = "free" <=> IsFree(t)
    <3>1. CASE clients' = Dropped(s)
      BY <2>3, <3>1, DroppedTaken
    <3>2. ASSUME NEW st \in {clients[s].state, "spawned"},
                 clients' = [clients EXCEPT ![s].state = st, ![s].heard = connection]
          PROVE  \A t \in Slots : clients'[t].state = "free" <=> IsFree(t)
      <4>1. st # "free" /\ clients[s].state # "free"
        BY <2>2 DEF IsLive, Live
      <4>2. clients'[s].state = st
        BY <2>3, <3>2 DEF TypeOK, Entry, Taken
      <4>. QED  BY <3>2, <4>1, <4>2 DEF TypeOK, IsFree
    <3>. QED  BY <2>2, <3>1, <3>2
  <2>. QED  BY <1>2, <2>4 DEF ReadByLive, SameTaken, Taken, IsFree
<1>. QED  BY <1>1, <1>2

LEMMA TakenStep ==
    ASSUME TypeOK, [Next]_vars
    PROVE  SameTaken \/ OneLess \/ OneMore
<1>1. CASE UNCHANGED vars
  BY <1>1 DEF vars, server, SameTaken, Taken, IsFree
<1>2. ASSUME NEW p, DupConnect(p) PROVE SameTaken
  BY <1>2 DEF DupConnect, server, SameTaken, Taken, IsFree
<1>3. ASSUME NEW p, FullConnect(p) PROVE SameTaken
  BY <1>3, ReconnectedTaken DEF FullConnect, SameTaken, Taken, IsFree
<1>4. ASSUME NEW p, NEW arrives, NewConnect(p, arrives) PROVE OneMore
  <2>. DEFINE s == First(Slots \ Taken)
  <2>1. s \in Slots \ Taken
    BY <1>4, FirstIsOne, RoomMeansFree DEF NewConnect
  <2>2. \A t \in Slots : clients'[t].state = "free" <=> IsFree(t) /\ t # s
    BY <1>4, <2>1, ReconnectedTaken DEF NewConnect
  <2>3. Taken' = Taken \cup {s}
    BY <2>1, <2>2 DEF Taken, IsFree
  <2>. QED  BY <1>4, <2>1, <2>3 DEF NewConnect, OneMore
<1>5. ASSUME NEW c \in Clients, ReadPresent(c) PROVE SameTaken
  BY <1>5, ReadSameTaken DEF ReadPresent
<1>6. ASSUME NEW p, ReadEarlier(p) PROVE SameTaken
  BY <1>6, ReadSameTaken DEF ReadEarlier
<1>7. ASSUME NEW s \in Slots, TimeOut(s) \/ ZombieEnds(s) PROVE OneLess
  <2>1. s \in Taken
    BY <1>7 DEF TimeOut, ZombieEnds, Taken, IsLive, Live, IsFree
  <2>2. \A t \in Slots : clients'[t].state = "free" <=> IsFree(t) \/ t = s
    BY <1>7 DEF TimeOut, ZombieEnds, TypeOK, IsFree, Free
  <2>3. Taken' = Taken \ {s}
    BY <2>2 DEF Taken, IsFree
  <2>. QED  BY <1>7, <2>1, <2>3 DEF TimeOut, ZombieEnds, OneLess
<1>8. ASSUME NEW s \in Slots, Kick(s) PROVE SameTaken
  <2>1. s \in Taken
    BY <1>8 DEF Kick, Taken, IsLive, Live, IsFree
  <2>. QED  BY <1>8, <2>1, DroppedTaken DEF Kick, SameTaken, Taken, IsFree
<1>9. CASE SV_SaveSpawnparms
  <2>1. \A t \in Slots : clients'[t].state = "free" <=> IsFree(t)
    BY <1>9 DEF SV_SaveSpawnparms, TypeOK, Entry, IsFree
  <2>. QED  BY <1>9, <2>1 DEF SV_SaveSpawnparms, SameTaken, Taken, IsFree
<1>10. ASSUME NEW c, NEW op, Ended(c, op)
       PROVE  \A t \in Slots : clients'[t].state = clients[t].state
  BY <1>10 DEF Ended, TypeOK, Entry
<1>11. ASSUME NEW c, Client(c) PROVE SameTaken
  <2>1. CASE CL_SendConnectPacket(c) \/ CL_Connected(c)
    BY <2>1 DEF CL_SendConnectPacket, CL_Connected, server, SameTaken, Taken, IsFree
  <2>2. CASE CL_EndGame(c) \/ CL_TimeOut(c)
    BY <1>10, <2>2 DEF CL_EndGame, CL_TimeOut, CL_Disconnect, SameTaken, Taken, IsFree
  <2>3. CASE CL_Connect_f(c) \/ Restart(c)
    BY <1>10, <2>3 DEF CL_Connect_f, Restart, Intervene, SameTaken, Taken, IsFree
  <2>. QED  BY <1>11, <2>1, <2>2, <2>3 DEF Client
<1>12. ASSUME NEW p, Lose(p) PROVE SameTaken
  BY <1>12 DEF Lose, server, SameTaken, Taken, IsFree
<1>. QED  BY <1>1, <1>2, <1>3, <1>4, <1>5, <1>6, <1>7, <1>8, <1>9, <1>11, <1>12
          DEF Next, Server

LEMMA CountStep ==
    ASSUME CountRight, SameTaken \/ OneLess \/ OneMore
    PROVE  CountRight'
<1>1. IsFiniteSet(Taken) /\ Cardinality(Taken) \in Nat
  BY SlotsFinite DEF Taken
<1>2. CASE SameTaken
  BY <1>2 DEF SameTaken, CountRight
<1>3. CASE OneLess
  BY <1>1, <1>3, FS_RemoveElement DEF OneLess, CountRight
<1>4. CASE OneMore
  BY <1>1, <1>4, FS_AddElement DEF OneMore, CountRight
<1>. QED  BY <1>2, <1>3, <1>4

(* svs.num_clients is the number of entries in use, through connects,      *)
(* drops, zombies that end and timeouts, for any table.                    *)
THEOREM CountIsRight == Spec => []CountRight
<1>1. Init => CountRight
  <2>1. Init => Taken = {}
    BY DEF Init, Taken, IsFree, Free
  <2>. QED  BY <2>1, FS_EmptySet DEF Init, CountRight
<1>2. TypeOK /\ CountRight /\ [Next]_vars => CountRight'
  BY TakenStep, CountStep
<1>. QED  BY <1>1, <1>2, TypeCorrect, PTL DEF Spec

----------------------------------------------------------------------------
(* The live entries of a client.  Only a new connection adds one.          *)

NoNewLive == \A t \in Slots : IsLive(t)' =>
                 IsLive(t) /\ clients'[t].remote = clients[t].remote

LEMMA DroppedNoNewLive ==
    ASSUME TypeOK, NEW s, clients' = Dropped(s)
    PROVE  NoNewLive
BY DEF TypeOK, Dropped, Entry, NoNewLive, IsLive, Live

LEMMA ReconnectedLive ==
    ASSUME TypeOK, NEW c, NEW t \in Slots, Reconnected(c)[t].state \in Live
    PROVE  IsLive(t) /\ Reconnected(c)[t].remote = clients[t].remote
BY DEF TypeOK, Reconnected, Dropped, Entry, IsLive, Live

LEMMA ReadNoNewLive ==
    ASSUME TypeOK, NEW c, NEW q, NEW op, NEW connection,
           ReadByZombie(c, q) \/ ReadByLive(c, q, op, connection)
    PROVE  NoNewLive
<1>1. CASE ReadByZombie(c, q)
  BY <1>1 DEF ReadByZombie, server, NoNewLive, IsLive
<1>2. CASE ReadByLive(c, q, op, connection)
  <2>1. PICK s : /\ IsLive(s)
                 /\ \/ clients' = Dropped(s)
                    \/ \E st \in {clients[s].state, "spawned"} :
                          clients' = [clients EXCEPT ![s].state = st,
                                                     ![s].heard = connection]
    BY <1>2 DEF ReadByLive
  <2>2. CASE clients' = Dropped(s)
    BY <2>2, DroppedNoNewLive
  <2>3. ASSUME NEW st,
               clients' = [clients EXCEPT ![s].state = st, ![s].heard = connection]
        PROVE  NoNewLive
    <3>1. ASSUME NEW t \in Slots, t # s PROVE clients'[t] = clients[t]
      BY <2>3, <3>1 DEF TypeOK
    <3>2. s \in Slots => clients'[s].remote = clients[s].remote
      BY <2>3 DEF TypeOK, Entry
    <3>. QED  BY <2>1, <3>1, <3>2 DEF NoNewLive, IsLive
  <2>. QED  BY <2>1, <2>2, <2>3
<1>. QED  BY <1>1, <1>2

LEMMA LiveStep ==
    ASSUME TypeOK, [Next]_vars
    PROVE  \/ NoNewLive
           \/ \E p \in connects, arrives \in BOOLEAN : NewConnect(p, arrives)
<1>1. CASE UNCHANGED vars
  BY <1>1 DEF vars, server, NoNewLive, IsLive
<1>2. ASSUME NEW p, DupConnect(p) PROVE NoNewLive
  BY <1>2 DEF DupConnect, server, NoNewLive, IsLive
<1>3. ASSUME NEW p, FullConnect(p) PROVE NoNewLive
  BY <1>3, ReconnectedLive DEF FullConnect, NoNewLive, IsLive
<1>4. ASSUME NEW c \in Clients, ReadPresent(c) PROVE NoNewLive
  BY <1>4, ReadNoNewLive DEF ReadPresent
<1>5. ASSUME NEW p, ReadEarlier(p) PROVE NoNewLive
  BY <1>5, ReadNoNewLive DEF ReadEarlier
<1>6. ASSUME NEW s \in Slots, TimeOut(s) \/ ZombieEnds(s) PROVE NoNewLive
  BY <1>6 DEF TimeOut, ZombieEnds, TypeOK, Free, NoNewLive, IsLive, Live
<1>7. ASSUME NEW s, Kick(s) PROVE NoNewLive
  BY <1>7, DroppedNoNewLive DEF Kick
<1>8. CASE SV_SaveSpawnparms
  <2>1. \A t \in Slots : /\ clients'[t].remote = clients[t].remote
                         /\ clients'[t].state \in Live => clients[t].state \in Live
    BY <1>8 DEF SV_SaveSpawnparms, TypeOK, Entry, Live
  <2>. QED  BY <2>1 DEF NoNewLive, IsLive
<1>9. ASSUME NEW c, NEW op, Ended(c, op) PROVE NoNewLive
  <2>1. \A t \in Slots : /\ clients'[t].state = clients[t].state
                         /\ clients'[t].remote = clients[t].remote
    BY <1>9 DEF Ended, TypeOK, Entry
  <2>. QED  BY <2>1 DEF NoNewLive, IsLive
<1>10. ASSUME NEW c, Client(c) PROVE NoNewLive
  <2>1. CASE CL_SendConnectPacket(c) \/ CL_Connected(c)
    BY <2>1 DEF CL_SendConnectPacket, CL_Connected, server, NoNewLive, IsLive
  <2>2. CASE CL_EndGame(c) \/ CL_TimeOut(c)
    BY <1>9, <2>2 DEF CL_EndGame, CL_TimeOut, CL_Disconnect
  <2>3. CASE CL_Connect_f(c) \/ Restart(c)
    BY <1>9, <2>3 DEF CL_Connect_f, Restart
  <2>. QED  BY <1>10, <2>1, <2>2, <2>3 DEF Client
<1>11. ASSUME NEW p, Lose(p) PROVE NoNewLive
  BY <1>11 DEF Lose, server, NoNewLive, IsLive
<1>. QED  BY <1>1, <1>2, <1>3, <1>4, <1>5, <1>6, <1>7, <1>8, <1>10, <1>11
          DEF Next, Server

(* SVC_DirectConnect: if the first entry of its client is not a zombie, a  *)
(* new connection takes the place of a spawned one.                        *)
LEMMA NewConnectLive ==
    ASSUME TypeOK, NEW c \in Clients, NEW p, NEW arrives, NewConnect(p, arrives),
           LiveOf(c) # {}, clients[First(Of(c))].state # "zombie"
    PROVE  Cardinality(LiveOf(c)') <= Cardinality(LiveOf(c))
<1>. DEFINE s == First(Slots \ Taken)
            f == First(Of(c))
<1>1. IsFiniteSet(LiveOf(c)) /\ Cardinality(LiveOf(c)) \in Nat
  BY SlotsFinite DEF LiveOf, Of, Taken
<1>2. s \in Slots /\ s \notin Taken
  BY FirstIsOne, RoomMeansFree DEF NewConnect
<1>3. clients' = [Reconnected(p.from) EXCEPT ![s] =
         [state |-> "connected", remote |-> p.from, qport |-> p.qport,
          heard |-> "nothing"]]
  BY DEF NewConnect
<1>4. \A t \in Slots : t # s => clients'[t] = Reconnected(p.from)[t]
  BY <1>3, ReconnectedTaken
<1>5. \A t \in LiveOf(c)' : t \in Slots /\ clients'[t].state \in Live
                           /\ clients'[t].remote = c
  BY DEF LiveOf, Of, Taken, IsLive
<1>6. LiveOf(c)' \ {s} \subseteq LiveOf(c)
  <2>1. SUFFICES ASSUME NEW t \in LiveOf(c)', t # s PROVE t \in LiveOf(c)
    OBVIOUS
  <2>2. t \in Slots /\ Reconnected(p.from)[t].state \in Live
        /\ Reconnected(p.from)[t].remote = c
    BY <1>4, <1>5, <2>1
  <2>3. IsLive(t) /\ clients[t].remote = c
    BY <2>2, ReconnectedLive
  <2>. QED  BY <2>2, <2>3 DEF LiveOf, Of, Taken, IsLive, IsFree, Live
<1>7. CASE c # p.from
  <2>1. clients'[s].remote = p.from
    BY <1>2, <1>3, ReconnectedTaken
  <2>2. LiveOf(c)' \subseteq LiveOf(c)
    BY <1>5, <1>6, <1>7, <2>1
  <2>. QED  BY <1>1, <2>2, FS_Subset
<1>8. CASE c = p.from
  <2>1. f \in Of(c) /\ f \in Slots
    BY FirstIsOne DEF LiveOf, Of, Taken
  <2>2. clients[f].state = "spawned"
    BY <1>8, <2>1 DEF NewConnect, Duplicate, TypeOK, Entry, Live, Of, Taken, IsFree
  <2>3. f \in LiveOf(c)
    BY <2>1, <2>2 DEF LiveOf, IsLive, Live
  <2>4. f # s
    BY <1>2, <2>1 DEF Of
  <2>5. Reconnected(p.from)[f].state = "zombie"
    BY <1>8, <2>1 DEF Reconnected, Dropped, TypeOK, Entry
  <2>6. f \notin LiveOf(c)'
    BY <1>4, <1>5, <2>1, <2>4, <2>5 DEF Live
  <2>7. s \notin LiveOf(c)
    BY <1>2 DEF LiveOf, Of
  <2>. DEFINE W == (LiveOf(c) \ {f}) \cup {s}
  <2>8. LiveOf(c)' \subseteq W
    BY <1>6, <2>6
  <2>9. /\ IsFiniteSet(LiveOf(c) \ {f})
        /\ Cardinality(LiveOf(c) \ {f}) = Cardinality(LiveOf(c)) - 1
    BY <1>1, <2>3, FS_RemoveElement
  <2>10. IsFiniteSet(W) /\ Cardinality(W) = Cardinality(LiveOf(c))
    <3>1. s \notin LiveOf(c) \ {f}
      BY <2>7
    <3>2. IsFiniteSet(W) /\ Cardinality(W) = Cardinality(LiveOf(c) \ {f}) + 1
      BY <2>9, <3>1, FS_AddElement, Zenon
    <3>. QED  BY <1>1, <2>9, <3>2
  <2>. QED  BY <2>8, <2>10, FS_Subset
<1>. QED  BY <1>7, <1>8

(* A connect packet leaves its client with one live entry, unless a zombie *)
(* of the client comes first in the table, for any table and any clients.  *)
THEOREM OnlyBehindZombie == Spec => SecondOnlyBehindZombie
<1>. DEFINE Grows(c) == Cardinality(LiveOf(c)') > Cardinality(LiveOf(c))
<1>1. ASSUME TypeOK, [Next]_vars, NEW c \in Clients, Grows(c), LiveOf(c) # {}
      PROVE  clients[First(Of(c))].state = "zombie"
  <2>1. /\ IsFiniteSet(LiveOf(c)) /\ Cardinality(LiveOf(c)) \in Nat
        /\ IsFiniteSet(LiveOf(c)') /\ Cardinality(LiveOf(c)') \in Nat
    BY SlotsFinite DEF LiveOf, Of, Taken
  <2>2. CASE NoNewLive
    <3>1. LiveOf(c)' \subseteq LiveOf(c)
      BY <2>2 DEF NoNewLive, LiveOf, Of, Taken, IsLive, IsFree, Live
    <3>2. Cardinality(LiveOf(c)') <= Cardinality(LiveOf(c))
      BY <2>1, <3>1, FS_Subset
    <3>. QED  BY <1>1, <2>1, <3>2
  <2>3. CASE \E p \in connects, arrives \in BOOLEAN : NewConnect(p, arrives)
    BY <1>1, <2>1, <2>3, NewConnectLive
  <2>. QED  BY <1>1, <2>2, <2>3, LiveStep
<1>2. TypeOK /\ [Next]_vars =>
        [\A c \in Clients : Grows(c) /\ LiveOf(c) # {}
            => clients[First(Of(c))].state = "zombie"]_vars
  BY <1>1
<1>. QED  BY <1>2, TypeCorrect, PTL DEF Spec, SecondOnlyBehindZombie
=============================================================================
