------------------------------- MODULE Signon -------------------------------
(***************************************************************************)
(* The sign-on of a QuakeWorld client and the change of level under it.    *)
(*                                                                         *)
(* A client asks for the server data, the sound list, the model list, the  *)
(* signon buffers and the spawn data in turn, each reply making it ask for *)
(* the next, and begins; every request names the level, by spawncount, it  *)
(* is meant for (qw/source/sv_user.c, cl_parse.c, cl_skin.c).  At any      *)
(* moment SV_Map_f may change the level (sv_ccmds.c, sv_init.c): it        *)
(* broadcasts "changing" before and "reconnect" after, the client answers  *)
(* the latter with "new" (cl_main.c).                                      *)
(*                                                                         *)
(* One client is modelled, and its connection as two reliable streams: the *)
(* message buffer of a side (message), the block of it that is on its way  *)
(* (flight), and what the receiver has yet to handle of the block it got   *)
(* (inbox).  That the streams deliver every block once and in order is     *)
(* what Netchan and QWChannel are about.  Backup buffers (Backbuf) and     *)
(* downloads are left out: the message buffer has room, and the client has *)
(* all the files.                                                          *)
(***************************************************************************)
EXTENDS Integers, Sequences, SequencesExt

CONSTANTS
    SoundChunks,     \* messages the sound list of a level takes
    ModelChunks,     \* and its model list
    SignonBuffers,   \* sv.num_signon_buffers
    MaxLevels        \* bound on svs.spawncount

ASSUME SizesAssumption ==
    /\ SoundChunks \in Nat \ {0} /\ ModelChunks \in Nat \ {0}
    /\ SignonBuffers \in Nat \ {0} /\ MaxLevels \in Nat \ {0}

VARIABLES
    spawncount,      \* svs.spawncount
    state,           \* host_client->state
    prespawned, spawned,
    inGame,          \* ghost: the level on which the progs put the client
    kicked,          \* ghost: the server dropped the client
    reliable_datagram,
    sv_message, sv_flight, sv_inbox,
    cstate,          \* cls.state
    servercount,     \* cl.servercount
    sounds, models,  \* the level each part of cl.sound_name, cl.model_name is of
    worldmodel,      \* the level cl.worldmodel is of
    stuff,           \* cl_stbuf
    executing,       \* the client is executing cl_stbuf at its frame's start
    cl_message, cl_flight, cl_inbox,
    connecting,      \* connect_time is not -1: the client connects anew
    dropping,        \* "drop" is on its way to the server
    remote           \* ghost: a level was changed while packets were read

server == <<spawncount, state, prespawned, spawned, inGame, kicked,
            reliable_datagram>>
lists == <<servercount, sounds, models, worldmodel>>
client == <<cstate, lists, stuff, executing, connecting>>
toClient == <<sv_message, sv_flight, cl_inbox>>
toServer == <<cl_message, cl_flight, sv_inbox>>
vars == <<server, client, toClient, toServer, dropping, remote>>

Levels == 1..MaxLevels
Commands == [op : {"new", "soundlist", "modellist", "prespawn", "spawn", "begin"},
             level : 0..MaxLevels, n : Nat, check : 0..MaxLevels]
Stuffed == [op : {"changing", "reconnect", "skins", "cmd prespawn", "cmd spawn"},
            level : 0..MaxLevels, n : Nat]
Messages == Stuffed \cup [op : {"serverdata", "disconnect"}, level : 0..MaxLevels, n : {0}]
                    \cup [op : {"svc_soundlist", "svc_modellist"},
                          level : Levels, n : Nat, next : Nat]

TypeOK ==
    /\ spawncount \in Levels
    /\ state \in {"zombie", "connected", "spawned"}
    /\ prespawned \in BOOLEAN /\ spawned \in BOOLEAN /\ kicked \in BOOLEAN
    /\ inGame \in 0..MaxLevels
    /\ reliable_datagram \in Seq(Stuffed)
    /\ sv_message \in Seq(Messages) /\ sv_flight \in Seq(Messages)
    /\ cl_inbox \in Seq(Messages)
    /\ cstate \in {"disconnected", "connected", "onserver", "active"}
    /\ servercount \in 0..MaxLevels /\ worldmodel \in 0..MaxLevels
    /\ sounds \in [1..SoundChunks -> 0..MaxLevels]
    /\ models \in [1..ModelChunks -> 0..MaxLevels]
    /\ stuff \in Seq(Stuffed) /\ executing \in BOOLEAN
    /\ connecting \in BOOLEAN /\ dropping \in BOOLEAN /\ remote \in BOOLEAN
    /\ cl_message \in Seq(Commands) /\ cl_flight \in Seq(Commands)
    /\ sv_inbox \in Seq(Commands)

(* A message has the level it was sent under; in "changing", "reconnect",   *)
(* "skins" and "disconnect", which name none, it is a ghost nothing reads.  *)
Command(op, level, n) == [op |-> op, level |-> level, n |-> n, check |-> 0]
Message(op, level, n) == [op |-> op, level |-> level, n |-> n]
NoLists == /\ sounds' = [c \in 1..SoundChunks |-> 0]
           /\ models' = [c \in 1..ModelChunks |-> 0]
           /\ worldmodel' = 0

(* S2C_CONNECTION has just come.                                           *)
Init ==
    /\ spawncount = 1 /\ state = "connected"
    /\ prespawned = FALSE /\ spawned = FALSE /\ kicked = FALSE /\ inGame = 0
    /\ reliable_datagram = <<>>
    /\ sv_message = <<>> /\ sv_flight = <<>> /\ cl_inbox = <<>>
    /\ cstate = "connected" /\ servercount = 0 /\ worldmodel = 0
    /\ sounds = [c \in 1..SoundChunks |-> 0]
    /\ models = [c \in 1..ModelChunks |-> 0]
    /\ stuff = <<>> /\ executing = FALSE /\ connecting = FALSE
    /\ dropping = FALSE /\ remote = FALSE
    /\ cl_message = <<Command("new", 0, 0)>> /\ cl_flight = <<>> /\ sv_inbox = <<>>

----------------------------------------------------------------------------
(* The server's handling of the next command of a packet.                  *)

Next_Command(op) ==
    /\ sv_inbox # <<>> /\ Head(sv_inbox).op = op
    /\ sv_inbox' = Tail(sv_inbox)
    /\ UNCHANGED <<client, cl_inbox, sv_flight, cl_message, cl_flight,
                   dropping, remote>>
Reply(m) == sv_message' = Append(sv_message, m)
Ignore == UNCHANGED <<server, sv_message>>

(* SV_New_f, and the end of the commands that a client has sent for        *)
(* another level.                                                          *)
New ==
    IF state = "spawned" THEN Ignore
    ELSE /\ Reply(Message("serverdata", spawncount, 0))
         /\ state' = "connected"
         /\ UNCHANGED <<spawncount, prespawned, spawned, inGame, kicked,
                        reliable_datagram>>

SV_New_f == Next_Command("new") /\ New

(* A part of a list and the index of the next one, 0 after the last.       *)
ListPart(op, n, chunks) ==
    [op |-> op, level |-> spawncount, n |-> n,
     next |-> IF n + 1 < chunks THEN n + 1 ELSE 0]

ForThisLevel_Any(handler) == IF state # "connected" THEN Ignore ELSE handler

(* What a request for a level meets first.                                 *)
ForThisLevel(handler) ==
    IF state # "connected" THEN Ignore
    ELSE IF Head(sv_inbox).level # spawncount THEN New
    ELSE handler

SendPart(op, chunks) ==
    Reply(ListPart(op, Head(sv_inbox).n, chunks)) /\ UNCHANGED server

SV_Soundlist_f ==
    Next_Command("soundlist") /\ ForThisLevel(SendPart("svc_soundlist", SoundChunks))
SV_Modellist_f ==
    Next_Command("modellist") /\ ForThisLevel(SendPart("svc_modellist", ModelChunks))

SV_DropClient_Free ==
    /\ Reply(Message("disconnect", spawncount, 0))
    /\ state' = "free"
    /\ UNCHANGED <<spawncount, prespawned, spawned, inGame, reliable_datagram>>

SV_DropClient ==
    /\ Reply(Message("disconnect", spawncount, 0))
    /\ state' = "zombie"
    /\ UNCHANGED <<spawncount, prespawned, spawned, inGame, reliable_datagram>>
Kick == SV_DropClient /\ kicked' = TRUE

SendSignon_Unmarked(buf) ==
    /\ Reply(IF buf = SignonBuffers - 1
             THEN Message("cmd spawn", spawncount, 0)
             ELSE Message("cmd prespawn", spawncount, buf + 1))
    /\ UNCHANGED <<spawncount, state, prespawned, spawned, inGame, kicked,
                   reliable_datagram>>

(* One signon buffer and the command that asks for what comes next.        *)
SendSignon(buf) ==
    /\ prespawned' = TRUE
    /\ Reply(IF buf = SignonBuffers - 1
             THEN Message("cmd spawn", spawncount, 0)
             ELSE Message("cmd prespawn", spawncount, buf + 1))
    /\ UNCHANGED <<spawncount, state, spawned, inGame, kicked, reliable_datagram>>

SV_PreSpawn_f ==
    /\ Next_Command("prespawn")
    /\ LET c == Head(sv_inbox)
           buf == IF c.n >= SignonBuffers THEN 0 ELSE c.n
       IN ForThisLevel(IF buf = 0 /\ c.check # spawncount
                       THEN Kick ELSE SendSignon(buf))

SendSpawn_ClearLast ==
    /\ spawned' = TRUE /\ sv_message' = <<>>
    /\ UNCHANGED <<spawncount, state, prespawned, inGame, kicked,
                   reliable_datagram>>

SendSpawn ==
    /\ spawned' = TRUE
    /\ sv_message' = <<Message("skins", spawncount, 0)>>     \* after SZ_Clear
    /\ UNCHANGED <<spawncount, state, prespawned, inGame, kicked,
                   reliable_datagram>>

SV_Spawn_f ==
    Next_Command("spawn") /\ ForThisLevel(IF prespawned THEN SendSpawn ELSE Kick)

SV_Begin_f_AnyLevel ==
    /\ Next_Command("begin")
    /\ IF state # "connected" THEN Ignore
       ELSE IF ~spawned THEN Kick
       ELSE /\ state' = "spawned" /\ inGame' = spawncount
            /\ UNCHANGED <<spawncount, prespawned, spawned, kicked,
                           reliable_datagram, sv_message>>

(* The state is changed before the level is looked at: New, which does     *)
(* nothing for a client that is cs_spawned, does nothing here.             *)
SV_Begin_f ==
    /\ Next_Command("begin")
    /\ LET current == Head(sv_inbox).level = spawncount IN
       IF state # "connected" THEN Ignore
       ELSE IF current /\ ~spawned THEN Kick
       ELSE /\ state' = "spawned"
            /\ inGame' = IF current THEN spawncount ELSE inGame
            /\ UNCHANGED <<spawncount, prespawned, spawned, kicked,
                           reliable_datagram, sv_message>>

----------------------------------------------------------------------------
(* The server between packets: SV_Frame.                                   *)

Outside == sv_inbox = <<>> /\ UNCHANGED <<client, toServer, cl_inbox, dropping>>

(* SV_UpdateToReliableMessages, for the one client.                        *)
Appended(message, datagram) ==
    IF state \in {"connected", "spawned"} THEN message \o datagram ELSE message

SV_SendClientMessages ==
    /\ Outside
    /\ reliable_datagram # <<>>
    /\ sv_message' = Appended(sv_message, reliable_datagram)
    /\ reliable_datagram' = <<>>
    /\ UNCHANGED <<spawncount, state, prespawned, spawned, inGame, kicked,
                   sv_flight, remote>>

(* SV_Map_f.  "changing" goes to the message buffer, or out, before        *)
(* SV_SpawnServer counts the level and SV_SaveSpawnparms takes the players *)
(* out of the game; "reconnect" waits in sv.reliable_datagram for the next *)
(* SV_SendClientMessages.  A map command of the console or of the progs is *)
(* executed when the packets of a frame have been read, right before that  *)
(* call; one of SVC_RemoteCommand (now = FALSE) between two packets.       *)
SV_Map_f(now) ==
    /\ Outside
    /\ spawncount < MaxLevels
    /\ spawncount' = spawncount + 1
    /\ state' = IF state = "spawned" THEN "connected" ELSE state
    /\ LET changing == Appended(sv_message, reliable_datagram
                                            \o <<Message("changing", spawncount', 0)>>)
           reconnect == <<Message("reconnect", spawncount', 0)>>
           sent == Appended(<<>>, IF now THEN reconnect ELSE <<>>)
       IN /\ reliable_datagram' = IF now THEN <<>> ELSE reconnect
          /\ \/ sv_message' = changing \o sent /\ UNCHANGED sv_flight
             \/ /\ sv_flight = <<>> /\ sv_flight' = changing
                /\ sv_message' = sent
    /\ remote' = (remote \/ ~now)
    /\ UNCHANGED <<prespawned, spawned, inGame, kicked>>

SV_Drop_f ==
    /\ sv_inbox = <<>> /\ dropping
    /\ dropping' = FALSE
    /\ IF state = "zombie" THEN Ignore ELSE SV_DropClient /\ UNCHANGED kicked
    /\ UNCHANGED <<client, sv_flight, cl_inbox, toServer, remote>>

(* The client's connect is answered: SVC_DirectConnect, then               *)
(* S2C_CONNECTION in CL_ConnectionlessPacket.                              *)
Connect ==
    /\ cstate = "disconnected" /\ connecting /\ state = "zombie" /\ ~dropping
    /\ cl_inbox = <<>> /\ ~executing
    /\ state' = "connected" /\ prespawned' = FALSE /\ spawned' = FALSE
    /\ inGame' = 0
    /\ sv_message' = <<>> /\ sv_flight' = <<>> /\ sv_inbox' = <<>>
    /\ cstate' = "connected" /\ connecting' = FALSE
    /\ cl_message' = <<Command("new", 0, 0)>> /\ cl_flight' = <<>>
    /\ UNCHANGED <<spawncount, kicked, reliable_datagram, lists, stuff,
                   executing, cl_inbox, dropping, remote>>

----------------------------------------------------------------------------
(* The client's handling of the next message of a packet.                  *)

Request(c) == cl_message' = Append(cl_message, c)
Next_Message(op) ==
    /\ cl_inbox # <<>> /\ Head(cl_inbox).op = op
    /\ cl_inbox' = Tail(cl_inbox)
    /\ UNCHANGED <<server, sv_message, sv_flight, sv_inbox, cl_flight,
                   executing, connecting, dropping, remote>>

(* svc_stufftext: for the next frame, or for svc_serverdata.               *)
CL_ParseStuff(op) ==
    /\ Next_Message(op)
    /\ stuff' = Append(stuff, Head(cl_inbox))
    /\ UNCHANGED <<cstate, lists, cl_message>>

(* CL_ParseServerData, after the stuffed commands: CL_ClearState empties   *)
(* the message buffer too.                                                 *)
CL_ParseServerData ==
    /\ Next_Message("serverdata") /\ stuff = <<>>
    /\ LET m == Head(cl_inbox) IN
       /\ servercount' = m.level
       /\ cl_message' = <<Command("soundlist", m.level, 0)>>
    /\ NoLists
    /\ cstate' = "onserver"
    /\ UNCHANGED stuff

CL_ParseSoundlist ==
    /\ Next_Message("svc_soundlist")
    /\ LET m == Head(cl_inbox) IN
       /\ sounds' = [sounds EXCEPT ![m.n + 1] = m.level]
       /\ Request(IF m.next # 0 THEN Command("soundlist", servercount, m.next)
                                ELSE Command("modellist", servercount, 0))
    /\ UNCHANGED <<cstate, servercount, models, worldmodel, stuff>>

(* After the last part, Model_NextDownload: the world is the first model.  *)
CL_ParseModellist ==
    /\ Next_Message("svc_modellist")
    /\ LET m == Head(cl_inbox)
           got == [models EXCEPT ![m.n + 1] = m.level]
       IN /\ models' = got
          /\ IF m.next # 0
             THEN /\ Request(Command("modellist", servercount, m.next))
                  /\ UNCHANGED worldmodel
             ELSE /\ Request([op |-> "prespawn", level |-> servercount, n |-> 0,
                              check |-> got[1]])
                  /\ worldmodel' = got[1]
    /\ UNCHANGED <<cstate, servercount, sounds, stuff>>

(* svc_disconnect: Host_EndGame leaves the frame, and nobody connects.     *)
CL_ParseDisconnect ==
    /\ cl_inbox # <<>> /\ Head(cl_inbox).op = "disconnect"
    /\ cl_inbox' = <<>> /\ cstate' = "disconnected" /\ connecting' = FALSE
    /\ UNCHANGED <<server, sv_message, sv_flight, toServer, lists, stuff,
                   executing, dropping, remote>>

----------------------------------------------------------------------------
(* The commands of cl_stbuf: all of them at the start of a frame, or the   *)
(* pending ones before the server data is parsed.                          *)

Next_Stuffed(op) ==
    /\ stuff # <<>> /\ Head(stuff).op = op
    /\ cl_inbox # <<>> => Head(cl_inbox).op = "serverdata"
    /\ stuff' = Tail(stuff)
    /\ executing' = (Tail(stuff) # <<>>)
    /\ UNCHANGED <<server, toClient, lists, cl_flight, sv_inbox, remote>>

CL_Changing_f_Active ==
    /\ Next_Stuffed("changing")
    /\ cstate' = IF cstate = "active" THEN "connected" ELSE cstate
    /\ UNCHANGED <<connecting, dropping, cl_message>>

(* It does not ask whether there is a connection.                          *)
CL_Changing_f ==
    /\ Next_Stuffed("changing")
    /\ cstate' = "connected"
    /\ UNCHANGED <<connecting, dropping, cl_message>>

(* CL_Disconnect sends "drop" and CL_BeginServerConnect starts to connect. *)
CL_Reconnect_f ==
    /\ Next_Stuffed("reconnect")
    /\ IF cstate = "connected"
       THEN Request(Command("new", 0, 0)) /\ UNCHANGED <<cstate, connecting, dropping>>
       ELSE /\ cstate' = "disconnected" /\ connecting' = TRUE
            /\ dropping' = (dropping \/ cstate # "disconnected")
            /\ UNCHANGED cl_message

(* Skin_NextDownload.                                                      *)
CL_Skins_f ==
    /\ Next_Stuffed("skins")
    /\ IF cstate \in {"disconnected", "active"} THEN UNCHANGED <<cstate, cl_message>>
       ELSE cstate' = "active" /\ Request(Command("begin", servercount, 0))
    /\ UNCHANGED <<connecting, dropping>>

(* What a stuffed "cmd ..." is executed as, under the name of the request it makes. *)
Forwarded == [prespawn |-> "cmd prespawn", spawn |-> "cmd spawn"]
CL_Cmd_ForwardToServer_f ==
    /\ \E op \in DOMAIN Forwarded :
          /\ Next_Stuffed(Forwarded[op])
          /\ IF cstate = "disconnected" THEN UNCHANGED cl_message
             ELSE Request(Command(op, Head(stuff).level, Head(stuff).n))
    /\ UNCHANGED <<cstate, connecting, dropping>>

----------------------------------------------------------------------------
(* The channel.  A side puts its message buffer on the way when the last   *)
(* block was acknowledged.                                                 *)

SV_Transmit ==
    /\ Outside /\ reliable_datagram = <<>>
    /\ sv_flight = <<>> /\ sv_message # <<>>
    /\ sv_flight' = sv_message /\ sv_message' = <<>>
    /\ UNCHANGED <<server, remote>>

(* The packets of CL_Disconnect go before any later one.                   *)
CL_Transmit ==
    /\ cl_inbox = <<>> /\ ~executing /\ cstate # "disconnected" /\ ~dropping
    /\ cl_flight = <<>> /\ cl_message # <<>>
    /\ cl_flight' = cl_message /\ cl_message' = <<>>
    /\ UNCHANGED <<server, client, toClient, sv_inbox, dropping, remote>>

(* Netchan_Process accepts the block and the side reads it.                *)
CL_Deliver ==
    /\ cl_inbox = <<>> /\ ~executing /\ cstate # "disconnected"
    /\ sv_flight # <<>>
    /\ cl_inbox' = sv_flight /\ sv_flight' = <<>>
    /\ UNCHANGED <<server, client, sv_message, toServer, dropping, remote>>

SV_Deliver ==
    /\ sv_inbox = <<>> /\ state # "zombie" /\ cl_flight # <<>>
    /\ sv_inbox' = cl_flight /\ cl_flight' = <<>>
    /\ UNCHANGED <<server, client, toClient, cl_message, dropping, remote>>

(* cl_timeout: a client whose slot the server has given up hears nothing.  *)
CL_TimeOut ==
    /\ cl_inbox = <<>> /\ ~executing /\ cstate # "disconnected"
    /\ state = "zombie" /\ sv_flight = <<>> /\ sv_message = <<>>
    /\ cstate' = "disconnected" /\ connecting' = FALSE
    /\ UNCHANGED <<server, toClient, toServer, lists, stuff, executing,
                   dropping, remote>>

----------------------------------------------------------------------------
ServerStep == \/ SV_New_f \/ SV_Soundlist_f \/ SV_Modellist_f
              \/ SV_PreSpawn_f \/ SV_Spawn_f \/ SV_Begin_f
              \/ SV_SendClientMessages \/ SV_Drop_f \/ SV_Transmit \/ SV_Deliver
Parse == \/ CL_ParseServerData \/ CL_ParseSoundlist \/ CL_ParseModellist
         \/ CL_ParseDisconnect
         \/ \E op \in {"changing", "reconnect", "skins", "cmd prespawn",
                       "cmd spawn"} : CL_ParseStuff(op)
ClientStep == \/ Parse \/ CL_Changing_f \/ CL_Reconnect_f \/ CL_Skins_f
              \/ CL_Cmd_ForwardToServer_f \/ CL_Transmit \/ CL_Deliver \/ CL_TimeOut

Next == ServerStep \/ ClientStep \/ Connect
        \/ \E now \in BOOLEAN : SV_Map_f(now)

Spec == Init /\ [][Next]_vars

(* Both programs run frame after frame, and the channel gets every block   *)
(* through in the end; nothing makes anyone change the level.              *)
FairSpec == Spec /\ WF_vars(ServerStep) /\ WF_vars(ClientStep) /\ WF_vars(Connect)

----------------------------------------------------------------------------
(* A client that does what the server tells it is never dropped: not for   *)
(* its map, not for spawning before prespawning (sv_user.c:449), not for   *)
(* beginning before spawning (sv_user.c:530), whatever levels come.        *)
HonestNeverKicked == ~kicked

(* From the model list's end on, every part of the client's lists is of    *)
(* the level it was told of last: entities refer to models and sounds by   *)
(* their place in the lists, which differ from level to level.             *)
ListsOfOneLevel ==
    worldmodel # 0 =>
        /\ worldmodel = servercount
        /\ \A c \in 1..SoundChunks : sounds[c] = servercount
        /\ \A c \in 1..ModelChunks : models[c] = servercount

InGame == cstate = "active" /\ state = "spawned"
          /\ servercount = spawncount /\ inGame = spawncount
(* The server holds the client for spawned on a level it never began: its  *)
(* "begin" was for another one.                                            *)
Stranded == state = "spawned" /\ inGame # spawncount

(* When the levels no longer change, the client gets into the game of the  *)
(* last one and stays, unless it is stranded, or it has lost its           *)
(* connection and does not try to connect: a client that read the server's *)
(* svc_disconnect, or timed out, waits for its user.                       *)
SettlesUnlessStranded ==
    <>[](InGame \/ Stranded \/ (cstate = "disconnected" /\ ~connecting))

(* "handle the case of a level changing while a client was connecting"     *)
(* (sv_user.c:522): the client gets into the game of the last level.  Only *)
(* levels that are changed between frames are looked at.                   *)
Settles == <>[](InGame \/ remote)

(* A change of level costs no client its connection, as long as it is not  *)
(* made between two packets of a frame.                                    *)
KeepsConnection == cstate = "disconnected" => remote

(* The progs are given a client (ClientConnect, PutClientInServer) only    *)
(* when it has the world of the current level, and no more than once for   *)
(* each level of a connection.                                             *)
EntersLoaded ==
    [][inGame' # inGame /\ inGame' # 0
       => worldmodel = spawncount /\ inGame < spawncount]_vars
=============================================================================
