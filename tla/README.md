# QuakeForge: specifications

TLA+ specifications of the parts of QuakeForge (a game engine with QuakeWorld
and NetQuake clients and servers, and map tools) in which state is shared,
delayed, retried or reclaimed: network channels and datagrams, message queues,
the sign-on of a client and its slot on the server, the cache, the sound mixer,
and the threads of the visibility compiler.  TLC checks each module on small
instances; TLAPS proves the main results about channels, datagrams, backup buffers, the
sign-on, slots, the cache, the sound channels and the visibility compiler for all values of
their constants.

Paths are relative to `src/`.  `PROJECT.json` maps every definition to the
lines it models.

## 1. The system

| part | state it keeps | operations | works with |
|---|---|---|---|
| QuakeWorld channel, `libs/net/net_chan.c` | `netchan_t`: sequence numbers, the reliable bits, the message being collected, the reliable message outstanding | `Netchan_Setup`, `Transmit`, `Process`, writes to `message` | UDP below; both frame loops above, which also move `outgoing_sequence` |
| Backup buffers, `libs/qw/msg_backbuf.c` | ring of 8 buffers per client | `MSG_ReliableCheckBlock`, `MSG_ReliableWrite_*`, `MSG_Reliable_Send` | in front of the channel's `message`, server only |
| QuakeWorld server, `qw/source/sv_*.c` | `svs.clients` (free, zombie, connected, spawned), challenges, per-client delta frames, move queue | read packets, run the game, `SV_SendClientMessages`, timeouts | channel, backup buffers, progs |
| QuakeWorld client, `qw/source/cl_*.c` | `cls.state`, ring of `UPDATE_BACKUP` frames | connect, read, `CL_SendCmd`, withhold a packet | channel |
| NetQuake datagrams, `libs/net/nm/net_dgrm.c` | `qsocket_t`: stop-and-wait reliable message in fragments, unreliable sequences | send, acknowledge, resend after 1 s, connect, accept | UDP/WAN drivers, socket layer |
| NetQuake sockets, `libs/net/net_main.c`, `nm/net_loop.c`, `net_vcr.c` | free and active `qsocket_t` lists, two loopback queues | new, close, get, send, poll, shut down | datagrams, loopback |
| UDP and WAN drivers, `libs/net/nm/net_udp.c`, `nc/net_udp*.c` | sockets | system calls | the network |
| NetQuake host and server, `nq/source` | client slots, sign-on stage | frame loop | sockets, progs |
| QTV proxy, `qtv/source`; master servers, `hw`, `qw/source/master.c` | connection hash; server list with heartbeats | forward, register | channel; UDP |
| Hunk and cache, `libs/util/zone.c` | two-ended arena, cache blocks by place and by use, read locks, loaders' pointers | low and temporary allocation, `Cache_*` | models, images, sounds |
| Sound channels, `libs/audio/renderer/snd_channels.c`, `snd_mix.c`, `snd_jack.c`, `snd_dma.c`, `snd_mem.c` | array of channels and five lists over it, `sfx`/`stop`/`done` of each, locks on sounds, stream rings | start, stop, scan, mix | game thread and JACK's thread share the channels; cache |
| Sound formats and outputs, `libs/audio` | decoders, devices | decode, write | mixer |
| Command buffers, `libs/util/cbuf.c`, `cmd.c`; GIB, `libs/gib` | stack of buffers with states; interpreter threads | add, insert, execute, wait | console, configuration files |
| Utility containers, file system, images, console, models | lists, hash tables, search paths | sequential | everything |
| Progs machine and Ruamoko runtime, `libs/gamecode`, `libs/ruamoko` | byte code, strings, edicts | execute | server, menus |
| Physics and collision, `*/sv_phys.c`, `world.c`, `pmove.c` | positions, area nodes | floating-point geometry | server |
| Renderers and video, `libs/video` | drawing state | draw | client |
| `qfvis`, `tools/qfvis` | queue of portals, status and visibility sets, shared by worker threads | select, flow, complete | none |
| Compilers and map tools, build files | files | batch | none |

How they interact: below everything is a datagram network that loses, repeats
and reorders.  `Netchan` makes one reliable stream in each direction out of
it, driven by two frame loops that run once per frame and share nothing else.
On the server a client's data passes `backbuf -> message -> reliable_buf ->
packet`, and only an acknowledgement frees the last stage for the next.  The
game thread owns the cache and the sound channels; with JACK the mixer runs
concurrently on JACK's thread and takes part in the ownership of a channel
through `stop` and `done`, without a lock.  A QuakeWorld connection starts with
a connect packet that takes a slot of `svs.clients`; through its channel the
client then asks for the level's data piece by piece, while a map command may
replace the level at any time; it ends in a zombie, kept for a while so that the
last message arrives, or by a timeout.  `qfvis` stands alone.

### What is hard, and what correct means

* **Channel.** One bit acknowledges one of infinitely many messages over a
  network that reorders and repeats.  Correct: each end accepts the other's
  reliable data once and in order; a buffer is cleared only when its contents
  have arrived; a copy is resent only while it is missing; reply numbers follow
  the client's although packets are lost and withheld.
* **Backup buffers.** Writers and the sender run at different rates over a
  ring.  Correct: what is written is sent, once and in order; a waiting buffer
  can be sent at all; the oldest one does not wait forever.
* **Cache.** Every allocation may evict, move nothing that is locked, coalesce
  and give room back to the hunk.  Correct: blocks tile the high hunk, the
  lists, the owners' pointers and the blocks agree, a locked block stays, "out
  of memory" is true when it is said, loops end.
* **Sound channels.** Two threads without a lock.  Correct: every channel is on
  one list, a sound is released once per use and only when the mixer is done,
  the mixer never reads a released sound, waiting for the mixer ends.
* **Datagrams.** Resend timer against late acknowledgements, fragments.
  Correct: messages arrive whole, once, in order; with a fair network they do
  arrive.
* **Sign-on.** Requests and replies of one level arrive in another.  Correct: an
  honest client is never dropped as a cheat, its lists are of one level, it
  enters the game once per level with that level's world, and gets there in the
  end.
* **Slots.** Connect packets come late, twice, after a restart, and while a zombie
  of the same client is still there.  Correct: the count of slots is right, a
  client has one live slot, and no slot keeps it out for ever.
* **qfvis.** A portal's search is cut short by results that other threads are just
  computing.  Correct: nothing that a line reaches is missing from the result,
  every portal is flowed once, the program ends.
* **Sockets, stream rings, command buffers:** see the plan.

## 2. Modules

| module | models | kind |
|---|---|---|
| `Netchan` | both ends of a channel and the network | component |
| `QWChannel` | client and server frame loops over `Netchan` | composition, refines `Netchan!Spec` |
| `ChannelProofs` | theorems of `Netchan`, that `QWChannel` refines it, the reply policy | proofs |
| `ReliableStream` | what a socket promises: messages exactly once, whole, in order, and ready again only then | abstract specification |
| `Datagram` | both ends of a NetQuake connection: fragments, acknowledgements, resending | component, implements `ReliableStream` in each direction |
| `DatagramProofs` | its invariant and the refinement's safety part | proofs |
| `Backbuf` | backup buffers, their writers and the sending frame | component |
| `BackbufProofs` | what is written is sent, once and in order | proofs |
| `BackbufSignon` | `Backbuf` with the one writer that bypasses its functions | extension |
| `Signon` | signing on and changes of level, both programs over two reliable streams | composition |
| `SignonProofs` | never dropped, lists of one level, connection kept, levels entered loaded | proofs |
| `ServerSlots` | the server's table of clients, and clients that connect, give up, come again | component |
| `ServerSlotsProofs` | the count of slots, and when a client has two | proofs |
| `HunkCache` | hunk and cache | component |
| `HunkCacheProofs` | blocks and links, the two hunks, locks, out of memory | proofs |
| `SndChannels` | channels, game thread, mixer, JACK | component |
| `SndChannelsProofs` | one list each, locks for players, when a sound is taken | proofs |
| `PortalVis` | worker threads of `qfvis` | component |
| `PortalVisProofs` | portals flowed once, all done, nothing missed that lines reach | proofs |
| `MCQWChannel`, `MCDatagram`, `MCSndChannels`, `MCPortalVis` | bounds per end, drivers to choose from, a map, which a `.cfg` cannot write | model checking |

### Netchan

Variables carry the names of `netchan_t`'s fields, as functions of the end.
Reliable data is abstracted to numbered items and a buffer to a pair
`[from, to]` of consecutive items, enough to tell loss, repetition and
reordering; `MAX_MSGLEN` becomes `MsgCap` items.  The network is the set of
every packet ever sent; delivery takes any of them and leaves it there, which
gives loss, duplication and reordering at once.  `Netchan_Transmit` is
three actions by what it sends (`TransmitNew`, `TransmitAgain`,
`TransmitPlain`), with the overflow check as a guard of each;
`Netchan_Process` is `Accept`, used by `Process` (the client, and the server for
a zombie) and `ProcessAndMatch` (the server, where `SV_ExecuteClientMessage`
moves `outgoing_sequence`).  `SkipPacket` is the number that `pps_check` uses up.
Rate control and statistics are left out: nothing else reads them.

History variables: `received` (items accepted), `got` in a packet, and
`voided[e]`.  The last is there because of a real defect (finding `void_ack`):
before an end has heard anything its `incoming_sequence` is -1, which goes out
as an acknowledgement with the reliable bit set.  `VoidAck` stands for that
number (2^31 - 1 in the code, above every real sequence number).  `voided[e]`
becomes true only in the step in which such an acknowledgement changes what `e`
does; the properties are stated for directions where that did not happen.

### QWChannel

`EXTENDS Netchan` and adds what the frame loops know: `connected`, `dropcount`
(`pps_check`), `send_message` (a reply is owed), `zombie`, `overflow` (where the
server is in the drop of a client whose message overflowed) and `exited`.  Each action
is an action of `Netchan` under the caller's conditions: one client packet or one
skipped number per frame, a reply only to an accepted packet, none if the
sequences slipped, none if `message` has overflowed (`TryTransmit`).  `CL_SendCmd`'s
choice to withhold depends on rates and is left open but for its limit.
`SV_DropClient` is one last write.  What `SV_SendClientMessages` does with backup
buffers is left to `Backbuf`; to the channel it is a write.

Both programs also throw away what waits in `message` (`SZ_Clear`): the client for a new
level (`ClientClear`), the server in its sign-on commands (`ServerClear`).  That is
`Clear`, an action of `Netchan`: items thrown away before they were put in a packet were
never sent, and their numbers are given to what is written next.

The server sends two kinds of packet that answer none of the client's.  When `message` has
overflowed, `SV_SendClientMessages` clears it (`OverflowClear`), prints and drops the
client (`OverflowDrop`) and transmits at once (`OverflowSend`); a zombie whose `message`
overflows again, which prints can bring about, takes the same way again.
`SV_FinalMessage` and `SV_Restart_f` transmit to every live client before the server
exits (`FinalMessage`).  The ghost `forced` has the numbers of these packets, for such a
packet can carry the same `sequence_ack` as the answer before it; `OneReplyPerPacket` is
about all others.

### Datagram, ReliableStream

Variables carry the names of `qsocket_t`'s fields.  A message is a sequence of
fragments (message, place); `sendMessage` holds those not acknowledged and
`receiveMessage` those received of the present message.  A packet is data with its
number and the end-of-message flag, an acknowledgement, or an unreliable
message.  The network may lose what is written, keep a packet for later and
bring it again.  `Datagram_GetMessage` is a loop that reads several packets
before it returns: `call` says that an end is in it, `GetMessage` and
`GetMessageResend` begin it (the latter when a second has passed), each packet is
a step (`ReadPart`, `ReadLast`, `ReadRepeat`, `ReadAck`, `ReadOldAck`, `ReadUnreliable`),
and `ReadNothing` ends it with the `SendMessageNext` that a deferred fragment
asks for.  `ReadFails` returns without it, as the code does; a caller that goes on
meets the fragment in `CanSendMessage`.

`ReliableStream` has three variables and three actions.  It is written from
`NET_SendMessage`, `NET_GetMessage` and `NET_CanSendMessage`; `Datagram`
implements it under `ready <- canSend[e]`, `sent <- accepted[e]`,
`received <- delivered[peer]`, fairness included.

### Signon

One client.  Its channel is a pair of streams, each a message buffer, a block on
its way and the part of a block not yet handled; that these are reliable is what
`Netchan` and `QWChannel` are about.  Each server command (`SV_New_f`,
`SV_Soundlist_f`, `SV_Modellist_f`, `SV_PreSpawn_f`, `SV_Spawn_f`, `SV_Begin_f`) and
each thing the client parses or executes is an action under the names of the
source.  `SV_Map_f` may come between frames or, from rcon, between two packets of
a frame (its argument `now`; the latter is remembered in `remote`).  A level's
data is its number: `sounds`, `models` and `worldmodel` say of which level each part
is.  Stuffed commands are executed a frame later, in `cl_stbuf`.  A message has the
level it was sent under; where the code's message names none ("changing",
"reconnect", "skins", `svc_disconnect`) that is a ghost, which no action reads and
the invariant of `SignonProofs` is about.

### ServerSlots

`clients` is `svs.clients` with a slot's state, address, qport, and `heard`: what its
channel has accepted, a packet of the client's present connection or one of an
earlier.  That replaces sequence numbers; where the numbers of two
connections decide which packet is stale, both are possible.  `SVC_DirectConnect` is
`DupConnect`, `FullConnect` and `NewConnect`, each with the drop of the first slot of
the client's address that the function performs before (`Reconnected`);
`SV_ReadPackets` is `ReadByZombie` and `ReadByLive`, for packets of the present
(`ReadPresent`) and of earlier connections (`ReadEarlier`); `SV_CheckTimeouts` is
`TimeOut` and `ZombieEnds`; `Kick` is every other drop.  A client connects, hears
`S2C_CONNECTION`, is disconnected by a zombie's `svc_disconnect` or its own timeout,
and its user may connect anew or the program may crash and be started again
(`Restart`, with a new qport; different runs have different qports and a
client keeps its UDP port).  Connect packets and packets of ended connections
stay on their way as long as the network likes.

### Backbuf, BackbufSignon

`rel` is the `backbuf_t` together with the channel's `message` (contents and
`overflowed`).  Bytes are numbered modulo `Numbers`; bytes that other code
writes directly into `message` are the byte `Other`.  `ReliableCheckBlock`,
`ReliableWrite` and `ReliableSend` are the functions of `msg_backbuf.c`;
`Appended` is `SZ_Write` on a buffer that may overflow.  Actions: `Write` (every
caller of `MSG_ReliableWrite_*`, e.g. `SV_Multicast`), `DirectWrite`
(`PF_clientsound`), `SignOn` (`SV_New_f`, `SV_Soundlist_f`, `SV_Modellist_f`:
they throw away what waits), `Spawn` (`SV_Spawn_f` clears `message` only) and
`SendClientMessages`, a server frame: the frame's own writes, the oldest buffer
if it fits, the drop on overflow, and the channel taking `message` or not.  A
dropped client's slot is shown reused at once by a new connection
(`NewClient`, which also stands for a drop for any other reason).  The ghost
`pending` is what was written and neither handed to the channel nor
deliberately cleared by a sign-on command.  An overflow loses bytes and marks the
client to be dropped; `SV_Spawn_f` clears that mark together with the message, and then
the ghost `forgotten` remembers that bytes are missing.

`BackbufSignon` adds `PreSpawn` (`SV_PreSpawn_f`), which asks for room and then
writes without `MSG_Reliable_FinishWrite`.

### HunkCache

The arena in units of 16 bytes.  `marks` are the ends of the low hunk's
allocations, `chain` the cache blocks by address, `lru` by use, `block` their
headers, `data` the pointers in the owners' `cache_user_t`.  `Cache_Alloc` and
`Cache_Flush` are loops: `running` holds the one in progress and each eviction is
a step, so that a failure half way (`error`, what `Sys_Error` says) leaves the
state as the code does.  Sizes wrap as `size_t` does (`SizeMod`) where the code
subtracts.  `Cache_TryAlloc` cuts a block in two (`AllocCarved`); a rest smaller than a
header is cut off as well, and then the new block's `memset` runs over the header of the
rest (`AllocTorn`): it becomes any header, and the model stops, since what the program
does from there depends on the build.

### SndChannels

`sfx`, `stop`, `done` per channel as in `channel_t`, and the lists as sets
(which of several equally reusable channels comes first does not matter to the
properties).  `setup`, chosen at the start, says which driver plays which sounds:
whether the mixer is a thread of its own (JACK) or runs inside the game thread
(all others), whether JACK may go away, which sounds are streams, whether ambient
sounds can always be loaded.  `game` and `mixer` are program counters: the game thread stops
between two accesses that matter to the mixer (`SND_AllocChannel` takes the sound,
clears the channel, and the caller fills it), and the mixer between reading
`sfx`, testing `stop`/`done` and painting.
`locks` counts read locks of a sound.  `snd_shutdown` follows JACK: connection
lost, noticed after a timeout, given up, or reconnected.

### PortalVis

A thread's calls of `RecursiveClusterFlow` are a stack of frames (cluster, chain of
portals it was reached by, `mightsee` of the caller, loop variable); a round of the
loop, a return, and the completion of a portal are steps, so that threads meet each
other's `status` and `visbits` at every point.  `GetNextPortal` is
atomic under `global_lock`; reading `status` and then `visbits` of another
portal is one step because a portal that is done never changes again.  The
geometry is abstract: `Open` is the set of chains of portals that the clipping accepts,
`Clear` those that some line passes through, away from every edge by more than the
epsilons, with the few facts about lines the code relies on (`LinesAssumption`), and
`InFront` what `PortalBase` finds.  `PortalBase`'s flood is defined as the least
set closed under its rule, without recursion, so that it can be proved about.
Of `Open` it is only assumed that it contains `Clear`: with its epsilons and the
separators left out at lower levels, the clipping may accept a chain from one portal and
reject its rest from the next.  What a portal is found to see then depends on who was
done first, between what clear lines reach and what is accepted; that is what
`VisIsConservative` says.  With `Open = Clear` it would be one result.  With one
thread `RunThreads` calls the function itself.  A build without pthreads is not
modelled: `RunThreads` then calls `LeafThread` whatever it was given (`qfvis.c:558`), in
the base phase too, and flows portals whose `mightsee` nothing has computed.
Nothing resets `status` between the base phase, in which `GetNextPortal` sets it to
`selected`, and the full phase, so `UpdateMightsee` (for portals still `none`) never
takes anything away; the model has it as it is, and `PortalCompleted`, which calls it,
is one step for that reason.

## 3. Runs

All runs finish within about two and a half minutes on two cores.

| run | question | bounds |
|---|---|---|
| `qwchannel` | do the frame loops use the channel as `Netchan` allows, clearing and overflow included; is each direction exactly once and in order over a hostile network; is the inductive invariant right; does each packet get at most one reply that nothing forced, with its number | 4 client and 3 server packets, 2 of those forced, numbers up to 4 (two may be withheld), 1 item of the client and 3 of the server, one item fills `message`, so that a second one written before the first is taken overflows it |
| `void_ack` (violation) | "it has been received" | same module |
| `datagram` | does each direction implement `ReliableStream`, liveness included; do buffers, packets and numbers agree | client one message of up to 2 fragments and one unreliable, server one message of one fragment |
| `backbuf` | order and completeness through the ring, no buffer that cannot be sent, the head moves on | buffers of 4 bytes, ring of 3, blocks of 1 and 3 bytes, 2 direct writes or sign-on commands that write directly per connection (none for `signon`) |
| `signon` (violation) | what is saved for next is sent | same bounds |
| `levels` | an honest client is not dropped, lists of one level, connection kept, enters each level once with its world, ends in the game | 4 levels, 2 sound chunks, 1 model chunk, 2 signon buffers |
| `stranded` (violation) | "handle the case of a level changing while a client was connecting" | 2 levels, one of everything |
| `slots` | count of slots, second live slot only behind a zombie, a client gets in | 1 client, 3 slots, 1 connect command or restart |
| `hunkcache` | cache structure, locks, honest out-of-memory, no collision of the hunks, loops end | arena of 8, header 2, three users, block sizes 2 and 3 (a rest of 1 is less than a header), low blocks 3, temporary 1 and 3, one lock |
| `sndchannels` | ownership and release of channels, with a JACK that dies and with the mixer inside the game thread; reuse and waiting | 3 channels, a cached sound, and a stream with the other drivers |
| `mixer_race` (violation) | does the mixer read retained sounds only | 2 channels, JACK, one stream |
| `portalvis` | is nothing missed or made up in any interleaving, each portal flowed once, an end | 2 threads, 4 clusters with 8 portals |

**Why the bounds suffice.**  `qwchannel`: a message lost and noticed lost takes
three packets of its sender and two of its peer (a later plain packet must be
acknowledged with the old bit); four and three leave room for a stale copy, for a
forced packet with the acknowledgement of an answered one, and for a zombie whose message
overflows again; the theorems remove the bound.  `datagram`: two fragments are the
least for which an acknowledgement moves on inside a message and an old one
is about another fragment; the theorems remove this bound, too.  `levels`: three
changes let requests of one level meet the lists of a second while a third comes;
two chunks and two buffers make lists that can be mixed.  `slots`: clients share
nothing but the number of free slots and the count, which the theorems are about for any number;
three slots hold a zombie, the live slot it hides, and one more.  One intervention is
enough to have an earlier connection and, with a crash, an earlier qport.
`hunkcache`: three blocks are the
least for which a freed middle block coalesces with both neighbours, and an
arena of 8 makes every combination of sizes fill up, evict and fail; rests of nothing, of
less than a header and of a header or more all occur.
`sndchannels`: one channel playing, one waiting for the mixer and one being
taken is the largest constellation an action tells apart; ownership is decided
per channel.  `backbuf`: three slots give a head that is not slot 0, a wrapped tail and a
full ring; blocks of 1 and 3 in buffers of 4 give a buffer with and without
room and the boundary that one byte is kept free.  `portalvis`: the map has a corner
past which one sees one way and not the other, a cycle for `CheckStack`, two chains that the
clipping accepts though no line passes, one of them rejected from its second portal, and enough
portals that each thread meets a portal selected, working and done.  The deadlock check is off
where the bounds stop the counters, and in `HunkCache` because `Sys_Error`
ends the program; `PortalVis` is checked for deadlock.

**Fairness.**  `Netchan` and `QWChannel` have none: their properties are
safety.  `Datagram!FairSpec`: both ends call `GetMessage` each frame and the call
returns; a failed call is followed by `CanSendMessage`, as `NET_SendToAll` does;
and the network does not lose every resend of a fragment, nor every answer to it.
`Signon!FairSpec`: both programs run frame after frame and the channel gets each
block through; nobody has to change the level.  `ServerSlots!FairSpec`: clients resend
connect packets, not every `S2C_CONNECTION` is lost, a new connection's packets
get through to a slot that has heard of no other, the network does not bring the
same old packet for ever, zombies end, and what is not heard times out at either
end.  `PortalVis!FairSpec`: the system schedules every thread.  `HunkCache!FairSpec`: a loop that has started goes on (one thread; no
other code runs).  `SndChannels!FairSpec`: the game thread's loop polls and
frames go on; the mixer goes on through its pass while JACK is connected
(JACK calls `snd_jack_process` periodically).  Nothing is assumed once JACK is
gone.  `Backbuf!FairSpec`: again and again there is a frame in which nothing new
is written for the client and the channel takes the message, i.e. the client
keeps acknowledging (one that does not is dropped on timeout or overflow).

Every property of a passing run has at least one mutant in `PROJECT.json`: a
plausible slip in one mapped definition under which TLC refutes it.

## 4. Proofs

Each proof module extends the module it is about.

`ChannelProofs`, about `Netchan` (assumptions: the two ends differ, bounds are naturals,
`VoidAck` is above every sequence number):

* `TypeCorrect`: `Spec => []TypeOK`.
* `ChannelInvariant`: `Spec => []ChannelInv`, the inductive invariant.
* `ExactlyOnce`: `Spec => []InOrderExactlyOnce`.
* `ClearedOnlyIfReceived`: `Spec => []ClearedMeansReceivedUnlessVoid`.
* `NoNeedlessResend`: `Spec => ResendOnlyIfLost`.

The three results do not follow from themselves: that the receiver's bit tells
old from new holds only because of what is still in the network.  `ChannelInv`
says, per direction from e to r: the receiver has everything before the outstanding
message, or that message too, and its bit says which (`ReceiverOK`); a
reliable packet r would still accept is the last copy of the outstanding message
and r lacks it (`InFlightOK`); a header of r that e holds or would still accept
carries the right bit, and can report a message missing that has arrived only
if it predates the last copy (`HeadersOK`).  The last is why the test
`incoming_acknowledged > last_reliable_sequence` is needed and why one bit is
enough.  Beneath are facts about a single end (`BuffersOK`, `PacketsOK`,
`RecordsOK`): numbers in packets are below their sender's, later packets know at
least as much, and the acknowledgement held is that of the packet last accepted.
The proof has a lemma per action and part; `BaseSend` and `BaseAccept` carry the
common work of the three kinds of transmission and of both kinds of reading.

and about `QWChannel`:

* `ImplementsNetchan`: `ChannelSpec => Spec`, so all of the above holds of a
  real connection, also one whose messages are cleared, overflow, or end with the
  server's exit.
* `ReplyInvariant`, `AnsweredOnce`, `RepliesMatch`: the reply policy, from
  `MatchInv` (every packet of the server that was not forced acknowledges at most the
  last packet accepted, strictly less while a reply is owed, and the number of the next
  reply is the client's while the client is live).

`DatagramProofs` (assumptions: the two ends differ, bounds are naturals, messages
have at least one fragment):

* `TypeCorrect`, `StreamCorrect`: `Spec => []StreamInv`, the inductive invariant:
  numbering the fragments of all messages in order, the send buffer starts at
  `ackSequence`, the receive buffer ends at `receiveSequence`, the receiver is between
  `ackSequence` and `sendSequence`, a packet carries the fragment its number stands
  for, and only what arrived is acknowledged.  One part is not about data: no call of
  `GetMessage` begins while a fragment waits in `sendNext`, for a resend would send
  it under the number of the fragment before.
* `OneFragment`, `NumberNames`: what makes `sendSequence - 1` the right number for a
  resend, and the comparison with it enough for an acknowledgement.
* `RefinesToServer`, `RefinesToClient`: `Spec => ToServer!Spec`, i.e. the safety part of
  `ReliableStream`, for any number and length of messages.  A step of the sender or of the
  receiver is followed for one direction (`SenderStep`, `ReceiverStep`); the other
  direction's part follows by exchanging the ends.

`ServerSlotsProofs` (assumption: `maxclients` is between 1 and `MAX_CLIENTS`):

* `TypeCorrect`; `CountIsRight`: `Spec => []CountRight`.  `TakenStep` shows that a step takes
  at most one slot or frees one and counts it; the cardinality follows.
* `OnlyBehindZombie`: `Spec => SecondOnlyBehindZombie`.  Only `NewConnect` adds a live
  slot (`LiveStep`); unless a zombie is first, the first slot of the client is live and
  is dropped in the same step (`NewConnectLive`).  That the first slot exists takes the
  well-foundedness of the naturals (`FirstIsOne`).

`SignonProofs` (assumptions: lists have at least one part, a level at least one
sign-on buffer, and there is at least one level):

* `TypeCorrect`; `SignonInvariant`: `Spec => []SignonInv`, the inductive invariant.  It speaks
  of all that the client has yet to handle, in the order it was sent (`Down`:
  stuffed commands, what was parsed, sent, written), and all that the server has
  (`Up`), as sets with the relation "comes before".
  * `LevelsInv`: levels come in order, and replies are of the level the client was
    told of last; `ReconnectInv`: who hears "reconnect" was not told of that level.
  * `OneConversation`: while the client is told of its level once more (the server
    answers every "new" and every stale request so), all that is left of the earlier
    conversation is its beginning.  Without this a late reply of the first conversation
    would mix with the second.
  * `ListsInv`: the client has the parts of the lists before those it is told or asks for.
  * `StagesInv`: `prespawned` and `spawned` are set before the client can ask for what
    they allow, so that no honest request is dropped.
  * `KeptInv`: unless rcon has changed the level between two packets, "reconnect" finds the
    client connected: "changing" comes first and nothing of that level in between.
* `NeverKicked`, `OneLevelLists`, `ConnectionKept`: `HonestNeverKicked`, `ListsOfOneLevel`
  and `KeepsConnection`; `EnteredLoaded`: `Spec => EntersLoaded`.
* Beneath are facts about sequences (`ConcatFacts`, `HeadFacts`, `AppendFacts`) that let the
  handlers be reasoned about without indices; then each part has a lemma for the server's
  handlers, for the client's, for the level change and for what only moves
  messages along (`SameKeeps`).

`PortalVisProofs` (assumptions: those on lines and maps above):

* `TypeCorrect`; `FlowedOnce`: `Spec => []NeverReflowed`, from `Taken` (a portal in a thread's
  hands is not in the queue nor in another's) and `Progress`.
* `EveryPortalDone`: in the last phase every portal is done.
* `SeesNoMore`: `Spec => []VisIsSound`: a portal is never marked to see a cluster to
  which no accepted chain leads, whichever results of other threads it met; from `Lines`,
  by which every frame on a stack is reached by a chain in `Open`.
* `SeesEveryLine`: `Spec => []VisIsConservative`: nor is the end of a clear line missed.
  `NothingMissed` says of every
  chain in `Clear` that begins with the portal a thread works on: its last cluster is marked
  already, or the loop of some frame on the stack has yet to come to the chain's next
  portal.  When the loop does come to it, the portal must not be skipped: `Promising`
  (in `Nested`) keeps in `prev` every cluster that lines through the frame still reach, and
  `Known` says that `mightsee` of a portal holds all that lines from it reach, both before
  the thread and after another thread's completion.  If `mightsee` has nothing new, everything
  beyond is marked already (`MeetsTarget`, `NextExitMisses`).  A line must be
  divided at any place, which is why `LinesAssumption` speaks of prefixes and
  suffixes: of a line any part is one, of a chain the clipping accepts it need not be.
  Both are used for any length (`ClearPrefix`, `ClearSuffix`), by the
  least counterexample (`LeastPlace`), which the library's well-founded minimum gives
  without its induction theorems.

`HunkCacheProofs` (assumptions: every size passed on contains its header, as the code
adds it; `size_t` counts further than the arena; at least one lock is possible):

* `StoreInvariant`: `Spec => []StoreInv`, the inductive invariant: `ArenaInv`, or a header was
  torn (`Stopped`, after which nothing happens).  `TypeCorrect`, `CacheSound` and
  `LowMissesCache` follow; `CacheInv` claims nothing of a torn header.  To `CacheInv` (blocks tile the high hunk, the lists and the owners' pointers agree) it
  adds: the chain descends in the arena (`Descending`) and no block is empty
  (`Sized`), without which a tiling need not put neighbours next to one another;
  marks grow (`MarksGrow`), so that freeing to a mark only shrinks the low hunk; the user
  `Cache_Alloc` works for owns nothing until it succeeds (`Wanting`), however many
  blocks it evicts in between.
* `LockedBlocksStay`: `Spec => LockedStay`.
* `MemoryReallyOut`: `Spec => []OutOfMemoryHonest`.  `NoRoomLeft`: when nothing is left to
  evict every block is locked, and then neither a hole nor the gap is large enough.
* Beneath are facts about the model's list operators (`SplicedFacts`, `Inserted`,
  `WithoutFacts`) and about the arena: what one free (`FreedTiles`, with both coalescings)
  and each way of taking a block (`WholeTaken`, `CarvedTaken`, `BottomTaken`) do to the tiling.
  `CarvesAll` states what the subtraction in the wrong order comes to: the test wraps,
  so that any block larger than asked for is carved, however small the rest.  If the rest
  has room for its header the invariant survives (`CarvedTaken`); if not, the step is
  `AllocTorn`, in which locked blocks still stay (`TornSparesLocked`), and nothing is
  claimed of what comes after.

`SndChannelsProofs` (assumption: there is at least one channel):

* `TypeCorrect`; `OneListEach`: `Spec => []OnOneList`, from `ListsInv`: the lists are disjoint
  (`Apart`), nothing is on none (`Covered`), and a channel between two lists is in the game
  thread's hands, with or without a sound by where the thread is (`Starting`).
* `FreeListIsSound`, `DoneBeforeTaken` (`Spec => TakenOnlyWhenDone`), `NeighboursHaveSounds`.
* `RetainsBalance`: `Spec => []RetainBalance`: the locks of a sound are as many as the channels that
  play it (`Balance`).  `BalanceTaken` and `BalanceReleased` carry the cardinalities.
* `PaintsRetained`: with every driver but JACK's the mixer reads retained sounds only
  (`InTurn`).  With JACK it is false: finding `mixer_race`.

`BackbufProofs` (assumptions: buffers have room for a byte, a ring has at least two, a block
is shorter than a buffer):

* `TypeCorrect`; `BackbufCorrect`: `Spec => []BackbufInv`, the inductive invariant: every slot has
  its size recorded (`Sized`), and the message followed by the slots in use, oldest
  first, is what is pending (`Joined`), unless the client is marked to be dropped or
  was and `SV_Spawn_f` cleared the mark.
  `Sized` is what `SV_PreSpawn_f` breaks (finding `signon`).
* `StreamKept`: `Spec => []StreamIntact`.
* Beneath: what `MSG_ReliableCheckBlock` leaves (`CheckFacts`: room in the message, room in the
  newest buffer, or the drop), a block written (`TailWritten`, `BlockWritten`), the head's
  move around the end of the ring (`HeadFreed`), for which the other slots must be
  different ones (`SlotFacts`).  `FlattenSeq` is defined by recursion; that its defining
  equation has exactly one solution (`FlattensOnce`) is shown by induction over sequences
  (`EverySequence`), stated for a set instead of an operator and drawn from the
  library's well-founded minimum.  What it does with `Append` and `\o` follows.

So every invariant and every action property of the passing runs is a theorem for all
values of the constants.  Only model-checked: liveness (`ImplementsToServer` and
`ImplementsToClient` beyond safety, `LoopsEnd`, `StoppedIsReused`, `WaitEnds`, `HeadMovesOn`,
`SettlesUnlessStranded`, `GetsIn`, `Finishes`), which is out of the prover's reach.

## 5. Findings

1. **void_ack.**  A client's packet sent before it heard anything acknowledges
   -1 with bit 1 and clears the server's first reliable message, received or not
   (`net_chan.c`, `Netchan_Transmit`).
2. **mixer_race.**  The mixer reads `ch->sfx` before it tests `stop` and `done`;
   the game thread may release the sound and clear both flags in between.
3. **signon.**  `SV_PreSpawn_f` writes into a backup buffer without recording its
   size; if the next block opens a new buffer, the signon data is lost.
4. **stranded.**  `SV_Begin_f` sets the state to spawned before it compares levels, and the
   `SV_New_f` it then calls ignores a spawned client: one whose "begin" is for an
   earlier level may stay outside the game until the level changes again.

Seen while modelling, without a run of their own:

* `Cache_TryAlloc` compares a remainder with the header size in unsigned
  arithmetic in the wrong order; a remainder smaller than a header is made into
  a block, and the new block's `memset` overwrites part of its header (`zone.c:826`).
  Block sizes are multiples of 16 and a header has 72 bytes on 64-bit machines, so that
  remainders of 16 to 64 bytes are concerned.  With 32, the links of the use list are
  overwritten and `Cache_MakeLRU` may stop the program; otherwise the remainder has
  a wild user or has lost its size.  `AllocTorn` has the step; what follows is not modelled.
* A block that finds the ring of backup buffers full is lost, and the client marked: "this
  will drop the client" (`msg_backbuf.c:98`).  If its "spawn" is read before the next
  frame's sending, `SV_Spawn_f` clears the message and with it the mark; the client stays,
  without the block.  This is the exception `forgotten` of `StreamIntact`.
* `s_static_sound` does not look at `snd_shutdown` as its siblings do; a static sound
  started after JACK is gone makes `SND_ScanChannels (1)` wait forever.  `WaitEnds` asks
  only while JACK calls the mixer.
* A map command of rcon runs between two packets of a frame.  "changing" goes out or into
  the client's message, the level changes, and "reconnect" waits in `sv.reliable_datagram`
  for the next `SV_SendClientMessages`.  If a command of the client for the old level is
  read before that, `SV_New_f` answers it at once with the new level's serverdata, which
  gets ahead of "reconnect"; the client, no longer waiting, takes "reconnect" as a request
  to connect anew.  This is the exception `remote` of `KeepsConnection`.
* A late or repeated connect packet, or a client that comes again soon after it
  left, meets its own zombie first in the table: the zombie is dropped again, which
  restarts its time, and the client gets a second live slot although it has one.
  This is the exception of `SecondOnlyBehindZombie`.  Packets of the new connection
  with the old qport go to the zombie's channel, and its `svc_disconnect` may end
  the new connection; hence "or gives up" in `GetsIn`.
* If `S2C_CONNECTION` is lost, or a client restarts while its slot is `cs_connected`, it is
  refused as "dup connect" until `sv_timeout`.  If the server is full, a reconnect drops
  the client's slot and is then refused.
* `PF_SV_FreeClient` (`sv_pr_cmds.c`) and a change of level (`sv_init.c:194-200`) free the slots
  of the progs without uncounting them, though `SV_AllocClient` counted them.

## 6. Not modelled

* `Netchan`: wrap-around of sequence numbers (31 bits, years of play), rate
  control, the `qport` check (an address filter), demos.
* `QWChannel`: more than one client, the reuse of a slot (see `ServerSlots`), QTV's use.
* `Datagram`: how a connection is asked for and accepted, control packets, bans.
* `Signon`: downloads, backup buffers (`Backbuf`), more than one client.
* `ServerSlots`: challenges, flood and ban tests, passwords and spectators' limits, which
  only refuse; slots the progs take (`cs_server`), which a change of level frees
  without uncounting them (`sv_init.c:194`); translated ports.
* `PortalVis`: windings and planes, the minimal mode, the watching thread, a build without
  pthreads, memory weaker than sequentially consistent, output.
* `Backbuf`: `SV_FlushRedirect` with `MSG_ReliableCheckSize` (planned), QTV
  proxies, which use the same ring, and blocks as long as a buffer.  The several
  blocks a command writes are shown as one; more follow as `Write`.
* `HunkCache`: the zone allocator (`Z_Malloc`), `Hunk_Check`, names; loaders are
  left open but for what they allocate.
* `SndChannels`: the music player's private channel (`cd_file.c`), two mixers
  after a reconnection, positions and volumes, the buffer of a stream, and what a
  change of the game directory does to the ambient sounds (`s_channels_gamedir`).  Two
  steps are there without a property: `StaticOverrun` (the array of static
  sounds is full, nothing checks it) and `PlayUnretained` (an ambient sound whose
  retain failed plays all the same); see the hazards.
* Drawing, physics, byte code, parsing, compilers, formats, system calls:
  arithmetic or I/O without state a model checker would explore usefully.
  `PROJECT.json` gives the reason for each component.

## 7. Plan

In this order; each module comes with its run, then its proofs.

1. `NetSockets`: free and active lists, loopback queues, `NET_Shutdown`'s loop, which
   follows `sock->next` after `NET_Close` has moved the socket.
2. Connecting and accepting NetQuake connections, on top of `Datagram`.
3. `StreamRing`: `SND_StreamAdvance` and `fill_buffer` as functions, checked
   against a reference definition of the stream's position.
4. `Backbuf`: `SV_FlushRedirect`; the delta frame ring of `sv_ents.c` and
   `cl_ents.c`.
5. `Netchan` as an implementation of `ReliableStream` where no void acknowledgement
   interfered.
