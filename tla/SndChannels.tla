---------------------------- MODULE SndChannels ----------------------------
(***************************************************************************)
(* Sound channels (libs/audio/renderer: snd_channels.c, snd_mix.c and the  *)
(* drivers snd_jack.c and snd_dma.c).  The game thread hands channels to   *)
(* the mixer by setting sfx, asks for them back with stop, and may use     *)
(* them again once the mixer answered with done.  With JACK the mixer is a *)
(* callback on a thread of its own, with the other drivers it runs inside  *)
(* the game thread.                                                        *)
(*                                                                         *)
(* A cached sound s has locks[s] read locks, and without any no buffer the *)
(* mixer may use.  A stream is opened for one channel and freed when that  *)
(* channel gives it up: locks[s] is 1 in between.  Which channels an       *)
(* entity's new sound or stop concerns is left open, as is when a sound    *)
(* ends; pausing and volumes do not change who owns a channel.  The lists  *)
(* are sets: which of several reusable channels is first is left open.     *)
(***************************************************************************)
EXTENDS Integers, FiniteSets

CONSTANTS
    MaxChannels,    \* channels are 1..MaxChannels
    MaxStatic,      \* MAX_STATIC_CHANNELS, the length of static_channels
    Sounds,
    Setups,         \* the drivers and sounds to choose from
    NoSound, NoChannel

ASSUME ChannelsAssumption == MaxChannels \in Nat \ {0} /\ MaxStatic \in Nat
(* What does not change while the program runs.                            *)
ASSUME SetupsAssumption ==
    Setups \subseteq
        [threaded : BOOLEAN,          \* the mixer is a thread of its own (snd_jack.c)
         jackDies : BOOLEAN,          \* the JACK server may go away
         sounds : SUBSET Sounds,      \* the sounds that are played
         streams : SUBSET Sounds,     \* those that are streams, the others are cached
         ambientsLoad : BOOLEAN]      \* ambient sounds can always be cached
ASSUME NoneAssumption == NoSound \notin Sounds /\ NoChannel \notin Nat

Channels == 1..MaxChannels

VARIABLES
    setup,            \* the driver and the sounds
    sfx, stop, done,  \* of each channel
    locks,            \* read locks on each sound's buffer
    free,             \* free_channels
    dynamic, looped,  \* dynamic_channels, looped_dynamic_channels
    static,           \* static_channels below snd_num_statics
    spare,            \* static_channels[snd_num_statics], if it has a channel
    ambient,          \* an ambient channel, or NoChannel
    game,             \* where the game thread is
    mixer,            \* where the mixer is
    snd_shutdown,     \* 0 connected to JACK, 1 connection lost, 2 given up
    overrun           \* static_channels was indexed beyond its end

chanvars  == <<sfx, stop, done>>
listvars  == <<free, dynamic, looped, static, spare, ambient>>
hostvars  == <<setup, snd_shutdown, overrun>>
vars      == <<chanvars, locks, listvars, game, mixer, hostvars>>

Lists == {"dynamic", "looped", "static", "ambient"}
Idle == [at |-> "idle"]
Game == {Idle} \cup [at : {"wait"}]
        \cup [at : {"reclaim", "reset", "play"}, chan : Channels, list : Lists]
Mixer == {Idle} \cup [at : {"load"}, chan : Channels]
         \cup [at : {"test", "paint"}, chan : Channels, sfx : Sounds]

Threaded == setup.threaded
Streams == setup.streams

TypeOK ==
    /\ setup \in Setups
    /\ sfx \in [Channels -> Sounds \cup {NoSound}]
    /\ stop \in [Channels -> BOOLEAN]
    /\ done \in [Channels -> BOOLEAN]
    /\ locks \in [Sounds -> Nat]
    /\ free \subseteq Channels
    /\ dynamic \subseteq Channels
    /\ looped \subseteq Channels
    /\ static \subseteq Channels
    /\ spare \in Channels \cup {NoChannel}
    /\ ambient \in Channels \cup {NoChannel}
    /\ game \in Game
    /\ mixer \in Mixer
    /\ snd_shutdown \in 0..2
    /\ overrun \in BOOLEAN

Init ==     \* SND_Channels_Init
    /\ setup \in Setups
    /\ sfx = [c \in Channels |-> NoSound]
    /\ stop = [c \in Channels |-> FALSE]
    /\ done = [c \in Channels |-> FALSE]
    /\ locks = [s \in Sounds |-> 0]
    /\ free = Channels
    /\ dynamic = {} /\ looped = {} /\ static = {}
    /\ spare = NoChannel /\ ambient = NoChannel
    /\ game = Idle
    /\ mixer = Idle
    /\ snd_shutdown = 0
    /\ overrun = FALSE

(* In one thread the game and the mixer run to completion in turn.         *)
GameAt(pc) == game.at = pc /\ ~overrun /\ (Threaded \/ mixer = Idle)
Connected == snd_shutdown = 0
Painting == IF Threaded THEN Connected ELSE game = Idle

----------------------------------------------------------------------------
(* SND_AllocChannel, on behalf of a list *)

Reusable_Stopped(c) == sfx[c] = NoSound \/ stop[c]
Reusable(c) == sfx[c] = NoSound \/ done[c]

Stopped_Never(C) == stop

(* Channels that leave a list are stopped and go to the free list.         *)
Stopped(C) == [c \in Channels |-> stop[c] \/ c \in C]

Alloc(list, freed) ==
    IF \E c \in freed : Reusable(c)
      THEN \E c \in freed :
              /\ Reusable(c)
              /\ free' = freed \ {c}
              /\ game' = [at |-> IF sfx[c] = NoSound THEN "reset" ELSE "reclaim",
                          chan |-> c, list |-> list]
      ELSE free' = freed /\ game' = Idle      \* "out of channels"

(* SND_StartSound, s_pick_channel: finished sounds, and the looped ones    *)
(* the new sound replaces, give their channels up first.                   *)
Finished_DoneOnly(C) == {c \in C : sfx[c] # NoSound /\ done[c]}
Finished(C) == {c \in C : sfx[c] = NoSound \/ done[c]}

StartSound(list) ==
    /\ GameAt("idle") /\ Connected
    /\ \E replaced \in SUBSET looped :
          LET over == Finished(dynamic) \cup Finished(looped) \cup replaced IN
          /\ dynamic' = dynamic \ over
          /\ looped' = looped \ over
          /\ stop' = Stopped(over)
          /\ Alloc(list, free \cup over)
    /\ UNCHANGED <<sfx, done, locks, static, spare, ambient, mixer, hostvars>>

(* SND_StaticSound and s_updateAmbientSounds, when they need a channel.    *)
(* Static sounds are added even without JACK.                              *)
AllocStatic ==
    /\ GameAt("idle")
    /\ Cardinality(static) < MaxStatic
    /\ spare = NoChannel
    /\ Alloc("static", free)
    /\ UNCHANGED <<chanvars, locks, dynamic, looped, static, spare, ambient,
                   mixer, hostvars>>

AllocAmbient ==
    /\ GameAt("idle") /\ Connected
    /\ ambient = NoChannel
    /\ Alloc("ambient", free)
    /\ UNCHANGED <<chanvars, locks, dynamic, looped, static, spare, ambient,
                   mixer, hostvars>>

(* Nothing keeps snd_num_statics below MAX_STATIC_CHANNELS.                *)
StaticOverrun ==
    /\ GameAt("idle")
    /\ Cardinality(static) = MaxStatic
    /\ overrun' = TRUE
    /\ UNCHANGED <<chanvars, locks, listvars, game, mixer, setup, snd_shutdown>>

Reclaim_NoRelease ==
    /\ GameAt("reclaim")
    /\ sfx' = [sfx EXCEPT ![game.chan] = NoSound]
    /\ game' = [game EXCEPT !.at = "reset"]
    /\ UNCHANGED <<stop, done, locks, listvars, mixer, hostvars>>

(* SND_CacheRelease only warns if there is no lock.                        *)
Released(n, count) == IF count < n THEN n - count ELSE 0

Reclaim ==      \* release, close, sfx = 0
    /\ GameAt("reclaim")
    /\ locks' = [locks EXCEPT ![sfx[game.chan]] = Released(@, 1)]
    /\ sfx' = [sfx EXCEPT ![game.chan] = NoSound]
    /\ game' = [game EXCEPT !.at = "reset"]
    /\ UNCHANGED <<stop, done, listvars, mixer, hostvars>>

Joined(S, list) == IF game.list = list THEN S \cup {game.chan} ELSE S

Reset ==        \* memset, and the channel joins its list
    /\ GameAt("reset")
    /\ stop' = [stop EXCEPT ![game.chan] = FALSE]
    /\ done' = [done EXCEPT ![game.chan] = FALSE]
    /\ dynamic' = Joined(dynamic, "dynamic")
    /\ looped' = Joined(looped, "looped")
    /\ spare' = IF game.list = "static" THEN game.chan ELSE spare
    /\ ambient' = IF game.list = "ambient" THEN game.chan ELSE ambient
    /\ game' = [game EXCEPT !.at = "play"]
    /\ UNCHANGED <<sfx, locks, free, static, mixer, hostvars>>

Retain(s) ==    \* a stream is another one each time it is opened
    /\ s \in Streams => locks[s] = 0
    /\ locks' = [locks EXCEPT ![s] = @ + 1]

PlayOn_Unretained(c, s) ==
    /\ UNCHANGED locks
    /\ sfx' = [sfx EXCEPT ![c] = s]
    /\ UNCHANGED <<stop, done, free, dynamic, looped, ambient, mixer, hostvars>>

(* The end of SND_StartSound, SND_StaticSound or s_updateAmbientSounds:    *)
(* the sound is opened and retained, and only then given to the channel.   *)
PlayOn(c, s) ==
    /\ Retain(s)
    /\ sfx' = [sfx EXCEPT ![c] = s]
    /\ UNCHANGED <<stop, done, free, dynamic, looped, ambient, mixer, hostvars>>

Play ==
    /\ GameAt("play")
    /\ \E s \in setup.sounds : PlayOn(game.chan, s)
    /\ IF game.list = "static"
         THEN static' = static \cup {game.chan} /\ spare' = NoChannel
         ELSE UNCHANGED <<static, spare>>
    /\ game' = Idle

(* The sound cannot be opened or retained: a new dynamic channel is        *)
(* stopped again, the others wait on their lists.                          *)
PlayFails ==
    /\ GameAt("play")
    /\ LET back == {game.chan} \cap (dynamic \cup looped) IN
          /\ dynamic' = dynamic \ back
          /\ looped' = looped \ back
          /\ free' = free \cup back
          /\ stop' = Stopped(back)
    /\ game' = Idle
    /\ UNCHANGED <<sfx, done, locks, static, spare, ambient, mixer, hostvars>>

(* A static or ambient channel that was left without a sound gets one.     *)
PlaySpare ==
    /\ GameAt("idle")
    /\ spare # NoChannel /\ Cardinality(static) < MaxStatic
    /\ \E s \in setup.sounds : PlayOn(spare, s)
    /\ static' = static \cup {spare}
    /\ spare' = NoChannel
    /\ UNCHANGED game

PlayAmbient ==
    /\ GameAt("idle") /\ Connected
    /\ ambient # NoChannel /\ sfx[ambient] = NoSound
    /\ \E s \in setup.sounds : PlayOn(ambient, s)
    /\ UNCHANGED <<static, spare, game>>

(* s_updateAmbientSounds ignores what retain returns.                      *)
PlayUnretained ==
    /\ ~setup.ambientsLoad
    /\ \/ GameAt("play") /\ game.list = "ambient"
       \/ GameAt("idle") /\ Connected /\ ambient # NoChannel /\ sfx[ambient] = NoSound
    /\ \E s \in setup.sounds \ Streams :
          /\ locks[s] = 0
          /\ sfx' = [sfx EXCEPT ![ambient] = s]
    /\ game' = Idle
    /\ UNCHANGED <<stop, done, locks, listvars, mixer, hostvars>>

----------------------------------------------------------------------------
(* Stopping *)

StopSound_KeepsLooped ==
    /\ GameAt("idle")
    /\ \E C \in (SUBSET (dynamic \cup looped)) \ {{}} :
          /\ dynamic' = dynamic \ C
          /\ free' = free \cup C
          /\ stop' = Stopped(C)
    /\ UNCHANGED <<sfx, done, locks, looped, static, spare, ambient, game, mixer,
                   hostvars>>

StopSound ==
    /\ GameAt("idle")
    /\ \E C \in (SUBSET (dynamic \cup looped)) \ {{}} :
          /\ dynamic' = dynamic \ C
          /\ looped' = looped \ C
          /\ free' = free \cup C
          /\ stop' = Stopped(C)
    /\ UNCHANGED <<sfx, done, locks, static, spare, ambient, game, mixer, hostvars>>

(* SND_ScanChannels: every channel the mixer is done with gives up its     *)
(* sound.                                                                  *)
Over(finished) == {c \in Channels : sfx[c] # NoSound /\ finished[c]}
ReleaseOver(finished) ==
    /\ locks' = [s \in Sounds |->
          Released(locks[s], Cardinality({c \in Over(finished) : sfx[c] = s}))]
    /\ sfx' = [c \in Channels |-> IF c \in Over(finished) THEN NoSound ELSE sfx[c]]

(* In one thread a stopped channel is done at once.                        *)
Quiet == [c \in Channels |-> done[c] \/ (sfx[c] # NoSound /\ stop[c])]
ScanNow ==
    /\ ~Threaded
    /\ GameAt("idle")
    /\ done' = Quiet
    /\ ReleaseOver(Quiet)
    /\ UNCHANGED <<stop, listvars, game, mixer, hostvars>>

(* SND_StopAllSounds; s_stop_all_sounds goes on to SND_ScanChannels.       *)
StopAll ==
    LET all == dynamic \cup looped \cup static \cup ({spare, ambient} \ {NoChannel})
    IN
    /\ GameAt("idle")
    /\ dynamic' = {} /\ looped' = {} /\ static' = {}
    /\ spare' = NoChannel /\ ambient' = NoChannel
    /\ free' = free \cup all
    /\ stop' = Stopped(all)
    /\ game' = [at |-> "wait"]
    /\ UNCHANGED <<sfx, done, locks, mixer, hostvars>>

(* SND_ScanChannels (0) or (1): the latter asks every channel to stop and  *)
(* polls until the mixer is done with all.                                 *)
Busy_IgnoresDone == {c \in Channels : sfx[c] # NoSound}
Busy == {c \in Channels : sfx[c] # NoSound /\ ~done[c]}

ScanAsk ==
    /\ Threaded /\ GameAt("wait")
    /\ Busy # {}
    /\ stop' = Stopped(Busy)
    /\ UNCHANGED <<sfx, done, locks, listvars, game, mixer, hostvars>>

ScanRelease ==
    /\ GameAt("wait")
    /\ Threaded => Busy = {}
    /\ done' = IF Threaded THEN done ELSE Quiet
    /\ ReleaseOver(done')
    /\ game' = Idle
    /\ UNCHANGED <<stop, listvars, mixer, hostvars>>

(* s_finish_channels *)
Finish ==
    /\ stop' = [c \in Channels |-> TRUE]
    /\ done' = [c \in Channels |-> TRUE]
    /\ UNCHANGED <<sfx, locks, listvars, game, mixer, setup, overrun>>

(* snd_jack_shutdown: called by JACK between two mixes, at any point of    *)
(* the game thread.                                                        *)
JackShutdown ==
    /\ Threaded /\ setup.jackDies
    /\ Connected /\ mixer = Idle
    /\ snd_shutdown' = 1
    /\ Finish

(* s_update: the mixer, late or stuck anywhere, has not run for a second.  *)
(* The connection is tried again at once.                                  *)
JackTimesOut ==
    /\ Threaded /\ setup.jackDies
    /\ GameAt("idle") /\ Connected
    /\ snd_shutdown' \in {0, 2}
    /\ Finish

(* s_jack_connect, from s_update, tries once.                              *)
Reconnect ==
    /\ GameAt("idle")
    /\ snd_shutdown = 1
    /\ snd_shutdown' \in {0, 2}
    /\ UNCHANGED <<chanvars, locks, listvars, game, mixer, setup, overrun>>

----------------------------------------------------------------------------
(* The mixer: SND_PaintChannels goes through all channels. *)

NextChannel_OneMore(c) ==
    IF c > MaxChannels THEN Idle ELSE [at |-> "load", chan |-> c + 1]
NextChannel(c) ==
    IF c = MaxChannels THEN Idle ELSE [at |-> "load", chan |-> c + 1]

MixerOnly == UNCHANGED <<sfx, stop, locks, listvars, game, hostvars>>

MixStart ==
    /\ mixer = Idle
    /\ Painting
    /\ mixer' = [at |-> "load", chan |-> 1]
    /\ UNCHANGED done /\ MixerOnly

MixLoad ==
    /\ mixer.at = "load"
    /\ mixer' = IF sfx[mixer.chan] = NoSound
                  THEN NextChannel(mixer.chan)
                  ELSE [at |-> "test", chan |-> mixer.chan, sfx |-> sfx[mixer.chan]]
    /\ UNCHANGED done /\ MixerOnly

HasBuffer(s) == s \in Streams \/ locks[s] > 0

MixTest_NoAnswer ==
    /\ mixer.at = "test"
    /\ mixer' = IF stop[mixer.chan] \/ done[mixer.chan] \/ ~HasBuffer(mixer.sfx)
                  THEN NextChannel(mixer.chan)
                  ELSE [mixer EXCEPT !.at = "paint"]
    /\ UNCHANGED done /\ MixerOnly

MixTest ==         \* SND_CacheGetBuffer finds no buffer if there is no lock
    /\ mixer.at = "test"
    /\ IF stop[mixer.chan] \/ done[mixer.chan]
         THEN /\ done' = [done EXCEPT ![mixer.chan] = TRUE]
              /\ mixer' = NextChannel(mixer.chan)
         ELSE /\ mixer' = IF HasBuffer(mixer.sfx)
                            THEN [mixer EXCEPT !.at = "paint"]
                            ELSE NextChannel(mixer.chan)
              /\ UNCHANGED done
    /\ MixerOnly

MixPaint ==         \* the sound may end here, or its source die
    /\ mixer.at = "paint"
    /\ \E ended \in BOOLEAN :
          done' = [done EXCEPT ![mixer.chan] = @ \/ ended]
    /\ mixer' = NextChannel(mixer.chan)
    /\ MixerOnly

Mix == MixStart \/ MixLoad \/ MixTest \/ MixPaint

----------------------------------------------------------------------------
Next ==
    \/ \E list \in {"dynamic", "looped"} : StartSound(list)
    \/ AllocStatic \/ AllocAmbient \/ StaticOverrun
    \/ Reclaim \/ Reset \/ Play \/ PlayFails \/ PlayUnretained \/ PlaySpare \/ PlayAmbient
    \/ StopSound \/ ScanNow \/ StopAll \/ ScanAsk \/ ScanRelease
    \/ JackShutdown \/ JackTimesOut \/ Reconnect
    \/ Mix

Spec == Init /\ [][Next]_vars

(* JACK keeps calling snd_jack_process; the game thread keeps running.     *)
FairSpec == Spec /\ WF_vars(Mix) /\ WF_vars(ScanAsk) /\ WF_vars(ScanRelease)

----------------------------------------------------------------------------
(* Properties *)

(* A sound is retained once for each channel that plays it: nothing leaks, *)
(* and SND_CacheRelease never warns that someone "screwed up in the sound  *)
(* engine".  This takes ambient sounds that can be retained.               *)
RetainBalance ==
    setup.ambientsLoad =>
        \A s \in Sounds : locks[s] = Cardinality({c \in Channels : sfx[c] = s})

(* SND_ChannelStop: freeing a channel twice "will create a loop in the     *)
(* free list".  Every channel is on one list, or in the game thread's      *)
(* hands between two.                                                      *)
Held == IF game.at \in {"reclaim", "reset"} THEN {game.chan} ELSE {}
Statics == static \cup ({spare} \ {NoChannel})
Ambients == {ambient} \ {NoChannel}
OnOneList ==
    LET parts == <<free, dynamic, looped, Statics, Ambients, Held>> IN
    \A c \in Channels : Cardinality({i \in 1..6 : c \in parts[i]}) = 1

(* SND_AllocChannel, "bogus channel free list": a free channel that is not *)
(* reusable has been asked to stop.                                        *)
FreeListSound == \A c \in free : Reusable(c) \/ stop[c]

(* snd_internal.h, on stop and done: a channel's sound is taken away only  *)
(* when the mixer is done with it.                                         *)
TakenOnlyWhenDone ==
    [][\A c \in Channels : sfx[c] # NoSound /\ sfx'[c] # sfx[c] => done'[c]]_vars

(* The mixer paints from a sound only while a lock keeps its buffer, and   *)
(* never asks a stream that was freed: with a driver that mixes inside the *)
(* game thread, and, as the comment at the memset has it, with any.        *)
MixerUsesRetained == mixer.at = "paint" => locks[mixer.sfx] > 0
MixerUsesRetainedInTurn == ~Threaded => MixerUsesRetained

(* snd_check_channels looks at the sound of every channel that was started *)
(* before without testing that there is one.                               *)
NeighboursPlay ==
    game.at = "play" /\ game.list \in {"dynamic", "looped"} =>
        \A c \in (dynamic \cup looped) \ {game.chan} : sfx[c] # NoSound

(* A channel the game thread gave up can be used again, in the end, as     *)
(* long as JACK calls the mixer.                                           *)
StoppedIsReused ==
    \A c \in Channels :
        Threaded /\ c \in free /\ ~Reusable(c) ~> Reusable(c) \/ ~Connected

(* Waiting for the mixer (stopsound, a change of level) ends if JACK is    *)
(* there.                                                                  *)
WaitEnds == game.at = "wait" ~> game.at = "idle" \/ ~Connected
=============================================================================
