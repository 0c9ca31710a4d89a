------------------------- MODULE SndChannelsProofs -------------------------
(***************************************************************************)
(* What holds of the sound channels for any number of channels and sounds, *)
(* with any driver: every channel is on one list, sounds are retained once *)
(* for each channel that plays them, and a sound is taken from a channel   *)
(* only when the mixer is done with it.                                    *)
(***************************************************************************)
EXTENDS SndChannels, FiniteSetTheorems, TLAPS

(* Every channel is on one of the lists or in the game thread's hands, and *)
(* on no two of them: OnOneList, with the alternatives spelled out.        *)
Apart ==
    /\ free \cap (dynamic \cup looped \cup Statics \cup Ambients \cup Held) = {}
    /\ dynamic \cap (looped \cup Statics \cup Ambients \cup Held) = {}
    /\ looped \cap (Statics \cup Ambients \cup Held) = {}
    /\ Statics \cap (Ambients \cup Held) = {}
    /\ Ambients \cap Held = {}
Covered ==
    Channels = free \cup dynamic \cup looped \cup Statics \cup Ambients \cup Held

(* Where the channel is that the game thread is about to start, and what   *)
(* it still holds.  Nobody but the game thread gives a channel a sound.    *)
Starting ==
    /\ game.at \in {"reclaim", "reset"} =>
          /\ game.list = "static" => spare = NoChannel
          /\ game.list = "ambient" => ambient = NoChannel
    /\ game.at = "reclaim" => sfx[game.chan] # NoSound /\ done[game.chan]
    /\ game.at \in {"reset", "play"} => sfx[game.chan] = NoSound
    /\ game.at = "play" =>
          /\ game.list = "dynamic" => game.chan \in dynamic
          /\ game.list = "looped" => game.chan \in looped
          /\ game.list = "static" => game.chan = spare
          /\ game.list = "ambient" => game.chan = ambient
    /\ spare # NoChannel => sfx[spare] = NoSound

(* A new dynamic sound was preceded by a look through both lists, which    *)
(* nothing adds to until it plays.                                         *)
Neighbours ==
    game.at \in {"reclaim", "reset", "play"} /\ game.list \in {"dynamic", "looped"} =>
        \A c \in (dynamic \cup looped) \ {game.chan} : sfx[c] # NoSound

(* The locks on a sound are its players; an ambient sound that is played   *)
(* without a lock is a cached one.                                         *)
Players(s) == {c \in Channels : sfx[c] = s}
Balance ==
    \A s \in Sounds :
        setup.ambientsLoad \/ s \in Streams => locks[s] = Cardinality(Players(s))

(* Without a thread of its own the mixer runs while the game thread does   *)
(* not, so that what it has read is still so.                              *)
InTurn ==
    ~Threaded =>
        /\ game = Idle \/ mixer = Idle
        /\ mixer.at \in {"test", "paint"} => sfx[mixer.chan] = mixer.sfx
        /\ mixer.at = "paint" => locks[mixer.sfx] > 0

ListsInv == Apart /\ Covered /\ Starting
ChannelInv == TypeOK /\ ListsInv /\ FreeListSound /\ Neighbours /\ Balance /\ InTurn

----------------------------------------------------------------------------
(* Types *)

LEMMA OneIsAChannel == 1 \in Channels /\ \A c \in Channels : c # MaxChannels => c + 1 \in Channels
BY ChannelsAssumption DEF Channels

LEMMA NotAChannel == NoChannel \notin Channels
BY NoneAssumption DEF Channels

LEMMA ChannelsFinite ==
    \A C : C \subseteq Channels => IsFiniteSet(C) /\ Cardinality(C) \in Nat
<1>1. IsFiniteSet(Channels)
  BY ChannelsAssumption, FS_Interval DEF Channels
<1>2. ASSUME NEW C, C \subseteq Channels
      PROVE  IsFiniteSet(C) /\ Cardinality(C) \in Nat
  BY <1>1, <1>2, FS_Subset, FS_CardinalityType
<1> QED BY <1>2

LEMMA SetupTypes ==
    ASSUME TypeOK
    PROVE  /\ setup.sounds \subseteq Sounds /\ setup.streams \subseteq Sounds
           /\ setup.threaded \in BOOLEAN
BY SetupsAssumption DEF TypeOK

LEMMA InitType == Init => TypeOK
<1> SUFFICES ASSUME Init PROVE TypeOK
  OBVIOUS
<1>1. game \in Game /\ mixer \in Mixer
  BY DEF Init, Game, Mixer
<1>2. sfx \in [Channels -> Sounds \cup {NoSound}] /\ locks \in [Sounds -> Nat]
  BY DEF Init
<1>3. stop \in [Channels -> BOOLEAN] /\ done \in [Channels -> BOOLEAN] /\ overrun \in BOOLEAN
  BY Zenon DEF Init
<1>4. snd_shutdown \in 0..2
  BY DEF Init
<1> QED BY <1>1, <1>2, <1>3, <1>4 DEF Init, TypeOK

LEMMA AllocType ==
    ASSUME TypeOK, NEW list \in Lists, NEW freed \in SUBSET Channels, Alloc(list, freed)
    PROVE  free' \in SUBSET Channels /\ game' \in Game
BY DEF Alloc, Game

LEMMA StoppedType ==
    ASSUME TypeOK, NEW C
    PROVE  Stopped(C) \in [Channels -> BOOLEAN]
BY DEF TypeOK, Stopped

LEMMA StepType == TypeOK /\ [Next]_vars => TypeOK'
<1> SUFFICES ASSUME TypeOK, [Next]_vars PROVE TypeOK'
  OBVIOUS
<1> USE SetupTypes
<1>1. ASSUME NEW list \in {"dynamic", "looped"}, StartSound(list) PROVE TypeOK'
  <2>1. PICK replaced \in SUBSET looped :
          LET over == Finished(dynamic) \cup Finished(looped) \cup replaced IN
          /\ dynamic' = dynamic \ over
          /\ looped' = looped \ over
          /\ stop' = Stopped(over)
          /\ Alloc(list, free \cup over)
    BY <1>1 DEF StartSound
  <2> DEFINE over == Finished(dynamic) \cup Finished(looped) \cup replaced
  <2>2. over \in SUBSET Channels
    BY DEF TypeOK, Finished
  <2>3. free' \in SUBSET Channels /\ game' \in Game
    BY <2>1, <2>2, AllocType DEF TypeOK, Lists
  <2>4. stop' \in [Channels -> BOOLEAN]
    BY <2>1, StoppedType
  <2> QED BY <1>1, <2>1, <2>3, <2>4 DEF StartSound, TypeOK, hostvars
<1>2. CASE AllocStatic
  BY <1>2, AllocType DEF AllocStatic, TypeOK, Lists, chanvars, hostvars
<1>3. CASE AllocAmbient
  BY <1>3, AllocType DEF AllocAmbient, TypeOK, Lists, chanvars, hostvars
<1>4. CASE StaticOverrun
  BY <1>4 DEF StaticOverrun, TypeOK, chanvars, listvars
<1>5. CASE Reclaim
  <2>1. game.chan \in Channels /\ game' \in Game
    BY <1>5 DEF Reclaim, GameAt, TypeOK, Game, Idle
  <2>2. locks' \in [Sounds -> Nat]
    <3>1. \A n \in Nat : Released(n, 1) \in Nat
      BY DEF Released
    <3> QED BY <3>1, <1>5 DEF Reclaim, TypeOK
  <2> QED BY <1>5, <2>1, <2>2 DEF Reclaim, TypeOK, listvars, hostvars
<1>6. CASE Reset
  <2>1. game.chan \in Channels /\ game' \in Game
    BY <1>6 DEF Reset, GameAt, TypeOK, Game, Idle
  <2> QED BY <1>6, <2>1 DEF Reset, Joined, TypeOK, hostvars
<1>7. ASSUME NEW c \in Channels, NEW s \in setup.sounds, PlayOn(c, s),
             game' \in Game, static' \in SUBSET Channels,
             spare' \in Channels \cup {NoChannel}
      PROVE  TypeOK'
  BY <1>7 DEF PlayOn, Retain, TypeOK, hostvars
<1>8. CASE Play
  <2>1. game.chan \in Channels
    BY <1>8 DEF Play, GameAt, TypeOK, Game, Idle
  <2> QED BY <1>7, <1>8, <2>1 DEF Play, TypeOK, Game
<1>9. CASE PlayFails
  BY <1>9, StoppedType DEF PlayFails, TypeOK, Game, hostvars
<1>10. CASE PlayUnretained
  BY <1>10 DEF PlayUnretained, TypeOK, Game, listvars, hostvars
<1>11. CASE PlaySpare
  BY <1>7, <1>11 DEF PlaySpare, TypeOK
<1>12. CASE PlayAmbient
  BY <1>7, <1>12 DEF PlayAmbient, TypeOK
<1>13. CASE StopSound
  BY <1>13, StoppedType DEF StopSound, TypeOK, hostvars
<1>14. ASSUME NEW finished, ReleaseOver(finished)
       PROVE  locks' \in [Sounds -> Nat] /\ sfx' \in [Channels -> Sounds \cup {NoSound}]
  <2>1. \A C : C \subseteq Channels => Cardinality(C) \in Nat
    BY ChannelsFinite
  <2>2. ASSUME NEW s \in Sounds
        PROVE  Released(locks[s], Cardinality({c \in Over(finished) : sfx[c] = s})) \in Nat
    <3>1. Cardinality({c \in Over(finished) : sfx[c] = s}) \in Nat
      BY <2>1 DEF Over
    <3> QED BY <3>1, <2>2 DEF Released, TypeOK
  <2> QED BY <1>14, <2>2 DEF ReleaseOver, TypeOK
<1>15. CASE ScanNow
  BY <1>14, <1>15 DEF ScanNow, Quiet, TypeOK, listvars, hostvars
<1>16. CASE StopAll
  BY <1>16, StoppedType DEF StopAll, TypeOK, Game, hostvars
<1>17. CASE ScanAsk
  BY <1>17, StoppedType DEF ScanAsk, TypeOK, listvars, hostvars
<1>18. CASE ScanRelease
  BY <1>14, <1>18 DEF ScanRelease, Quiet, TypeOK, Game, listvars, hostvars
<1>19. CASE JackShutdown \/ JackTimesOut
  <2>1. snd_shutdown' \in 0..2 /\ Finish
    BY <1>19 DEF JackShutdown, JackTimesOut
  <2> QED BY <2>1 DEF Finish, TypeOK, listvars
<1>20. CASE Reconnect
  BY <1>20 DEF Reconnect, TypeOK, chanvars, listvars
<1>21. CASE Mix
  <2>1. \A c \in Channels : NextChannel(c) \in Mixer
    BY OneIsAChannel DEF NextChannel, Mixer
  <2>2. CASE MixStart
    BY <2>2, OneIsAChannel DEF MixStart, MixerOnly, Mixer, TypeOK, listvars, hostvars
  <2>3. CASE MixLoad
    BY <2>1, <2>3 DEF MixLoad, MixerOnly, Mixer, Idle, TypeOK, listvars, hostvars
  <2>4. CASE MixTest
    <3>1. mixer.chan \in Channels /\ mixer.sfx \in Sounds /\ mixer.at = "test"
      BY <2>4 DEF MixTest, Mixer, Idle, TypeOK
    <3>2. mixer \in [at : {"test", "paint"}, chan : Channels, sfx : Sounds]
      BY <3>1 DEF Mixer, Idle, TypeOK
    <3>3. [mixer EXCEPT !.at = "paint"] \in Mixer
      BY <3>2 DEF Mixer
    <3>4. mixer' \in Mixer /\ done' \in [Channels -> BOOLEAN]
      BY <2>1, <2>4, <3>1, <3>3 DEF MixTest, TypeOK
    <3> QED BY <2>4, <3>4 DEF MixTest, MixerOnly, TypeOK, listvars, hostvars
  <2>5. CASE MixPaint
    BY <2>1, <2>5 DEF MixPaint, MixerOnly, Mixer, Idle, TypeOK, listvars, hostvars
  <2> QED BY <1>21, <2>2, <2>3, <2>4, <2>5 DEF Mix
<1>22. CASE UNCHANGED vars
  BY <1>22 DEF TypeOK, vars, chanvars, listvars, hostvars
<1> QED BY <1>1, <1>2, <1>3, <1>4, <1>5, <1>6, <1>8, <1>9, <1>10, <1>11, <1>12,
           <1>13, <1>15, <1>16, <1>17, <1>18, <1>19, <1>20, <1>21, <1>22 DEF Next

(* Every variable keeps its type: the mixer never leaves the array of      *)
(* channels, and every list holds channels.                                *)
THEOREM TypeCorrect == Spec => []TypeOK
<1> QED BY InitType, StepType, PTL DEF Spec

----------------------------------------------------------------------------
(* Who is on which list *)

LEMMA InitLists == Init => ListsInv /\ FreeListSound /\ Neighbours
BY NotAChannel DEF Init, ListsInv, Apart, Covered, Starting, Statics, Ambients, Held,
                   Idle, FreeListSound, Reusable, Neighbours

(* The state of the game thread determines what it has in hand.            *)
LEMMA GameStates ==
    ASSUME TypeOK
    PROVE  /\ game.at \in {"idle", "wait", "reclaim", "reset", "play"}
           /\ game.at \in {"reclaim", "reset", "play"} =>
                game.chan \in Channels /\ game.list \in Lists
           /\ game.at = "idle" => game = Idle
BY DEF TypeOK, Game, Idle

(* SND_AllocChannel, when the channels given up go to the free list first. *)
LEMMA AllocLists ==
    ASSUME TypeOK, ListsInv, game = Idle,
           NEW list \in Lists, NEW over \in SUBSET (dynamic \cup looped),
           dynamic' = dynamic \ over, looped' = looped \ over,
           Alloc(list, free \cup over),
           list = "static" => spare = NoChannel,
           list = "ambient" => ambient = NoChannel,
           UNCHANGED <<sfx, done, static, spare, ambient>>
    PROVE  ListsInv'
<1>1. CASE free' = free \cup over /\ game' = Idle
  <2>1. Apart' /\ Covered'
    BY <1>1 DEF ListsInv, Apart, Covered, Statics, Ambients, Held, Idle
  <2> QED BY <1>1, <2>1 DEF ListsInv, Starting, Idle
<1>2. ASSUME NEW c \in free \cup over, Reusable(c), free' = (free \cup over) \ {c},
             game' = [at |-> IF sfx[c] = NoSound THEN "reset" ELSE "reclaim",
                      chan |-> c, list |-> list]
      PROVE  ListsInv'
  <2>1. Held' = {c} /\ Held = {}
    BY <1>2 DEF Held, Idle
  <2>2. Apart'
    BY <1>2, <2>1 DEF ListsInv, Apart, Statics, Ambients
  <2>3. Covered'
    BY <1>2, <2>1 DEF ListsInv, Covered, Statics, Ambients
  <2>4. Starting'
    BY <1>2 DEF ListsInv, Starting, Reusable
  <2> QED BY <2>2, <2>3, <2>4 DEF ListsInv
<1> QED BY <1>1, <1>2 DEF Alloc

LEMMA StepLists == TypeOK /\ ListsInv /\ [Next]_vars => ListsInv'
<1> SUFFICES ASSUME TypeOK, ListsInv, [Next]_vars PROVE ListsInv'
  OBVIOUS
<1> USE NotAChannel, GameStates
<1>1. ASSUME NEW list \in {"dynamic", "looped"}, StartSound(list) PROVE ListsInv'
  <2>1. PICK replaced \in SUBSET looped :
          LET over == Finished(dynamic) \cup Finished(looped) \cup replaced IN
          /\ dynamic' = dynamic \ over
          /\ looped' = looped \ over
          /\ stop' = Stopped(over)
          /\ Alloc(list, free \cup over)
    BY <1>1 DEF StartSound
  <2> DEFINE over == Finished(dynamic) \cup Finished(looped) \cup replaced
  <2>2. over \in SUBSET (dynamic \cup looped)
    BY DEF Finished
  <2> QED BY <1>1, <2>1, <2>2, AllocLists DEF StartSound, GameAt, Lists
<1>2. CASE AllocStatic
  <2>1. dynamic' = dynamic \ {} /\ looped' = looped \ {} /\ free \cup {} = free
    BY <1>2 DEF AllocStatic
  <2> QED BY <1>2, <2>1, AllocLists DEF AllocStatic, GameAt, Lists, chanvars
<1>3. CASE AllocAmbient
  <2>1. dynamic' = dynamic \ {} /\ looped' = looped \ {} /\ free \cup {} = free
    BY <1>3 DEF AllocAmbient
  <2> QED BY <1>3, <2>1, AllocLists DEF AllocAmbient, GameAt, Lists, chanvars
<1>4. ASSUME UNCHANGED <<listvars, sfx, game>>, \A c \in Channels : done[c] => done'[c]
      PROVE  ListsInv'
  <2>1. Apart' /\ Covered'
    BY <1>4 DEF ListsInv, Apart, Covered, Statics, Ambients, Held, listvars
  <2>2. Starting'
    BY <1>4 DEF ListsInv, Starting, listvars
  <2> QED BY <2>1, <2>2 DEF ListsInv
<1>5. CASE Reclaim
  <2>1. /\ game.at = "reclaim" /\ game.chan \in Channels
        /\ sfx' = [sfx EXCEPT ![game.chan] = NoSound]
        /\ game' = [game EXCEPT !.at = "reset"]
        /\ UNCHANGED <<done, listvars>>
    BY <1>5 DEF Reclaim, GameAt
  <2>2. /\ game'.at = "reset" /\ game'.chan = game.chan /\ game'.list = game.list
    BY <2>1 DEF TypeOK, Game, Idle
  <2>3. Apart' /\ Covered'
    BY <2>1, <2>2 DEF ListsInv, Apart, Covered, Statics, Ambients, Held, listvars
  <2>4. Starting'
    BY <2>1, <2>2 DEF ListsInv, Starting, TypeOK, listvars
  <2> QED BY <2>3, <2>4 DEF ListsInv
<1>6. CASE Reset
  <2>1. /\ game.at = "reset" /\ game.chan \in Channels /\ game.list \in Lists
        /\ game'.at = "play" /\ game'.chan = game.chan /\ game'.list = game.list
    BY <1>6 DEF Reset, GameAt, TypeOK, Game, Idle
  <2>2. /\ UNCHANGED <<sfx, free, static>>
        /\ dynamic' = Joined(dynamic, "dynamic") /\ looped' = Joined(looped, "looped")
        /\ spare' = IF game.list = "static" THEN game.chan ELSE spare
        /\ ambient' = IF game.list = "ambient" THEN game.chan ELSE ambient
    BY <1>6 DEF Reset
  <2>3. Held = {game.chan} /\ Held' = {}
    BY <2>1 DEF Held
  <2>4. CASE game.list = "dynamic"
    <3>1. dynamic' = dynamic \cup {game.chan} /\ UNCHANGED <<looped, spare, ambient>>
      BY <2>2, <2>4 DEF Joined
    <3>2. Apart' /\ Covered'
      BY <2>2, <2>3, <3>1 DEF ListsInv, Apart, Covered, Statics, Ambients
    <3>3. Starting'
      BY <2>1, <2>2, <2>4, <3>1 DEF ListsInv, Starting
    <3> QED BY <3>2, <3>3 DEF ListsInv
  <2>5. CASE game.list = "looped"
    <3>1. looped' = looped \cup {game.chan} /\ UNCHANGED <<dynamic, spare, ambient>>
      BY <2>2, <2>5 DEF Joined
    <3>2. Apart' /\ Covered'
      BY <2>2, <2>3, <3>1 DEF ListsInv, Apart, Covered, Statics, Ambients
    <3>3. Starting'
      BY <2>1, <2>2, <2>5, <3>1 DEF ListsInv, Starting
    <3> QED BY <3>2, <3>3 DEF ListsInv
  <2>6. CASE game.list = "static"
    <3>1. /\ spare = NoChannel /\ spare' = game.chan /\ UNCHANGED <<dynamic, looped, ambient>>
      BY <2>1, <2>2, <2>6 DEF Joined, ListsInv, Starting
    <3>2. Statics' = Statics \cup {game.chan} /\ Ambients' = Ambients
      BY <2>1, <2>2, <3>1 DEF Statics, Ambients
    <3>3. Apart' /\ Covered'
      BY <2>2, <2>3, <3>1, <3>2 DEF ListsInv, Apart, Covered
    <3>4. Starting'
      BY <2>1, <2>2, <2>6, <3>1 DEF ListsInv, Starting
    <3> QED BY <3>3, <3>4 DEF ListsInv
  <2>7. CASE game.list = "ambient"
    <3>1. /\ ambient = NoChannel /\ ambient' = game.chan /\ UNCHANGED <<dynamic, looped, spare>>
      BY <2>1, <2>2, <2>7 DEF Joined, ListsInv, Starting
    <3>2. Ambients' = Ambients \cup {game.chan} /\ Statics' = Statics
      BY <2>1, <2>2, <3>1 DEF Statics, Ambients
    <3>3. Apart' /\ Covered'
      BY <2>2, <2>3, <3>1, <3>2 DEF ListsInv, Apart, Covered
    <3>4. Starting'
      BY <2>1, <2>2, <2>7, <3>1 DEF ListsInv, Starting
    <3> QED BY <3>3, <3>4 DEF ListsInv
  <2> QED BY <2>1, <2>4, <2>5, <2>6, <2>7 DEF Lists
<1>7. CASE Play
  <2>1. PICK s \in setup.sounds : PlayOn(game.chan, s)
    BY <1>7 DEF Play
  <2>2. /\ game.at = "play" /\ game' = Idle /\ game.chan \in Channels
        /\ sfx' = [sfx EXCEPT ![game.chan] = s]
        /\ UNCHANGED <<free, dynamic, looped, ambient>>
        /\ Held = {} /\ Held' = {}
    BY <1>7, <2>1 DEF Play, PlayOn, GameAt, Held, Idle
  <2>3. CASE game.list = "static"
    <3>1. spare = game.chan /\ spare' = NoChannel /\ static' = static \cup {spare}
      BY <1>7, <2>2, <2>3 DEF Play, ListsInv, Starting
    <3>2. Statics' = Statics /\ Ambients' = Ambients
      BY <2>2, <3>1 DEF Statics, Ambients, TypeOK
    <3> QED BY <2>2, <3>1, <3>2 DEF ListsInv, Apart, Covered, Starting, Idle
  <2>4. CASE game.list # "static"
    <3>1. UNCHANGED <<static, spare>>
      BY <1>7, <2>4 DEF Play
    <3>2. Statics' = Statics /\ Ambients' = Ambients
      BY <2>2, <3>1 DEF Statics, Ambients
    <3>3. spare # NoChannel => spare # game.chan
      BY <2>2, <2>4 DEF ListsInv, Apart, Starting, Statics, Ambients, Lists
    <3>4. Starting'
      BY <2>2, <3>1, <3>3 DEF ListsInv, Starting, Idle, TypeOK
    <3> QED BY <2>2, <3>2, <3>4 DEF ListsInv, Apart, Covered
  <2> QED BY <2>3, <2>4
<1>8. CASE PlayFails
  <2> DEFINE back == {game.chan} \cap (dynamic \cup looped)
  <2>1. /\ dynamic' = dynamic \ back /\ looped' = looped \ back
        /\ free' = free \cup back /\ game.at = "play" /\ game' = Idle
        /\ UNCHANGED <<sfx, static, spare, ambient>>
    BY <1>8 DEF PlayFails, GameAt
  <2>2. Held = {} /\ Held' = {} /\ Statics' = Statics /\ Ambients' = Ambients
    BY <2>1 DEF Held, Idle, Statics, Ambients
  <2>3. Apart' /\ Covered'
    BY <2>1, <2>2 DEF ListsInv, Apart, Covered
  <2>4. Starting'
    BY <2>1 DEF ListsInv, Starting, Idle
  <2> QED BY <2>3, <2>4 DEF ListsInv
<1>9. CASE PlayUnretained
  <2>1. /\ ambient \in Channels /\ game' = Idle /\ UNCHANGED listvars
        /\ game.at \in {"idle", "play"}
    BY <1>9 DEF PlayUnretained, GameAt, TypeOK, ListsInv, Starting
  <2>2. \A c \in Channels : c # ambient => sfx'[c] = sfx[c]
    BY <1>9 DEF PlayUnretained, TypeOK
  <2>3. Held = {} /\ Held' = {} /\ Statics' = Statics /\ Ambients' = Ambients
    BY <2>1 DEF Held, Idle, Statics, Ambients, listvars
  <2>4. spare # NoChannel => spare # ambient /\ spare \in Channels
    BY <2>1 DEF ListsInv, Apart, Statics, Ambients, TypeOK
  <2>5. Starting'
    BY <2>1, <2>2, <2>4 DEF ListsInv, Starting, Idle, listvars
  <2> QED BY <2>1, <2>3, <2>5 DEF ListsInv, Apart, Covered, listvars
<1>10. CASE PlaySpare
  <2>1. /\ spare' = NoChannel /\ static' = static \cup {spare} /\ spare # NoChannel
        /\ game = Idle /\ game' = game
        /\ UNCHANGED <<free, dynamic, looped, ambient>>
    BY <1>10 DEF PlaySpare, PlayOn, GameAt
  <2>2. Held' = Held /\ Statics' = Statics /\ Ambients' = Ambients
    BY <2>1 DEF Held, Idle, Statics, Ambients
  <2> QED BY <2>1, <2>2 DEF ListsInv, Apart, Covered, Starting, Idle
<1>11. CASE PlayAmbient
  <2>1. /\ ambient \in Channels /\ game = Idle /\ game' = game /\ UNCHANGED listvars
    BY <1>11 DEF PlayAmbient, PlayOn, GameAt, TypeOK, listvars
  <2>2. \A c \in Channels : c # ambient => sfx'[c] = sfx[c]
    BY <1>11 DEF PlayAmbient, PlayOn, TypeOK
  <2>3. Held' = Held /\ Statics' = Statics /\ Ambients' = Ambients
    BY <2>1 DEF Held, Statics, Ambients, listvars
  <2>4. spare # NoChannel => spare # ambient /\ spare \in Channels
    BY <2>1 DEF ListsInv, Apart, Statics, Ambients, TypeOK
  <2>5. Starting'
    BY <2>1, <2>2, <2>4 DEF ListsInv, Starting, Idle, listvars
  <2> QED BY <2>1, <2>3, <2>5 DEF ListsInv, Apart, Covered, listvars
<1>12. CASE StopSound
  <2>1. PICK C \in SUBSET (dynamic \cup looped) :
           dynamic' = dynamic \ C /\ looped' = looped \ C /\ free' = free \cup C
    BY <1>12 DEF StopSound
  <2>2. UNCHANGED <<sfx, done, static, spare, ambient, game>>
    BY <1>12 DEF StopSound
  <2>3. Held' = Held /\ Statics' = Statics /\ Ambients' = Ambients
    BY <2>2 DEF Held, Statics, Ambients
  <2>4. Apart' /\ Covered'
    BY <2>1, <2>2, <2>3 DEF ListsInv, Apart, Covered
  <2>5. Starting'
    BY <1>12, <2>2 DEF StopSound, GameAt, ListsInv, Starting
  <2> QED BY <2>4, <2>5 DEF ListsInv
<1>13. ASSUME NEW finished, ReleaseOver(finished), UNCHANGED listvars,
              game.at \in {"idle", "wait"}, game'.at = "idle"
       PROVE  ListsInv'
  <2>1. spare # NoChannel => sfx'[spare] = NoSound
    BY <1>13 DEF ReleaseOver, ListsInv, Starting, TypeOK
  <2>2. Held' = Held /\ Statics' = Statics /\ Ambients' = Ambients
    BY <1>13 DEF Held, Statics, Ambients, listvars
  <2> QED BY <1>13, <2>1, <2>2 DEF ListsInv, Apart, Covered, Starting, listvars
<1>14. CASE ScanNow
  BY <1>13, <1>14 DEF ScanNow, GameAt
<1>15. CASE StopAll
  <2> DEFINE all == dynamic \cup looped \cup static \cup ({spare, ambient} \ {NoChannel})
  <2>1. /\ game = Idle /\ game' = [at |-> "wait"] /\ free' = free \cup all
        /\ dynamic' = {} /\ looped' = {} /\ static' = {}
        /\ spare' = NoChannel /\ ambient' = NoChannel
    BY <1>15 DEF StopAll, GameAt
  <2>2. Held = {} /\ Held' = {} /\ Statics' = {} /\ Ambients' = {}
    BY <2>1 DEF Held, Idle, Statics, Ambients
  <2>3. Covered'
    BY <2>1, <2>2 DEF ListsInv, Covered, Statics, Ambients
  <2> QED BY <2>1, <2>2, <2>3 DEF ListsInv, Apart, Starting
<1>16. CASE ScanAsk
  BY <1>4, <1>16 DEF ScanAsk
<1>17. CASE ScanRelease
  BY <1>13, <1>17 DEF ScanRelease, GameAt, Idle
<1>18. CASE StaticOverrun
  BY <1>4, <1>18 DEF StaticOverrun, chanvars
<1>19. CASE JackShutdown \/ JackTimesOut
  BY <1>4, <1>19 DEF JackShutdown, JackTimesOut, Finish
<1>20. CASE Reconnect
  BY <1>4, <1>20 DEF Reconnect, chanvars
<1>21. CASE Mix
  BY <1>4, <1>21 DEF Mix, MixStart, MixLoad, MixTest, MixPaint, MixerOnly, TypeOK
<1>22. CASE UNCHANGED vars
  BY <1>4, <1>22 DEF vars, chanvars
<1> QED BY <1>1, <1>2, <1>3, <1>5, <1>6, <1>7, <1>8, <1>9, <1>10, <1>11, <1>12,
           <1>14, <1>15, <1>16, <1>17, <1>18, <1>19, <1>20, <1>21, <1>22 DEF Next

LEMMA OnePart ==
    ASSUME Apart, Covered
    PROVE  OnOneList
<1> DEFINE parts == <<free, dynamic, looped, Statics, Ambients, Held>>
<1>1. ASSUME NEW c \in Channels
      PROVE  Cardinality({i \in 1..6 : c \in parts[i]}) = 1
  <2>1. PICK k \in 1..6 : c \in parts[k]
    <3>1. \/ c \in parts[1] \/ c \in parts[2] \/ c \in parts[3]
          \/ c \in parts[4] \/ c \in parts[5] \/ c \in parts[6]
      BY <1>1 DEF Covered
    <3> QED BY <3>1
  <2>2. \A i \in 1..6 : c \in parts[i] => i = k
    <3>1. \A i, j \in 1..6 : i < j => parts[i] \cap parts[j] = {}
      <4>1. /\ parts[1] = free /\ parts[2] = dynamic /\ parts[3] = looped
            /\ parts[4] = Statics /\ parts[5] = Ambients /\ parts[6] = Held
        OBVIOUS
      <4> HIDE DEF parts
      <4>2. \A j \in 2..6 : parts[1] \cap parts[j] = {}
        BY <4>1 DEF Apart
      <4>3. \A j \in 3..6 : parts[2] \cap parts[j] = {}
        BY <4>1 DEF Apart
      <4>4. \A j \in 4..6 : parts[3] \cap parts[j] = {}
        BY <4>1 DEF Apart
      <4>5. \A j \in 5..6 : parts[4] \cap parts[j] = {}
        BY <4>1 DEF Apart
      <4>6. parts[5] \cap parts[6] = {}
        BY <4>1 DEF Apart
      <4> QED BY <4>2, <4>3, <4>4, <4>5, <4>6
    <3> HIDE DEF parts
    <3> QED BY <2>1, <3>1
  <2>3. {i \in 1..6 : c \in parts[i]} = {k}
    BY <2>1, <2>2
  <2> QED BY <2>3, FS_Singleton
<1> QED BY <1>1 DEF OnOneList

(* Every channel is on exactly one list, or in the game thread's hands     *)
(* between two, however many channels there are: SND_AllocChannel and      *)
(* SND_ChannelStop never lose a channel nor free one twice.                *)
THEOREM OneListEach == Spec => []OnOneList
<1>1. TypeOK /\ ListsInv => OnOneList
  BY OnePart DEF ListsInv
<1> QED BY <1>1, InitType, StepType, InitLists, StepLists, PTL DEF Spec

----------------------------------------------------------------------------
(* The free list holds what may be used again, or will be.                 *)

LEMMA StepFree == TypeOK /\ ListsInv /\ FreeListSound /\ [Next]_vars => FreeListSound'
<1> SUFFICES ASSUME TypeOK, ListsInv, FreeListSound, [Next]_vars PROVE FreeListSound'
  OBVIOUS
<1> USE NotAChannel, GameStates
(* What a step may do to a channel without harm.                           *)
<1>1. ASSUME \A c \in free' : \/ /\ c \in free
                                 /\ sfx'[c] \in {NoSound, sfx[c]}
                                 /\ done[c] => done'[c]
                                 /\ stop[c] => stop'[c]
                              \/ stop'[c]
      PROVE  FreeListSound'
  BY <1>1 DEF FreeListSound, Reusable
<1>2. free \in SUBSET Channels /\ \A C, c : c \in Channels => (Stopped(C)[c] <=> stop[c] \/ c \in C)
  BY DEF TypeOK, Stopped
<1>3. ASSUME NEW list \in {"dynamic", "looped"}, StartSound(list) PROVE FreeListSound'
  <2>1. PICK replaced \in SUBSET looped :
          LET over == Finished(dynamic) \cup Finished(looped) \cup replaced IN
          stop' = Stopped(over) /\ Alloc(list, free \cup over)
    BY <1>3 DEF StartSound
  <2> DEFINE over == Finished(dynamic) \cup Finished(looped) \cup replaced
  <2>2. free' \subseteq free \cup over /\ over \subseteq Channels
    BY <2>1 DEF Alloc, Finished, TypeOK
  <2>3. UNCHANGED <<sfx, done>>
    BY <1>3 DEF StartSound
  <2> QED BY <1>1, <1>2, <2>1, <2>2, <2>3
<1>4. CASE AllocStatic \/ AllocAmbient
  BY <1>1, <1>4 DEF AllocStatic, AllocAmbient, Alloc, chanvars
<1>5. CASE Reclaim
  BY <1>1, <1>2, <1>5 DEF Reclaim, listvars, TypeOK
<1>6. CASE Reset
  <2>1. game.chan \notin free
    BY <1>6 DEF Reset, GameAt, ListsInv, Apart, Held
  <2> QED BY <1>1, <1>2, <1>6, <2>1 DEF Reset, TypeOK
<1>7. ASSUME NEW c \in Channels, c \notin free, NEW s, PlayOn(c, s) PROVE FreeListSound'
  BY <1>1, <1>2, <1>7 DEF PlayOn, TypeOK
<1>8. CASE Play
  <2>1. game.chan \in Channels \ free
    BY <1>8 DEF Play, GameAt, ListsInv, Apart, Starting, Statics, Ambients, Lists
  <2> QED BY <1>7, <1>8, <2>1 DEF Play
<1>9. CASE PlaySpare \/ PlayAmbient
  <2>1. /\ spare # NoChannel => spare \in Channels \ free
        /\ ambient # NoChannel => ambient \in Channels \ free
    BY DEF TypeOK, ListsInv, Apart, Statics, Ambients
  <2> QED BY <1>7, <1>9, <2>1 DEF PlaySpare, PlayAmbient
<1>10. CASE PlayFails
  <2>1. free' = free \cup ({game.chan} \cap (dynamic \cup looped))
        /\ stop' = Stopped({game.chan} \cap (dynamic \cup looped))
        /\ UNCHANGED <<sfx, done>> /\ dynamic \cup looped \subseteq Channels
    BY <1>10 DEF PlayFails, TypeOK
  <2> QED BY <1>1, <1>2, <2>1
<1>11. CASE PlayUnretained
  <2>1. ambient \in Channels \ free
    BY <1>11 DEF PlayUnretained, GameAt, TypeOK, ListsInv, Apart, Starting, Ambients
  <2> QED BY <1>1, <1>2, <1>11, <2>1 DEF PlayUnretained, TypeOK, listvars
<1>12. CASE StopSound
  <2>1. PICK C \in SUBSET (dynamic \cup looped) : free' = free \cup C /\ stop' = Stopped(C)
    BY <1>12 DEF StopSound
  <2>2. C \subseteq Channels
    BY <2>1 DEF TypeOK
  <2> QED BY <1>1, <1>2, <1>12, <2>1, <2>2 DEF StopSound
<1>13. ASSUME NEW finished, ReleaseOver(finished), \A c \in Channels : done[c] => done'[c],
              UNCHANGED <<stop, listvars>>
       PROVE  FreeListSound'
  BY <1>1, <1>2, <1>13 DEF ReleaseOver, listvars
<1>14. CASE ScanNow \/ ScanRelease
  <2>1. \A c \in Channels : done[c] => Quiet[c]
    BY DEF Quiet
  <2> QED BY <1>13, <1>14, <2>1 DEF ScanNow, ScanRelease
<1>15. CASE StopAll
  <2> DEFINE all == dynamic \cup looped \cup static \cup ({spare, ambient} \ {NoChannel})
  <2>1. free' = free \cup all /\ stop' = Stopped(all) /\ all \subseteq Channels
        /\ UNCHANGED <<sfx, done>>
    BY <1>15 DEF StopAll, TypeOK
  <2> HIDE DEF all
  <2> QED BY <1>1, <1>2, <2>1
<1>16. CASE ScanAsk
  BY <1>1, <1>2, <1>16 DEF ScanAsk, listvars
<1>17. CASE StaticOverrun \/ Reconnect \/ UNCHANGED vars
  BY <1>1, <1>17 DEF StaticOverrun, Reconnect, vars, chanvars, listvars
<1>18. CASE JackShutdown \/ JackTimesOut
  BY <1>1, <1>2, <1>18 DEF JackShutdown, JackTimesOut, Finish, listvars
<1>19. CASE Mix
  BY <1>1, <1>2, <1>19 DEF Mix, MixStart, MixLoad, MixTest, MixPaint, MixerOnly, TypeOK, listvars
<1> QED BY <1>3, <1>4, <1>5, <1>6, <1>8, <1>9, <1>10, <1>11, <1>12, <1>14, <1>15,
           <1>16, <1>17, <1>18, <1>19 DEF Next

(* A channel on the free list can be used again or has been asked to stop: *)
(* SND_AllocChannel never finds a "bogus channel free list".               *)
THEOREM FreeListIsSound == Spec => []FreeListSound
<1> QED BY InitType, StepType, InitLists, StepLists, StepFree, PTL DEF Spec

----------------------------------------------------------------------------
(* The sounds of the channels *)

(* A channel gets a sound only when it has none, and gives one up only     *)
(* when the mixer is done with it.                                         *)
LEMMA SoundsChange ==
    ASSUME TypeOK, ListsInv, [Next]_vars, NEW c \in Channels
    PROVE  sfx[c] # NoSound /\ sfx'[c] # sfx[c] => done'[c] /\ sfx'[c] = NoSound
<1> USE NotAChannel, GameStates
<1>1. CASE UNCHANGED sfx
  BY <1>1
<1>2. ASSUME NEW d \in Channels, sfx[d] = NoSound, NEW s, sfx' = [sfx EXCEPT ![d] = s]
      PROVE  sfx[c] # NoSound => sfx'[c] = sfx[c]
  BY <1>2 DEF TypeOK
<1>3. CASE Reclaim
  BY <1>3 DEF Reclaim, GameAt, ListsInv, Starting, TypeOK
<1>4. CASE Play
  BY <1>2, <1>4 DEF Play, PlayOn, GameAt, ListsInv, Starting
<1>5. CASE PlaySpare
  BY <1>2, <1>5 DEF PlaySpare, PlayOn, ListsInv, Starting, TypeOK
<1>6. CASE PlayAmbient
  BY <1>2, <1>6 DEF PlayAmbient, PlayOn, TypeOK
<1>7. CASE PlayUnretained
  <2>1. ambient \in Channels /\ sfx[ambient] = NoSound
    BY <1>7 DEF PlayUnretained, GameAt, ListsInv, Starting, TypeOK
  <2> QED BY <1>2, <1>7, <2>1 DEF PlayUnretained
<1>8. CASE ScanNow \/ ScanRelease
  BY <1>8 DEF ScanNow, ScanRelease, ReleaseOver, Over
<1>9. CASE JackShutdown \/ JackTimesOut
  BY <1>1, <1>9 DEF JackShutdown, JackTimesOut, Finish
<1>10. CASE Mix
  BY <1>1, <1>10 DEF Mix, MixStart, MixLoad, MixTest, MixPaint, MixerOnly
<1>11. CASE UNCHANGED vars \/ StaticOverrun \/ Reconnect \/ AllocStatic \/ AllocAmbient
  BY <1>1, <1>11 DEF vars, StaticOverrun, Reconnect, AllocStatic, AllocAmbient, chanvars
<1>12. CASE \E list \in {"dynamic", "looped"} : StartSound(list)
  BY <1>1, <1>12 DEF StartSound
<1>13. CASE Reset \/ PlayFails \/ StopSound \/ StopAll \/ ScanAsk
  BY <1>1, <1>13 DEF Reset, PlayFails, StopSound, StopAll, ScanAsk
<1> QED BY <1>3, <1>4, <1>5, <1>6, <1>7, <1>8, <1>9, <1>10, <1>11, <1>12, <1>13 DEF Next

(* snd_internal.h's rule for sfx, stop and done, for every step of either  *)
(* thread: the game thread takes a sound from a channel only when done is  *)
(* set, so that the mixer has seen that it is to stop, or gone away.       *)
THEOREM DoneBeforeTaken == Spec => TakenOnlyWhenDone
<1>1. TypeOK /\ ListsInv /\ [Next]_vars
        => [\A c \in Channels : sfx[c] # NoSound /\ sfx'[c] # sfx[c] => done'[c]]_vars
  BY SoundsChange
<1> QED BY <1>1, InitType, StepType, InitLists, StepLists, PTL DEF Spec, TakenOnlyWhenDone

----------------------------------------------------------------------------
(* The channels that were started before *)

LEMMA StepNeighbours ==
    TypeOK /\ ListsInv /\ Neighbours /\ [Next]_vars => Neighbours'
<1> SUFFICES ASSUME TypeOK, ListsInv, Neighbours, [Next]_vars PROVE Neighbours'
  OBVIOUS
<1> USE NotAChannel, GameStates
<1>1. ASSUME UNCHANGED <<game, sfx>>, dynamic' \subseteq dynamic, looped' \subseteq looped
      PROVE  Neighbours'
  BY <1>1 DEF Neighbours
<1>2. CASE game'.at \in {"idle", "wait"}
  BY <1>2 DEF Neighbours
<1>3. ASSUME NEW list \in {"dynamic", "looped"}, StartSound(list) PROVE Neighbours'
  <2>1. PICK replaced \in SUBSET looped :
          LET over == Finished(dynamic) \cup Finished(looped) \cup replaced IN
          dynamic' = dynamic \ over /\ looped' = looped \ over
    BY <1>3 DEF StartSound
  <2>2. \A c \in dynamic' \cup looped' : sfx[c] # NoSound
    BY <2>1 DEF Finished
  <2> QED BY <1>3, <2>2 DEF StartSound, Neighbours
<1>4. CASE AllocStatic \/ AllocAmbient
  <2>1. \A list, freed : Alloc(list, freed) => game' = Idle \/ game'.list = list
    BY DEF Alloc
  <2> QED BY <1>2, <1>4, <2>1 DEF AllocStatic, AllocAmbient, Neighbours, Idle
<1>5. CASE Reclaim
  <2>1. /\ game.at = "reclaim" /\ game.chan \in Channels
        /\ game'.chan = game.chan /\ game'.list = game.list
        /\ \A c \in Channels : c # game.chan => sfx'[c] = sfx[c]
        /\ UNCHANGED <<dynamic, looped>>
    BY <1>5 DEF Reclaim, GameAt, TypeOK, Game, Idle, listvars
  <2>2. dynamic \cup looped \subseteq Channels
    BY DEF TypeOK
  <2> QED BY <2>1, <2>2 DEF Neighbours
<1>6. CASE Reset
  <2>1. /\ game.at = "reset" /\ game'.chan = game.chan /\ game'.list = game.list
        /\ dynamic' \subseteq dynamic \cup {game.chan} /\ looped' \subseteq looped \cup {game.chan}
        /\ UNCHANGED sfx
    BY <1>6 DEF Reset, Joined, GameAt, TypeOK, Game, Idle
  <2> QED BY <2>1 DEF Neighbours
<1>7. CASE Play \/ PlayFails \/ PlayUnretained
  BY <1>2, <1>7 DEF Play, PlayFails, PlayUnretained, Idle
<1>8. CASE PlaySpare \/ PlayAmbient \/ ScanNow \/ StopSound
  BY <1>2, <1>8 DEF PlaySpare, PlayAmbient, ScanNow, StopSound, GameAt
<1>9. CASE StopAll \/ ScanRelease
  BY <1>2, <1>9 DEF StopAll, ScanRelease, Idle
<1>10. CASE StaticOverrun \/ Reconnect \/ ScanAsk \/ UNCHANGED vars
  BY <1>1, <1>10 DEF StaticOverrun, Reconnect, ScanAsk, vars, chanvars, listvars
<1>11. CASE JackShutdown \/ JackTimesOut
  BY <1>1, <1>11 DEF JackShutdown, JackTimesOut, Finish, listvars
<1>12. CASE Mix
  BY <1>1, <1>12 DEF Mix, MixStart, MixLoad, MixTest, MixPaint, MixerOnly, listvars
<1> QED BY <1>3, <1>4, <1>5, <1>6, <1>7, <1>8, <1>9, <1>10, <1>11, <1>12 DEF Next

(* snd_check_channels, which follows sfx of the channels that were started *)
(* before without a test, never meets one without a sound.                 *)
THEOREM NeighboursHaveSounds == Spec => []NeighboursPlay
<1>1. Neighbours => NeighboursPlay
  BY DEF Neighbours, NeighboursPlay
<1> QED BY <1>1, InitType, StepType, InitLists, StepLists, StepNeighbours, PTL DEF Spec

----------------------------------------------------------------------------
(* The locks on the sounds *)

LEMMA SetupFixed == [Next]_vars => setup' = setup
BY DEF Next, vars, hostvars, StartSound, AllocStatic, AllocAmbient, StaticOverrun, Reclaim,
       Reset, Play, PlayOn, PlayFails, PlayUnretained, PlaySpare, PlayAmbient, StopSound,
       ScanNow, StopAll, ScanAsk, ScanRelease, JackShutdown, JackTimesOut, Finish,
       Reconnect, Mix, MixStart, MixLoad, MixTest, MixPaint, MixerOnly

LEMMA InitBalance == Init => Balance
<1>1. Init => \A s \in Sounds : Players(s) = {}
  BY NoneAssumption DEF Init, Players
<1> QED BY <1>1, FS_EmptySet DEF Init, Balance

LEMMA PlayersFinite ==
    ASSUME NEW s
    PROVE  IsFiniteSet(Players(s)) /\ Cardinality(Players(s)) \in Nat
BY ChannelsFinite DEF Players

(* A lock is taken as a channel gets its sound.                            *)
LEMMA BalanceTaken ==
    ASSUME TypeOK, Balance, setup' = setup, NEW c \in Channels, sfx[c] = NoSound,
           NEW s \in Sounds, sfx' = [sfx EXCEPT ![c] = s],
           \A x \in Sounds : setup.ambientsLoad \/ x \in Streams =>
               locks'[x] = IF x = s THEN locks[x] + 1 ELSE locks[x]
    PROVE  Balance'
<1>1. Players(s)' = Players(s) \cup {c} /\ c \notin Players(s)
  BY NoneAssumption DEF TypeOK, Players
<1>2. Cardinality(Players(s)') = Cardinality(Players(s)) + 1
  BY <1>1, PlayersFinite, FS_AddElement
<1>3. \A x \in Sounds \ {s} : Players(x)' = Players(x)
  BY NoneAssumption DEF TypeOK, Players
<1>4. Streams' = Streams
  BY DEF Streams
<1>5. ASSUME NEW x \in Sounds, setup.ambientsLoad \/ x \in Streams
      PROVE  locks'[x] = Cardinality(Players(x)')
  <2>1. locks[x] = Cardinality(Players(x))
    BY <1>5 DEF Balance
  <2>2. CASE x = s
    BY <1>2, <1>5, <2>1, <2>2
  <2>3. CASE x # s
    BY <1>3, <1>5, <2>1, <2>3
  <2> QED BY <2>2, <2>3
<1> QED BY <1>4, <1>5 DEF Balance

(* A lock is released as a channel gives its sound up.                     *)
LEMMA BalanceReleased ==
    ASSUME TypeOK, Balance, setup' = setup, NEW finished, ReleaseOver(finished)
    PROVE  Balance'
<1>1. ASSUME NEW s \in Sounds, setup.ambientsLoad \/ s \in Streams
      PROVE  locks'[s] = Cardinality(Players(s)')
  <2> DEFINE gone == {c \in Over(finished) : sfx[c] = s}
  <2>1. Players(s)' = Players(s) \ gone
    BY <1>1, NoneAssumption DEF ReleaseOver, Players, TypeOK, Over
  <2>2. gone \subseteq Players(s)
    BY DEF Players, Over
  <2>3. /\ Cardinality(Players(s) \ gone) = Cardinality(Players(s)) - Cardinality(gone)
        /\ Cardinality(gone) <= Cardinality(Players(s)) /\ Cardinality(gone) \in Nat
    <3>1. Players(s) \cap gone = gone
      BY <2>2
    <3>2. Cardinality(Players(s) \ gone) = Cardinality(Players(s)) - Cardinality(gone)
      BY <3>1, PlayersFinite, FS_Difference
    <3>3. IsFiniteSet(gone) /\ Cardinality(gone) <= Cardinality(Players(s))
      BY <2>2, PlayersFinite, FS_Subset
    <3> QED BY <3>2, <3>3, FS_CardinalityType
  <2>4. locks[s] = Cardinality(Players(s))
    BY <1>1 DEF Balance
  <2>5. locks'[s] = Released(locks[s], Cardinality(gone))
    BY <1>1 DEF ReleaseOver
  <2> HIDE DEF gone
  <2>6. Released(locks[s], Cardinality(gone)) = locks[s] - Cardinality(gone)
    BY <2>3, <2>4, PlayersFinite DEF Released
  <2> QED BY <2>1, <2>3, <2>4, <2>5, <2>6
<1> QED BY <1>1 DEF Balance, Streams

LEMMA StepBalance == TypeOK /\ ListsInv /\ Balance /\ [Next]_vars => Balance'
<1> SUFFICES ASSUME TypeOK, ListsInv, Balance, [Next]_vars PROVE Balance'
  OBVIOUS
<1> USE NotAChannel, GameStates, SetupTypes
<1>1. setup' = setup
  BY SetupFixed
<1>2. ASSUME UNCHANGED <<sfx, locks>> PROVE Balance'
  BY <1>1, <1>2 DEF Balance, Players, Streams
<1>3. CASE Reclaim
  <2>1. PICK c \in Channels, s \in Sounds :
          /\ sfx[c] = s /\ sfx' = [sfx EXCEPT ![c] = NoSound]
          /\ locks' = [locks EXCEPT ![s] = Released(@, 1)]
    BY <1>3 DEF Reclaim, GameAt, ListsInv, Starting, TypeOK
  <2>2. Players(s)' = Players(s) \ {c} /\ c \in Players(s)
    BY <2>1, NoneAssumption DEF TypeOK, Players
  <2>3. Cardinality(Players(s)') = Cardinality(Players(s)) - 1
    <3>1. IsFiniteSet(Players(s))
      BY PlayersFinite
    <3> QED BY <2>2, <3>1, FS_RemoveElement
  <2>4. Cardinality(Players(s)) > 0
    <3>1. Cardinality(Players(s)) # 0
      BY <2>2, PlayersFinite, FS_EmptySet
    <3> QED BY <3>1, PlayersFinite
  <2>5. \A x \in Sounds \ {s} : Players(x)' = Players(x)
    BY <2>1, NoneAssumption DEF TypeOK, Players
  <2>6. ASSUME NEW x \in Sounds, setup.ambientsLoad \/ x \in Streams
        PROVE  locks'[x] = Cardinality(Players(x)')
    <3>1. locks[x] = Cardinality(Players(x))
      BY <2>6 DEF Balance
    <3>2. CASE x = s
      <4>1. locks'[s] = Released(locks[s], 1)
        BY <2>1 DEF TypeOK
      <4>2. Released(locks[s], 1) = locks[s] - 1
        BY <2>4, <3>1, <3>2, PlayersFinite DEF Released
      <4>3. locks'[s] = Cardinality(Players(s)) - 1
        BY <3>1, <3>2, <4>1, <4>2
      <4> QED BY <2>3, <3>2, <4>3, Zenon
    <3>3. CASE x # s
      BY <2>1, <2>5, <3>1, <3>3 DEF TypeOK
    <3> QED BY <3>2, <3>3
  <2> QED BY <1>1, <2>6 DEF Balance, Streams
<1>4. ASSUME NEW c \in Channels, sfx[c] = NoSound, \E s \in setup.sounds : PlayOn(c, s)
      PROVE  Balance'
  <2>1. PICK s \in Sounds : sfx' = [sfx EXCEPT ![c] = s]
                            /\ locks' = [locks EXCEPT ![s] = @ + 1]
    BY <1>4 DEF PlayOn, Retain
  <2>2. \A x \in Sounds : locks'[x] = IF x = s THEN locks[x] + 1 ELSE locks[x]
    BY <2>1 DEF TypeOK
  <2> QED BY <1>1, <1>4, <2>1, <2>2, BalanceTaken
<1>5. CASE Play
  BY <1>4, <1>5 DEF Play, GameAt, ListsInv, Starting
<1>6. CASE PlaySpare \/ PlayAmbient
  BY <1>4, <1>6 DEF PlaySpare, PlayAmbient, ListsInv, Starting, TypeOK
<1>7. CASE PlayUnretained
  <2>1. ambient \in Channels /\ sfx[ambient] = NoSound /\ ~setup.ambientsLoad
    BY <1>7 DEF PlayUnretained, GameAt, ListsInv, Starting, TypeOK
  <2>2. PICK s \in Sounds \ Streams : sfx' = [sfx EXCEPT ![ambient] = s]
    BY <1>7 DEF PlayUnretained
  <2>3. UNCHANGED locks
    BY <1>7 DEF PlayUnretained
  <2> QED BY <1>1, <2>1, <2>2, <2>3, BalanceTaken
<1>8. CASE ScanNow \/ ScanRelease
  BY <1>1, <1>8, BalanceReleased DEF ScanNow, ScanRelease
<1>9. CASE JackShutdown \/ JackTimesOut
  BY <1>2, <1>9 DEF JackShutdown, JackTimesOut, Finish
<1>10. CASE Mix
  BY <1>2, <1>10 DEF Mix, MixStart, MixLoad, MixTest, MixPaint, MixerOnly
<1>11. CASE UNCHANGED vars \/ StaticOverrun \/ Reconnect \/ AllocStatic \/ AllocAmbient
  BY <1>2, <1>11 DEF vars, StaticOverrun, Reconnect, AllocStatic, AllocAmbient, chanvars
<1>12. CASE \E list \in {"dynamic", "looped"} : StartSound(list)
  BY <1>2, <1>12 DEF StartSound
<1>13. CASE Reset \/ PlayFails \/ StopSound \/ StopAll \/ ScanAsk
  BY <1>2, <1>13 DEF Reset, PlayFails, StopSound, StopAll, ScanAsk
<1> QED BY <1>3, <1>4, <1>5, <1>6, <1>7, <1>8, <1>9, <1>10, <1>11, <1>12, <1>13 DEF Next

(* A sound has one lock for each channel that plays it, in every state     *)
(* from which ambient sounds are always retained: none leaks, and          *)
(* SND_CacheRelease never finds a sound without a lock.                    *)
THEOREM RetainsBalance == Spec => []RetainBalance
<1>1. Balance => RetainBalance
  BY DEF Balance, RetainBalance, Players
<1> QED BY <1>1, InitType, StepType, InitLists, StepLists, InitBalance, StepBalance, PTL
        DEF Spec

----------------------------------------------------------------------------
(* The mixer inside the game thread *)

LEMMA InitInTurn == Init => InTurn
BY DEF Init, InTurn, Idle

LEMMA StepInTurn == TypeOK /\ Balance /\ InTurn /\ [Next]_vars => InTurn'
<1> SUFFICES ASSUME TypeOK, Balance, InTurn, [Next]_vars, ~Threaded PROVE InTurn'
  BY SetupFixed DEF InTurn, Threaded
<1>1. Threaded' = Threaded
  BY SetupFixed DEF Threaded
<1>2. mixer = Idle => mixer.at = "idle"
  BY DEF Idle
(* While the mixer runs, the game thread does nothing.                     *)
<1>3. CASE mixer = Idle /\ mixer' = mixer
  BY <1>2, <1>3 DEF InTurn
<1>4. CASE Mix
  <2>1. UNCHANGED <<sfx, locks, game>>
    BY <1>4 DEF Mix, MixStart, MixLoad, MixTest, MixPaint, MixerOnly
  <2>2. game = Idle
    BY <1>4, <1>2 DEF Mix, MixStart, MixLoad, MixTest, MixPaint, InTurn, Painting, Idle
  <2>3. \A c : NextChannel(c).at \in {"idle", "load"}
    BY DEF NextChannel, Idle
  <2>4. CASE MixStart
    BY <2>1, <2>2, <2>4 DEF MixStart, InTurn
  <2>5. CASE MixLoad
    BY <2>1, <2>2, <2>3, <2>5 DEF MixLoad, InTurn
  <2>6. CASE MixTest
    <3>1. mixer.at = "test" /\ mixer.chan \in Channels /\ mixer.sfx \in Sounds
      BY <2>6 DEF MixTest, TypeOK, Mixer, Idle
    <3>2. mixer'.at = "paint" =>
            /\ mixer'.chan = mixer.chan /\ mixer'.sfx = mixer.sfx /\ HasBuffer(mixer.sfx)
      BY <2>3, <2>6, <3>1 DEF MixTest, TypeOK, Mixer, Idle
    <3>3. mixer'.at # "test"
      BY <2>3, <2>6, <3>1 DEF MixTest, TypeOK, Mixer, Idle
    <3>4. sfx[mixer.chan] = mixer.sfx
      BY <3>1 DEF InTurn
    <3>5. ASSUME mixer.sfx \in Streams
          PROVE  locks[mixer.sfx] > 0
      <4>1. locks[mixer.sfx] = Cardinality(Players(mixer.sfx))
        BY <3>1, <3>5 DEF Balance
      <4>2. Players(mixer.sfx) # {}
        BY <3>1, <3>4 DEF Players
      <4>3. Cardinality(Players(mixer.sfx)) # 0
        BY <4>2, PlayersFinite, FS_EmptySet
      <4> QED BY <4>1, <4>3, PlayersFinite
    <3>6. mixer'.at = "paint" => locks[mixer.sfx] > 0
      BY <3>2, <3>5 DEF HasBuffer
    <3> QED BY <2>1, <2>2, <3>2, <3>3, <3>4, <3>6 DEF InTurn
  <2>7. CASE MixPaint
    BY <2>1, <2>2, <2>3, <2>7 DEF MixPaint, InTurn
  <2> QED BY <1>4, <2>4, <2>5, <2>6, <2>7 DEF Mix
<1>5. CASE Reconnect
  BY <1>1, <1>5 DEF Reconnect, InTurn, chanvars
<1>6. CASE JackShutdown \/ JackTimesOut
  BY <1>6 DEF JackShutdown, JackTimesOut
<1>7. CASE UNCHANGED vars
  BY <1>1, <1>7 DEF vars, chanvars, InTurn
<1>8. CASE \E list \in {"dynamic", "looped"} : StartSound(list)
  BY <1>3, <1>8 DEF StartSound, GameAt
<1>9. CASE AllocStatic \/ AllocAmbient \/ StaticOverrun \/ Reclaim \/ Reset
  BY <1>3, <1>9 DEF AllocStatic, AllocAmbient, StaticOverrun, Reclaim, Reset, GameAt
<1>10. CASE Play \/ PlayFails \/ PlayUnretained \/ PlaySpare \/ PlayAmbient
  BY <1>3, <1>10 DEF Play, PlayOn, PlayFails, PlayUnretained, PlaySpare, PlayAmbient, GameAt
<1>11. CASE StopSound \/ ScanNow \/ StopAll \/ ScanAsk \/ ScanRelease
  BY <1>3, <1>11 DEF StopSound, ScanNow, StopAll, ScanAsk, ScanRelease, GameAt
<1> QED BY <1>4, <1>5, <1>6, <1>7, <1>8, <1>9, <1>10, <1>11 DEF Next

(* With a driver that mixes inside the game thread the mixer paints only   *)
(* from sounds that are retained, cached or streamed, even where ambient   *)
(* sounds could not be.                                                    *)
THEOREM PaintsRetained == Spec => []MixerUsesRetainedInTurn
<1>1. InTurn => MixerUsesRetainedInTurn
  BY DEF InTurn, MixerUsesRetainedInTurn, MixerUsesRetained
<1> QED BY <1>1, InitType, StepType, InitLists, StepLists, InitBalance, StepBalance,
           InitInTurn, StepInTurn, PTL DEF Spec
=============================================================================
