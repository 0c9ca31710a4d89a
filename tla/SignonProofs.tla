---------------------------- MODULE SignonProofs ----------------------------
(***************************************************************************)
(* What holds of the sign-on for any number of levels and any lengths of   *)
(* the lists: an honest client is never dropped, its lists are of one      *)
(* level, a change of level costs it no connection, and it enters a level  *)
(* once and with that level's world.                                       *)
(***************************************************************************)
EXTENDS Signon, SequenceTheorems, TLAPS

(* All that the client has yet to handle, in the order it was sent, and    *)
(* all that the server has yet to handle.                                  *)
Down == stuff \o cl_inbox \o sv_flight \o sv_message
Up == sv_inbox \o cl_flight \o cl_message
Early == stuff \o cl_inbox \o sv_flight
Before(s, m, k) == \E i, j \in DOMAIN s : i < j /\ s[i] = m /\ s[j] = k

(* What makes the client ask for the next thing.                           *)
Replies == {"svc_soundlist", "svc_modellist", "cmd prespawn", "cmd spawn", "skins"}
IsReply(m) == m.op \in Replies

(* The client never hears of a level before the one it was told of last,   *)
(* and gets replies for that one only.                                     *)
LevelsInv ==
    /\ servercount <= spawncount
    /\ \A m \in ToSet(Down) :
          /\ m.level \in servercount..spawncount /\ m.level # 0
          /\ IsReply(m) => m.level = servercount
          /\ m.op = "changing" => m.level # servercount
    /\ \A m, k \in ToSet(Down) : Before(Down, m, k) =>
          /\ m.level <= k.level
          /\ m.op = "serverdata" /\ k.op = "changing" => m.level # k.level
    /\ \A c \in ToSet(Up) : c.op # "new" => c.level \in 1..servercount

(* Who hears "reconnect" while it is connected was not told of the level.  *)
ReconnectInv ==
    /\ reliable_datagram # <<>> =>
          /\ reliable_datagram = <<Message("reconnect", spawncount, 0)>>
          /\ servercount # spawncount
          /\ \A m \in ToSet(Early) : m.op = "serverdata" => m.level # spawncount
    /\ cstate = "connected" =>
          \A m \in ToSet(Down) : m.op = "reconnect" => m.level # servercount

(* What makes the server start anew with the data of the present level.    *)
Restarts(c) ==
    \/ c.op = "new"
    \/ (c.op \in {"soundlist", "modellist", "prespawn", "spawn"} /\ c.level # spawncount)
Asks(c, level) == c.op # "new" /\ c.level = level
AsksFirst(c) == c.op = "soundlist" /\ c.n = 0
IsFirst(m) == m.op = "svc_soundlist" /\ m.n = 0

(* One conversation at a time: while the client is told of its level once  *)
(* more, or the server is about to, they are at its beginning.             *)
OneConversation ==
    /\ \A k \in ToSet(Down) : k.op = "serverdata" /\ k.level = servercount =>
          /\ \A m \in ToSet(Down) : IsReply(m) => IsFirst(m) /\ ~Before(Down, m, k)
          /\ \A c \in ToSet(Up) : Asks(c, servercount) => AsksFirst(c)
    /\ servercount = spawncount =>
          \A g \in ToSet(Up) : Restarts(g) =>
             /\ \A m \in ToSet(Down) : ~IsReply(m)
             /\ \A c \in ToSet(Up) :
                   Asks(c, servercount) => AsksFirst(c) /\ ~Before(Up, c, g)

(* The client has the parts of the lists that come before what it asks for *)
(* or is told.                                                             *)
HasSounds(n) == \A c \in 1..SoundChunks : c <= n => sounds[c] = servercount
HasModels(n) == \A c \in 1..ModelChunks : c <= n => models[c] = servercount
Loaded == worldmodel = servercount /\ HasSounds(SoundChunks) /\ HasModels(ModelChunks)
NextPart(m, chunks) == m.n < chunks /\ m.next = IF m.n + 1 < chunks THEN m.n + 1 ELSE 0

ToldInOrder(m) ==
    /\ m.op = "svc_soundlist" => NextPart(m, SoundChunks) /\ HasSounds(m.n)
    /\ m.op = "svc_modellist" =>
          NextPart(m, ModelChunks) /\ HasSounds(SoundChunks) /\ HasModels(m.n)
    /\ m.op \in {"cmd prespawn", "cmd spawn", "skins"} => Loaded
    /\ m.op = "cmd prespawn" => m.n \in 1..(SignonBuffers - 1)
AskedInOrder(c) ==
    /\ c.op = "prespawn" => (c.n = 0 /\ c.check = c.level) \/ c.n \in 1..(SignonBuffers - 1)
    /\ c.level = servercount =>
          /\ c.op = "soundlist" => c.n < SoundChunks /\ HasSounds(c.n)
          /\ c.op = "modellist" =>
                c.n < ModelChunks /\ HasSounds(SoundChunks) /\ HasModels(c.n)
          /\ c.op \in {"prespawn", "spawn", "begin"} => Loaded
ListsInv ==
    /\ ListsOfOneLevel
    /\ \A m \in ToSet(Down) : ToldInOrder(m)
    /\ \A c \in ToSet(Up) : AskedInOrder(c)

(* The server's flags are set before the client can ask for what they      *)
(* allow, and a connection starts with nothing on the way.                 *)
StagesInv ==
    /\ ~kicked
    /\ (\E m \in ToSet(Down) : m.op = "cmd spawn") \/ (\E c \in ToSet(Up) : c.op = "spawn")
          => prespawned
    /\ (\E m \in ToSet(Down) : m.op = "skins") \/ (\E c \in ToSet(Up) : c.op = "begin")
          => spawned
    /\ inGame <= spawncount /\ (inGame = spawncount => state # "connected")
    /\ state = "zombie" => sv_inbox = <<>>
    /\ cstate = "disconnected" /\ connecting =>
          /\ stuff = <<>> \/ executing
          /\ cl_inbox # <<>> => Head(cl_inbox).op = "serverdata"

(* Without rcon "reconnect" finds the client connected: it comes after     *)
(* "changing" and nothing that was sent under the level comes between.     *)
Warned(k) ==
    \/ \E m \in ToSet(Down) : m.op = "changing" /\ m.level = k.level /\ Before(Down, m, k)
    \/ cstate = "connected" /\ \A m \in ToSet(Down) : m.level >= k.level
KeptInv ==
    ~remote =>
        /\ reliable_datagram = <<>> /\ ~dropping /\ ~connecting
        /\ cstate # "disconnected" /\ state # "zombie"
        /\ \A m \in ToSet(Down) : m.op # "disconnect"
        /\ \A k \in ToSet(Down) : k.op = "reconnect" =>
              /\ Warned(k)
              /\ \A m \in ToSet(Down) :
                    Before(Down, m, k) /\ m.level = k.level => m.op = "changing"

SignonInv == /\ TypeOK /\ LevelsInv /\ ReconnectInv /\ OneConversation
             /\ ListsInv /\ StagesInv /\ KeptInv

----------------------------------------------------------------------------
(* Sequences: which elements they have, and which come before which.       *)

LEMMA BeforeIn ==
    ASSUME NEW s, NEW m, NEW k, Before(s, m, k)
    PROVE  m \in ToSet(s) /\ k \in ToSet(s)
BY DEF Before, ToSet

LEMMA ElementsTyped ==
    ASSUME NEW S, NEW s \in Seq(S)
    PROVE  ToSet(s) \subseteq S
BY DEF ToSet

LEMMA ConcatFacts ==
    ASSUME NEW S, NEW s \in Seq(S), NEW t \in Seq(S)
    PROVE  /\ s \o t \in Seq(S) /\ ToSet(s \o t) = ToSet(s) \cup ToSet(t)
           /\ \A m, k : Before(s \o t, m, k) <=>
                 \/ Before(s, m, k) \/ Before(t, m, k)
                 \/ m \in ToSet(s) /\ k \in ToSet(t)
<1> DEFINE u == s \o t p == Len(s) q == Len(t)
<1>0. p \in Nat /\ q \in Nat /\ DOMAIN s = 1..p /\ DOMAIN t = 1..q
  OBVIOUS
<1>1. /\ u \in Seq(S) /\ Len(u) = p + q /\ DOMAIN u = 1..(p + q)
      /\ \A i \in 1..p + q : u[i] = IF i <= p THEN s[i] ELSE t[i - p]
  <2>1. u \in Seq(S) /\ Len(u) = p + q
        /\ \A i \in 1..p + q : u[i] = IF i <= p THEN s[i] ELSE t[i - p]
    BY ConcatProperties
  <2> QED BY <2>1, LenProperties
<1> HIDE DEF u, p, q
<1>2. \A i \in 1..p : i \in 1..(p + q) /\ u[i] = s[i]
  BY <1>0, <1>1
<1>3. \A i \in 1..q : i + p \in 1..(p + q) /\ u[i + p] = t[i]
  <2> TAKE i \in 1..q
  <2>1. i + p \in 1..(p + q) /\ ~(i + p <= p) /\ (i + p) - p = i
    BY <1>0
  <2> QED BY <1>1, <2>1
<1>4. \A i \in 1..(p + q) : i \notin 1..p => i - p \in 1..q /\ i = (i - p) + p
  BY <1>0
<1>5. ToSet(u) = ToSet(s) \cup ToSet(t)
  <2>1. ASSUME NEW e \in ToSet(u) PROVE e \in ToSet(s) \cup ToSet(t)
    <3>1. PICK i \in 1..(p + q) : u[i] = e
      BY <1>1, <2>1 DEF ToSet
    <3>2. CASE i \in 1..p
      BY <1>0, <1>2, <3>1, <3>2 DEF ToSet
    <3>3. CASE i \notin 1..p
      BY <1>0, <1>3, <1>4, <3>1, <3>3 DEF ToSet
    <3> QED BY <3>2, <3>3
  <2>2. ASSUME NEW e \in ToSet(s) PROVE e \in ToSet(u)
    BY <1>0, <1>1, <1>2, <2>2 DEF ToSet
  <2>3. ASSUME NEW e \in ToSet(t) PROVE e \in ToSet(u)
    BY <1>0, <1>1, <1>3, <2>3 DEF ToSet
  <2> QED BY <2>1, <2>2, <2>3
<1>6. ASSUME NEW m, NEW k, Before(u, m, k)
      PROVE  \/ Before(s, m, k) \/ Before(t, m, k)
             \/ m \in ToSet(s) /\ k \in ToSet(t)
  <2>1. PICK i, j \in 1..(p + q) : i < j /\ u[i] = m /\ u[j] = k
    BY <1>1, <1>6 DEF Before
  <2>2. CASE j \in 1..p
    <3>1. i \in 1..p
      BY <1>0, <2>1, <2>2
    <3> QED BY <1>0, <1>2, <2>1, <2>2, <3>1 DEF Before
  <2>3. CASE i \in 1..p /\ j \notin 1..p
    <3>1. m = s[i] /\ k = t[j - p] /\ j - p \in 1..q
      BY <1>2, <1>3, <1>4, <2>1, <2>3
    <3> QED BY <1>0, <2>3, <3>1 DEF ToSet
  <2>4. CASE i \notin 1..p
    <3>1. j \notin 1..p
      BY <1>0, <2>1, <2>4
    <3>2. /\ m = t[i - p] /\ i - p \in 1..q
          /\ k = t[j - p] /\ j - p \in 1..q
      BY <1>3, <1>4, <2>1, <2>4, <3>1
    <3>3. i - p < j - p
      BY <1>0, <2>1
    <3> QED BY <1>0, <3>2, <3>3 DEF Before
  <2> QED BY <2>2, <2>3, <2>4
<1>7. ASSUME NEW m, NEW k,
             \/ Before(s, m, k) \/ Before(t, m, k)
             \/ m \in ToSet(s) /\ k \in ToSet(t)
      PROVE  Before(u, m, k)
  <2>1. CASE Before(s, m, k)
    <3>1. PICK i, j \in 1..p : i < j /\ s[i] = m /\ s[j] = k
      BY <1>0, <2>1 DEF Before
    <3> QED BY <1>1, <1>2, <3>1 DEF Before
  <2>2. CASE Before(t, m, k)
    <3>1. PICK i, j \in 1..q : i < j /\ t[i] = m /\ t[j] = k
      BY <1>0, <2>2 DEF Before
    <3>2. i + p < j + p
      BY <1>0, <3>1
    <3> QED BY <1>1, <1>3, <3>1, <3>2 DEF Before
  <2>3. CASE m \in ToSet(s) /\ k \in ToSet(t)
    <3>1. PICK i \in 1..p : s[i] = m
      BY <1>0, <2>3 DEF ToSet
    <3>2. PICK j \in 1..q : t[j] = k
      BY <1>0, <2>3 DEF ToSet
    <3>3. i < j + p
      BY <1>0
    <3> QED BY <1>1, <1>2, <1>3, <3>1, <3>2, <3>3 DEF Before
  <2> QED BY <1>7, <2>1, <2>2, <2>3
<1> QED BY <1>1, <1>5, <1>6, <1>7 DEF u

LEMMA OneFacts ==
    ASSUME NEW e
    PROVE  ToSet(<<e>>) = {e} /\ \A m, k : ~Before(<<e>>, m, k)
<1>1. DOMAIN <<e>> = {1} /\ <<e>>[1] = e
  OBVIOUS
<1> QED BY <1>1 DEF ToSet, Before

LEMMA NoneFacts == ToSet(<<>>) = {} /\ \A m, k : ~Before(<<>>, m, k)
BY DEF ToSet, Before

(* s is h, then t; t is s, then e; t is s with some left out.              *)
Starts(s, h, t) ==
    /\ ToSet(s) = {h} \cup ToSet(t)
    /\ \A m, k : Before(s, m, k) <=> Before(t, m, k) \/ (m = h /\ k \in ToSet(t))
Adds(s, e, t) ==
    /\ ToSet(t) = ToSet(s) \cup {e}
    /\ \A m, k : Before(t, m, k) <=> Before(s, m, k) \/ (m \in ToSet(s) /\ k = e)
Less(s, t) ==
    ToSet(t) \subseteq ToSet(s) /\ \A m, k : Before(t, m, k) => Before(s, m, k)
LeavesOut(s, e, t) ==
    /\ Less(s, t) /\ ToSet(s) = ToSet(t) \cup {e}
    /\ \A m, k : Before(s, m, k) /\ m # e /\ k # e => Before(t, m, k)

LEMMA HeadFacts ==
    ASSUME NEW S, NEW s \in Seq(S), s # <<>>
    PROVE  /\ Head(s) \in S /\ Tail(s) \in Seq(S) /\ Starts(s, Head(s), Tail(s))
<1>1. Head(s) \in S /\ Tail(s) \in Seq(S) /\ <<Head(s)>> \in Seq(S)
  BY HeadTailProperties
<1>2. s = <<Head(s)>> \o Tail(s)
  <2>1. Len(s) \in Nat \ {0}
    BY EmptySeq
  <2>2. Len(<<Head(s)>>) = 1 /\ <<Head(s)>>[1] = Head(s) /\ Len(Tail(s)) = Len(s) - 1
    BY HeadTailProperties
  <2> DEFINE u == <<Head(s)>> \o Tail(s)
  <2>3. /\ u \in Seq(S) /\ Len(u) = 1 + (Len(s) - 1)
        /\ \A i \in 1..1 + (Len(s) - 1) :
              u[i] = IF i <= 1 THEN <<Head(s)>>[i] ELSE Tail(s)[i - 1]
    BY <1>1, <2>2, ConcatProperties
  <2> HIDE DEF u
  <2>4. Len(u) = Len(s)
    BY <2>1, <2>3
  <2>5. ASSUME NEW i \in 1..Len(s) PROVE s[i] = u[i]
    <3>1. CASE i = 1
      BY <2>1, <2>2, <2>3, <3>1
    <3>2. CASE i # 1
      <4>1. i - 1 \in 1..(Len(s) - 1) /\ (i - 1) + 1 = i /\ ~(i <= 1)
            /\ i \in 1..1 + (Len(s) - 1)
        BY <2>1, <3>2
      <4>2. Tail(s)[i - 1] = s[i]
        BY <2>2, <4>1, HeadTailProperties
      <4> QED BY <2>3, <4>1, <4>2
    <3> QED BY <3>1, <3>2
  <2> QED BY <2>3, <2>4, <2>5, SeqEqual DEF u
<1> DEFINE one == <<Head(s)>> rest == Tail(s)
<1>3. ToSet(one) = {Head(s)} /\ \A m, k : ~Before(one, m, k)
  BY OneFacts
<1>4. /\ ToSet(one \o rest) = ToSet(one) \cup ToSet(rest)
      /\ \A m, k : Before(one \o rest, m, k) <=>
            \/ Before(one, m, k) \/ Before(rest, m, k)
            \/ m \in ToSet(one) /\ k \in ToSet(rest)
  BY <1>1, ConcatFacts
<1>5. s = one \o rest
  BY <1>2
<1> HIDE DEF one, rest
<1>6. Starts(s, Head(s), rest)
  BY <1>3, <1>4, <1>5 DEF Starts
<1> QED BY <1>1, <1>6 DEF rest

LEMMA AppendFacts ==
    ASSUME NEW S, NEW s \in Seq(S), NEW e \in S
    PROVE  Append(s, e) \in Seq(S) /\ Adds(s, e, Append(s, e))
<1>1. Append(s, e) = s \o <<e>> /\ <<e>> \in Seq(S) /\ Append(s, e) \in Seq(S)
  BY AppendIsConcat
<1> DEFINE one == <<e>>
<1>2. ToSet(one) = {e} /\ \A m, k : ~Before(one, m, k)
  BY OneFacts
<1>3. /\ ToSet(s \o one) = ToSet(s) \cup ToSet(one)
      /\ \A m, k : Before(s \o one, m, k) <=>
            \/ Before(s, m, k) \/ Before(one, m, k)
            \/ m \in ToSet(s) /\ k \in ToSet(one)
  BY <1>1, ConcatFacts
<1>4. Append(s, e) = s \o one
  BY <1>1
<1> HIDE DEF one
<1>5. Adds(s, e, Append(s, e))
  BY <1>2, <1>3, <1>4 DEF Adds
<1> QED BY <1>1, <1>5

LEMMA FourFacts ==
    ASSUME NEW S, NEW a \in Seq(S), NEW b \in Seq(S), NEW c \in Seq(S), NEW d \in Seq(S)
    PROVE  /\ a \o b \o c \o d \in Seq(S)
           /\ ToSet(a \o b \o c \o d) = ToSet(a) \cup ToSet(b) \cup ToSet(c) \cup ToSet(d)
           /\ \A m, k : Before(a \o b \o c \o d, m, k) <=>
                 \/ Before(a, m, k) \/ Before(b, m, k) \/ Before(c, m, k) \/ Before(d, m, k)
                 \/ m \in ToSet(a) /\ k \in ToSet(b) \cup ToSet(c) \cup ToSet(d)
                 \/ m \in ToSet(b) /\ k \in ToSet(c) \cup ToSet(d)
                 \/ m \in ToSet(c) /\ k \in ToSet(d)
<1> DEFINE ab == a \o b abc == ab \o c abcd == abc \o d
<1>1. /\ ab \in Seq(S) /\ ToSet(ab) = ToSet(a) \cup ToSet(b)
      /\ \A m, k : Before(ab, m, k) <=>
            Before(a, m, k) \/ Before(b, m, k) \/ (m \in ToSet(a) /\ k \in ToSet(b))
  BY ConcatFacts
<1> HIDE DEF ab
<1>2. /\ abc \in Seq(S) /\ ToSet(abc) = ToSet(ab) \cup ToSet(c)
      /\ \A m, k : Before(abc, m, k) <=>
            Before(ab, m, k) \/ Before(c, m, k) \/ (m \in ToSet(ab) /\ k \in ToSet(c))
  BY <1>1, ConcatFacts
<1> HIDE DEF abc
<1>3. /\ abcd \in Seq(S) /\ ToSet(abcd) = ToSet(abc) \cup ToSet(d)
      /\ \A m, k : Before(abcd, m, k) <=>
            Before(abc, m, k) \/ Before(d, m, k) \/ (m \in ToSet(abc) /\ k \in ToSet(d))
  BY <1>2, ConcatFacts
<1> HIDE DEF abcd
<1>4. abcd = a \o b \o c \o d
  BY DEF abcd, abc, ab
<1>5. ToSet(abcd) = ToSet(a) \cup ToSet(b) \cup ToSet(c) \cup ToSet(d)
  BY <1>1, <1>2, <1>3
<1>6. ASSUME NEW m, NEW k
      PROVE  Before(abcd, m, k) <=>
                 \/ Before(a, m, k) \/ Before(b, m, k) \/ Before(c, m, k) \/ Before(d, m, k)
                 \/ m \in ToSet(a) /\ k \in ToSet(b) \cup ToSet(c) \cup ToSet(d)
                 \/ m \in ToSet(b) /\ k \in ToSet(c) \cup ToSet(d)
                 \/ m \in ToSet(c) /\ k \in ToSet(d)
  BY <1>1, <1>2, <1>3
<1> QED BY <1>3, <1>4, <1>5, <1>6

----------------------------------------------------------------------------
(* What is on the way, in terms of its parts.                              *)

InParts(S, s, a, b, c, d) ==
    /\ s \in Seq(S)
    /\ ToSet(s) = ToSet(a) \cup ToSet(b) \cup ToSet(c) \cup ToSet(d)
    /\ \A m, k : Before(s, m, k) <=>
          \/ Before(a, m, k) \/ Before(b, m, k) \/ Before(c, m, k) \/ Before(d, m, k)
          \/ m \in ToSet(a) /\ k \in ToSet(b) \cup ToSet(c) \cup ToSet(d)
          \/ m \in ToSet(b) /\ k \in ToSet(c) \cup ToSet(d)
          \/ m \in ToSet(c) /\ k \in ToSet(d)
InThree(S, s, a, b, c) == InParts(S, s, <<>>, a, b, c)

LEMMA ThreeParts ==
    ASSUME NEW S, NEW a \in Seq(S), NEW b \in Seq(S), NEW c \in Seq(S)
    PROVE  InThree(S, a \o b \o c, a, b, c)
<1> DEFINE none == <<>>
<1>1. none \in Seq(S)
  OBVIOUS
<1>2. none \o a = a
  BY ConcatEmptySeq
<1> HIDE DEF none
<1>3. InParts(S, none \o a \o b \o c, none, a, b, c)
  <2> DEFINE all == none \o a \o b \o c
  <2>1. /\ all \in Seq(S)
        /\ ToSet(all) = ToSet(none) \cup ToSet(a) \cup ToSet(b) \cup ToSet(c)
        /\ \A m, k : Before(all, m, k) <=>
              \/ Before(none, m, k) \/ Before(a, m, k) \/ Before(b, m, k) \/ Before(c, m, k)
              \/ m \in ToSet(none) /\ k \in ToSet(a) \cup ToSet(b) \cup ToSet(c)
              \/ m \in ToSet(a) /\ k \in ToSet(b) \cup ToSet(c)
              \/ m \in ToSet(b) /\ k \in ToSet(c)
    BY <1>1, FourFacts
  <2> HIDE DEF all
  <2>2. InParts(S, all, none, a, b, c)
    BY <2>1 DEF InParts
  <2> QED BY <2>2 DEF all
<1>4. none \o a \o b \o c = a \o b \o c
  BY <1>2
<1> QED BY <1>3, <1>4 DEF InThree, none

LEMMA StuffedAreMessages ==
    ASSUME NEW s \in Seq(Stuffed)
    PROVE  s \in Seq(Messages)
BY SeqMonotonic DEF Messages

LEMMA DownParts ==
    /\ TypeOK => InParts(Messages, Down, stuff, cl_inbox, sv_flight, sv_message)
    /\ TypeOK' => InParts(Messages, Down', stuff', cl_inbox', sv_flight', sv_message')
<1>1. ASSUME TypeOK PROVE InParts(Messages, Down, stuff, cl_inbox, sv_flight, sv_message)
  <2>1. /\ stuff \in Seq(Messages) /\ cl_inbox \in Seq(Messages)
        /\ sv_flight \in Seq(Messages) /\ sv_message \in Seq(Messages)
    BY <1>1, StuffedAreMessages DEF TypeOK
  <2> QED BY <2>1, FourFacts DEF Down, InParts
<1>2. ASSUME TypeOK'
      PROVE  InParts(Messages, Down', stuff', cl_inbox', sv_flight', sv_message')
  <2>1. /\ stuff' \in Seq(Messages) /\ cl_inbox' \in Seq(Messages)
        /\ sv_flight' \in Seq(Messages) /\ sv_message' \in Seq(Messages)
    BY <1>2, StuffedAreMessages DEF TypeOK
  <2> QED BY <2>1, FourFacts DEF Down, InParts
<1> QED BY <1>1, <1>2

LEMMA UpParts ==
    /\ TypeOK => InThree(Commands, Up, sv_inbox, cl_flight, cl_message)
    /\ TypeOK' => InThree(Commands, Up', sv_inbox', cl_flight', cl_message')
<1>1. TypeOK => InThree(Commands, Up, sv_inbox, cl_flight, cl_message)
  BY ThreeParts DEF TypeOK, Up
<1>2. TypeOK' => InThree(Commands, Up', sv_inbox', cl_flight', cl_message')
  BY ThreeParts DEF TypeOK, Up
<1> QED BY <1>1, <1>2

(* How the parts change: one element is taken, one is added, one moves on. *)

LEMMA PartTaken ==
    ASSUME NEW S, NEW s, NEW t, NEW a, NEW b, NEW c, NEW d, NEW b2, NEW e,
           InParts(S, s, a, b, c, d), InParts(S, t, a, b2, c, d), Starts(b, e, b2)
    PROVE  /\ LeavesOut(s, e, t)
           /\ ToSet(a) = {} => Starts(s, e, t)
           /\ \A k \in ToSet(b2) \cup ToSet(c) \cup ToSet(d) : Before(s, e, k)
<1>1. ToSet(s) = ToSet(t) \cup {e}
  BY DEF InParts, Starts
<1>2. ASSUME NEW m, NEW k, Before(t, m, k) PROVE Before(s, m, k)
  BY <1>2 DEF InParts, Starts
<1>3. ASSUME NEW m, NEW k, Before(s, m, k), m # e, k # e PROVE Before(t, m, k)
  BY <1>3 DEF InParts, Starts
<1>4. ASSUME NEW k \in ToSet(b2) \cup ToSet(c) \cup ToSet(d) PROVE Before(s, e, k)
  BY DEF InParts, Starts
<1>5. ASSUME ToSet(a) = {} PROVE Starts(s, e, t)
  <2>1. \A m, k : ~Before(a, m, k)
    BY <1>5, BeforeIn
  <2>2. ASSUME NEW m, NEW k
        PROVE  Before(s, m, k) <=> Before(t, m, k) \/ (m = e /\ k \in ToSet(t))
    BY <1>5, <2>1 DEF InParts, Starts
  <2> QED BY <1>1, <2>2 DEF Starts
<1> QED BY <1>1, <1>2, <1>3, <1>4, <1>5 DEF LeavesOut, Less

LEMMA FirstTaken ==
    ASSUME NEW S, NEW s, NEW t, NEW a, NEW b, NEW c, NEW d, NEW a2, NEW e,
           InParts(S, s, a, b, c, d), InParts(S, t, a2, b, c, d), Starts(a, e, a2)
    PROVE  Starts(s, e, t)
<1>1. ToSet(s) = ToSet(t) \cup {e}
  BY DEF InParts, Starts
<1>2. ASSUME NEW m, NEW k
      PROVE  Before(s, m, k) <=> Before(t, m, k) \/ (m = e /\ k \in ToSet(t))
  BY DEF InParts, Starts
<1> QED BY <1>1, <1>2 DEF Starts

LEMMA PartMoved ==
    ASSUME NEW S, NEW s, NEW t, NEW a, NEW b, NEW c, NEW d, NEW a2, NEW b2, NEW e,
           InParts(S, s, a, b, c, d), InParts(S, t, a2, b2, c, d),
           Starts(b, e, b2), Adds(a, e, a2)
    PROVE  ToSet(t) = ToSet(s) /\ \A m, k : Before(t, m, k) <=> Before(s, m, k)
<1>1. ToSet(s) = ToSet(t)
  BY DEF InParts, Starts, Adds
<1>2. ASSUME NEW m, NEW k PROVE Before(t, m, k) <=> Before(s, m, k)
  BY DEF InParts, Starts, Adds
<1> QED BY <1>1, <1>2

LEMMA LastAdded ==
    ASSUME NEW S, NEW s, NEW t, NEW a, NEW b, NEW c, NEW d, NEW d2, NEW e,
           InParts(S, s, a, b, c, d), InParts(S, t, a, b, c, d2), Adds(d, e, d2)
    PROVE  Adds(s, e, t)
<1>1. ToSet(t) = ToSet(s) \cup {e}
  BY DEF InParts, Adds
<1>2. ASSUME NEW m, NEW k
      PROVE  Before(t, m, k) <=> Before(s, m, k) \/ (m \in ToSet(s) /\ k = e)
  BY DEF InParts, Adds
<1> QED BY <1>1, <1>2 DEF Adds

----------------------------------------------------------------------------
(* Types *)

LEMMA NewMessages ==
    /\ \A op \in {"changing", "reconnect", "skins", "cmd prespawn", "cmd spawn"} :
          \A level \in 0..MaxLevels : \A n \in Nat : Message(op, level, n) \in Stuffed
    /\ \A op \in {"serverdata", "disconnect"} : \A level \in 0..MaxLevels :
          Message(op, level, 0) \in Messages
    /\ Stuffed \subseteq Messages
BY DEF Message, Stuffed, Messages

LEMMA NewCommands ==
    \A op \in {"new", "soundlist", "modellist", "prespawn", "spawn", "begin"} :
        \A level \in 0..MaxLevels : \A n \in Nat : Command(op, level, n) \in Commands
BY SizesAssumption DEF Command, Commands

LEMMA LevelsTyped ==
    /\ \A m \in Messages : m.level \in 0..MaxLevels
    /\ \A c \in Commands : c.level \in 0..MaxLevels
<1>1. ASSUME NEW m \in Messages PROVE m.level \in 0..MaxLevels
  <2>1. CASE m \in Stuffed
    BY <2>1 DEF Stuffed
  <2>2. CASE m \in [op : {"serverdata", "disconnect"}, level : 0..MaxLevels, n : {0}]
    BY <2>2
  <2>3. CASE m \in [op : {"svc_soundlist", "svc_modellist"}, level : Levels, n : Nat,
                    next : Nat]
    BY <2>3 DEF Levels
  <2> QED BY <2>1, <2>2, <2>3 DEF Messages
<1>2. ASSUME NEW c \in Commands PROVE c.level \in 0..MaxLevels
  BY DEF Commands
<1> QED BY <1>1, <1>2

LEMMA PresentLevel ==
    ASSUME TypeOK
    PROVE  spawncount \in 0..MaxLevels /\ servercount \in 0..MaxLevels
BY SizesAssumption DEF TypeOK, Levels

LEMMA InitType == Init => TypeOK
<1> SUFFICES ASSUME Init PROVE TypeOK
  OBVIOUS
<1>1. Command("new", 0, 0) \in Commands
  BY NewCommands, SizesAssumption
<1>2. cl_message \in Seq(Commands) /\ cl_flight \in Seq(Commands) /\ sv_inbox \in Seq(Commands)
  BY <1>1 DEF Init
<1>3. spawncount \in Levels /\ servercount \in 0..MaxLevels /\ worldmodel \in 0..MaxLevels
      /\ inGame \in 0..MaxLevels
  BY SizesAssumption DEF Init, Levels
<1>4. sounds \in [1..SoundChunks -> 0..MaxLevels] /\ models \in [1..ModelChunks -> 0..MaxLevels]
  BY SizesAssumption DEF Init
<1>5. /\ reliable_datagram \in Seq(Stuffed) /\ stuff \in Seq(Stuffed)
      /\ sv_message \in Seq(Messages) /\ sv_flight \in Seq(Messages)
      /\ cl_inbox \in Seq(Messages)
  BY DEF Init
<1> QED BY <1>2, <1>3, <1>4, <1>5 DEF Init, TypeOK

(* What is taken from the head of a stream has its type, and so has the rest. *)
LEMMA CommandTaken ==
    ASSUME TypeOK, NEW op, Next_Command(op)
    PROVE  /\ Head(sv_inbox) \in Commands /\ Head(sv_inbox).op = op
           /\ sv_inbox' \in Seq(Commands)
           /\ Starts(sv_inbox, Head(sv_inbox), sv_inbox')
BY HeadFacts DEF TypeOK, Next_Command

LEMMA MessageTaken ==
    ASSUME TypeOK, cl_inbox # <<>>
    PROVE  /\ Head(cl_inbox) \in Messages /\ Tail(cl_inbox) \in Seq(Messages)
           /\ Starts(cl_inbox, Head(cl_inbox), Tail(cl_inbox))
BY HeadFacts DEF TypeOK

LEMMA StuffTaken ==
    ASSUME TypeOK, NEW op, Next_Stuffed(op)
    PROVE  /\ Head(stuff) \in Stuffed /\ Head(stuff).op = op
           /\ stuff' \in Seq(Stuffed)
           /\ Starts(stuff, Head(stuff), stuff')
BY HeadFacts DEF TypeOK, Next_Stuffed

LEMMA ReplyTyped ==
    ASSUME TypeOK, NEW m \in Messages, Reply(m)
    PROVE  sv_message' \in Seq(Messages) /\ Adds(sv_message, m, sv_message')
BY AppendFacts DEF TypeOK, Reply

LEMMA RequestTyped ==
    ASSUME TypeOK, NEW c \in Commands, Request(c)
    PROVE  cl_message' \in Seq(Commands) /\ Adds(cl_message, c, cl_message')
BY AppendFacts DEF TypeOK, Request

LEMMA NewTyped ==
    ASSUME TypeOK, New
    PROVE  /\ sv_message' \in Seq(Messages) /\ state' \in {"zombie", "connected", "spawned"}
           /\ UNCHANGED <<spawncount, prespawned, spawned, inGame, kicked, reliable_datagram>>
<1>1. Message("serverdata", spawncount, 0) \in Messages
  BY PresentLevel, NewMessages
<1> QED BY <1>1, ReplyTyped DEF New, Ignore, server, TypeOK

LEMMA DropTyped ==
    ASSUME TypeOK, SV_DropClient
    PROVE  /\ sv_message' \in Seq(Messages) /\ state' \in {"zombie", "connected", "spawned"}
           /\ UNCHANGED <<spawncount, prespawned, spawned, inGame, reliable_datagram>>
<1>1. Message("disconnect", spawncount, 0) \in Messages
  BY PresentLevel, NewMessages
<1> QED BY <1>1, ReplyTyped DEF SV_DropClient

(* What the server's handlers may do to its state.                         *)
LEMMA PartTyped ==
    ASSUME TypeOK, NEW op \in {"svc_soundlist", "svc_modellist"}, NEW n \in Nat,
           NEW chunks \in Nat
    PROVE  ListPart(op, n, chunks) \in Messages
BY DEF ListPart, Messages, TypeOK

LEMMA CommandType ==
    ASSUME TypeOK,
           SV_New_f \/ SV_Soundlist_f \/ SV_Modellist_f \/ SV_PreSpawn_f \/ SV_Spawn_f \/ SV_Begin_f
    PROVE  TypeOK'
<1>0. TypeOK
  OBVIOUS
<1>1. ASSUME NEW op, Next_Command(op), sv_message' \in Seq(Messages),
             state' \in {"zombie", "connected", "spawned"},
             prespawned' \in BOOLEAN, spawned' \in BOOLEAN, kicked' \in BOOLEAN,
             inGame' \in 0..MaxLevels, UNCHANGED <<spawncount, reliable_datagram>>
      PROVE  TypeOK'
  <2>1. sv_inbox' \in Seq(Commands)
    BY <1>1, CommandTaken
  <2> QED BY <1>1, <2>1 DEF Next_Command, TypeOK, client, lists
<1>2. ASSUME NEW op, Next_Command(op), Ignore PROVE TypeOK'
  <2>1. /\ sv_message' \in Seq(Messages) /\ state' \in {"zombie", "connected", "spawned"}
        /\ inGame' \in 0..MaxLevels /\ UNCHANGED <<spawncount, reliable_datagram>>
    BY <1>2 DEF Ignore, server, TypeOK
  <2>2. prespawned' \in BOOLEAN /\ spawned' \in BOOLEAN /\ kicked' \in BOOLEAN
    BY <1>2, Zenon DEF Ignore, server, TypeOK
  <2> QED BY <1>1, <1>2, <2>1, <2>2
<1>3. ASSUME NEW op, Next_Command(op), New PROVE TypeOK'
  <2>1. /\ sv_message' \in Seq(Messages) /\ state' \in {"zombie", "connected", "spawned"}
        /\ UNCHANGED <<spawncount, prespawned, spawned, inGame, kicked, reliable_datagram>>
    BY <1>3, NewTyped
  <2>2. prespawned' \in BOOLEAN /\ spawned' \in BOOLEAN /\ kicked' \in BOOLEAN
    BY <2>1, Zenon DEF TypeOK
  <2>3. inGame' \in 0..MaxLevels
    BY <2>1 DEF TypeOK
  <2> QED BY <1>1, <1>3, <2>1, <2>2, <2>3
<1>4. ASSUME NEW op, Next_Command(op), Kick PROVE TypeOK'
  <2>1. /\ sv_message' \in Seq(Messages) /\ state' \in {"zombie", "connected", "spawned"}
        /\ UNCHANGED <<spawncount, prespawned, spawned, inGame, reliable_datagram>>
    BY <1>4, DropTyped DEF Kick
  <2>2. prespawned' \in BOOLEAN /\ spawned' \in BOOLEAN /\ kicked' \in BOOLEAN
    BY <1>4, <2>1, Zenon DEF TypeOK, Kick
  <2>3. inGame' \in 0..MaxLevels
    BY <2>1 DEF TypeOK
  <2> QED BY <1>1, <1>4, <2>1, <2>2, <2>3
<1>5. ASSUME NEW op, Next_Command(op), NEW m \in Messages, Reply(m),
             prespawned' \in BOOLEAN,
             UNCHANGED <<spawncount, state, spawned, inGame, kicked, reliable_datagram>>
      PROVE  TypeOK'
  <2>1. sv_message' \in Seq(Messages)
    BY <1>5, ReplyTyped
  <2>2. spawned' \in BOOLEAN /\ kicked' \in BOOLEAN
    BY <1>5, Zenon DEF TypeOK
  <2>3. inGame' \in 0..MaxLevels /\ state' \in {"zombie", "connected", "spawned"}
    BY <1>5 DEF TypeOK
  <2> QED BY <1>1, <1>5, <2>1, <2>2, <2>3
<1>6. CASE SV_New_f
  BY <1>3, <1>6 DEF SV_New_f
<1>7. ASSUME NEW op, Next_Command(op), NEW part \in {"svc_soundlist", "svc_modellist"},
             NEW chunks \in Nat, ForThisLevel(SendPart(part, chunks))
      PROVE  TypeOK'
  <2>1. CASE SendPart(part, chunks)
    <3>1. ListPart(part, Head(sv_inbox).n, chunks) \in Messages
      BY <1>7, CommandTaken, PartTyped DEF Commands
    <3>2. prespawned' \in BOOLEAN
      BY <2>1, Zenon DEF SendPart, server, TypeOK
    <3> QED BY <1>5, <1>7, <2>1, <3>1, <3>2 DEF SendPart, server
  <2> QED BY <1>2, <1>3, <1>7, <2>1 DEF ForThisLevel
<1>8. CASE SV_Soundlist_f
  BY <1>7, <1>8, SizesAssumption DEF SV_Soundlist_f
<1>9. CASE SV_Modellist_f
  BY <1>7, <1>9, SizesAssumption DEF SV_Modellist_f
<1>10. CASE SV_PreSpawn_f
  <2> DEFINE c == Head(sv_inbox)
             buf == IF c.n >= SignonBuffers THEN 0 ELSE c.n
             m == IF buf = SignonBuffers - 1 THEN Message("cmd spawn", spawncount, 0)
                  ELSE Message("cmd prespawn", spawncount, buf + 1)
  <2>1. Next_Command("prespawn")
        /\ ForThisLevel(IF buf = 0 /\ c.check # spawncount THEN Kick ELSE SendSignon(buf))
    BY <1>10 DEF SV_PreSpawn_f
  <2>2. CASE SendSignon(buf)
    <3>1. c \in Commands
      BY <2>1, CommandTaken
    <3>2. buf \in Nat /\ spawncount \in 0..MaxLevels
      <4>1. c.n \in Nat
        BY <3>1 DEF Commands
      <4>2. spawncount \in 0..MaxLevels
        BY PresentLevel
      <4> QED
        BY <4>1, <4>2
    <3>3. m \in Messages
      <4> HIDE DEF buf
      <4>1. buf + 1 \in Nat
        BY <3>2
      <4>2. /\ Message("cmd spawn", spawncount, 0) \in Messages
            /\ Message("cmd prespawn", spawncount, buf + 1) \in Messages
        BY <3>2, <4>1, NewMessages
      <4> QED BY <4>2
    <3> QED BY <1>5, <2>1, <2>2, <3>3 DEF SendSignon
  <2> QED BY <1>2, <1>3, <1>4, <2>1, <2>2 DEF ForThisLevel
<1>11. CASE SV_Spawn_f
  <2>1. Next_Command("spawn") /\ ForThisLevel(IF prespawned THEN SendSpawn ELSE Kick)
    BY <1>11 DEF SV_Spawn_f
  <2>2. CASE SendSpawn
    <3>1. Message("skins", spawncount, 0) \in Messages
      BY PresentLevel, NewMessages
    <3>2. /\ sv_message' \in Seq(Messages) /\ inGame' \in 0..MaxLevels
          /\ state' \in {"zombie", "connected", "spawned"}
      BY <2>2, <3>1 DEF SendSpawn, TypeOK
    <3>3. prespawned' \in BOOLEAN /\ spawned' \in BOOLEAN /\ kicked' \in BOOLEAN
      BY <2>2, Zenon DEF SendSpawn, TypeOK
    <3> QED BY <1>1, <2>1, <2>2, <3>2, <3>3 DEF SendSpawn
  <2> QED BY <1>2, <1>3, <1>4, <2>1, <2>2 DEF ForThisLevel
<1>12. CASE SV_Begin_f
  <2>1. Next_Command("begin")
    BY <1>12 DEF SV_Begin_f
  <2>2. CASE /\ state' = "spawned"
             /\ inGame' = (IF Head(sv_inbox).level = spawncount THEN spawncount ELSE inGame)
             /\ UNCHANGED <<spawncount, prespawned, spawned, kicked,
                            reliable_datagram, sv_message>>
    <3>1. /\ sv_message' \in Seq(Messages) /\ inGame' \in 0..MaxLevels
          /\ state' \in {"zombie", "connected", "spawned"}
      BY <2>2, SizesAssumption DEF TypeOK, Levels
    <3>2. prespawned' \in BOOLEAN /\ spawned' \in BOOLEAN /\ kicked' \in BOOLEAN
      BY <2>2, Zenon DEF TypeOK
    <3> QED BY <1>1, <2>1, <2>2, <3>1, <3>2
  <2> QED BY <1>2, <1>4, <1>12, <2>1, <2>2 DEF SV_Begin_f
<1> QED BY <1>6, <1>8, <1>9, <1>10, <1>11, <1>12

LEMMA AppendedTyped ==
    ASSUME TypeOK, NEW message \in Seq(Messages), NEW datagram \in Seq(Messages)
    PROVE  Appended(message, datagram) \in Seq(Messages)
BY ConcatProperties DEF Appended

(* What SV_Map_f sends, and what it leaves for SV_SendClientMessages.      *)
LEMMA MapTyped ==
    ASSUME TypeOK, NEW now \in BOOLEAN, SV_Map_f(now)
    PROVE  /\ spawncount' \in Levels /\ reliable_datagram' \in Seq(Stuffed)
           /\ sv_message' \in Seq(Messages) /\ sv_flight' \in Seq(Messages)
<1> DEFINE c == Message("changing", spawncount', 0)
           r == Message("reconnect", spawncount', 0)
           all == reliable_datagram \o <<c>>
           changing == Appended(sv_message, all)
           later == <<r>>
           sent == Appended(<<>>, IF now THEN later ELSE <<>>)
<1>1. spawncount' \in Levels /\ spawncount' \in 0..MaxLevels
  BY SizesAssumption DEF SV_Map_f, TypeOK, Levels
<1>2. c \in Stuffed /\ r \in Stuffed
  BY <1>1, NewMessages
<1> HIDE DEF c, r
<1>3. <<c>> \in Seq(Stuffed) /\ later \in Seq(Stuffed) /\ reliable_datagram \in Seq(Stuffed)
  BY <1>2 DEF TypeOK
<1>4. all \in Seq(Stuffed)
  BY <1>3, ConcatProperties
<1> HIDE DEF all, later
<1>5. all \in Seq(Messages) /\ later \in Seq(Messages) /\ <<>> \in Seq(Messages)
  BY <1>3, <1>4, StuffedAreMessages
<1>6. changing \in Seq(Messages) /\ sent \in Seq(Messages)
  BY <1>5, AppendedTyped DEF TypeOK
<1>7. changing \o sent \in Seq(Messages)
  BY <1>6, ConcatProperties
<1>8. /\ reliable_datagram' = (IF now THEN <<>> ELSE later)
      /\ \/ sv_message' = changing \o sent /\ UNCHANGED sv_flight
         \/ sv_flight' = changing /\ sv_message' = sent
  BY DEF SV_Map_f, c, r, all, later
<1> HIDE DEF changing, sent
<1>9. reliable_datagram' \in Seq(Stuffed)
  BY <1>3, <1>8
<1>10. sv_message' \in Seq(Messages) /\ sv_flight' \in Seq(Messages)
  BY <1>6, <1>7, <1>8 DEF TypeOK
<1> QED BY <1>1, <1>9, <1>10

LEMMA FrameType ==
    ASSUME TypeOK,
           SV_SendClientMessages \/ SV_Drop_f \/ SV_Transmit \/ SV_Deliver \/ Connect
           \/ \E now \in BOOLEAN : SV_Map_f(now)
    PROVE  TypeOK'
<1>1. CASE SV_SendClientMessages
  <2>1. reliable_datagram \in Seq(Messages) /\ reliable_datagram' \in Seq(Stuffed)
    BY <1>1, StuffedAreMessages DEF SV_SendClientMessages, TypeOK
  <2>2. sv_message' \in Seq(Messages)
    BY <1>1, <2>1, AppendedTyped DEF SV_SendClientMessages, TypeOK
  <2> QED BY <1>1, <2>1, <2>2 DEF SV_SendClientMessages, Outside, TypeOK, client, lists, toServer
<1>2. ASSUME NEW now \in BOOLEAN, SV_Map_f(now) PROVE TypeOK'
  <2>1. /\ spawncount' \in Levels /\ reliable_datagram' \in Seq(Stuffed)
        /\ sv_message' \in Seq(Messages) /\ sv_flight' \in Seq(Messages)
    BY <1>2, MapTyped
  <2>2. state' \in {"zombie", "connected", "spawned"} /\ inGame' \in 0..MaxLevels
    BY <1>2 DEF SV_Map_f, TypeOK
  <2>3. remote' \in BOOLEAN /\ prespawned' \in BOOLEAN /\ spawned' \in BOOLEAN
        /\ kicked' \in BOOLEAN
    BY <1>2, Zenon DEF SV_Map_f, TypeOK
  <2> QED BY <1>2, <2>1, <2>2, <2>3 DEF SV_Map_f, Outside, TypeOK, client, lists, toServer
<1>3. CASE SV_Drop_f
  <2>1. /\ sv_message' \in Seq(Messages) /\ state' \in {"zombie", "connected", "spawned"}
        /\ UNCHANGED <<spawncount, prespawned, spawned, inGame, reliable_datagram, kicked>>
    BY <1>3, DropTyped DEF SV_Drop_f, Ignore, server, TypeOK
  <2> QED BY <1>3, <2>1 DEF SV_Drop_f, TypeOK, client, lists, toServer
<1>4. CASE SV_Transmit
  <2>1. sv_message' \in Seq(Messages) /\ sv_flight' \in Seq(Messages)
    BY <1>4 DEF SV_Transmit, TypeOK
  <2> QED BY <1>4, <2>1 DEF SV_Transmit, Outside, TypeOK, client, server, lists, toServer
<1>5. CASE SV_Deliver
  <2>1. sv_inbox' \in Seq(Commands) /\ cl_flight' \in Seq(Commands)
    BY <1>5 DEF SV_Deliver, TypeOK
  <2> QED BY <1>5, <2>1 DEF SV_Deliver, TypeOK, client, server, lists, toClient
<1>6. CASE Connect
  <2>1. Command("new", 0, 0) \in Commands
    BY NewCommands, SizesAssumption
  <2>2. /\ cl_message' \in Seq(Commands) /\ cl_flight' \in Seq(Commands)
        /\ sv_inbox' \in Seq(Commands) /\ sv_message' \in Seq(Messages)
        /\ sv_flight' \in Seq(Messages)
    BY <1>6, <2>1 DEF Connect
  <2>3. inGame' \in 0..MaxLevels
    BY <1>6, SizesAssumption DEF Connect
  <2> QED BY <1>6, <2>2, <2>3 DEF Connect, TypeOK, lists
<1> QED BY <1>1, <1>2, <1>3, <1>4, <1>5, <1>6

LEMMA ParseType ==
    ASSUME TypeOK, Parse
    PROVE  TypeOK'
<1> DEFINE m == Head(cl_inbox)
<1>0. cl_inbox # <<>>
  BY DEF Parse, Next_Message, CL_ParseServerData, CL_ParseSoundlist, CL_ParseModellist,
         CL_ParseDisconnect, CL_ParseStuff
<1>1. m \in Messages /\ Tail(cl_inbox) \in Seq(Messages)
  BY <1>0, MessageTaken
<1>2. m.level \in 0..MaxLevels
  BY <1>1, LevelsTyped
<1>3. servercount \in 0..MaxLevels
  BY DEF TypeOK
<1> HIDE DEF m
<1>4. ASSUME NEW op, Next_Message(op), cl_message' \in Seq(Commands), stuff' \in Seq(Stuffed),
             servercount' \in 0..MaxLevels, worldmodel' \in 0..MaxLevels,
             sounds' \in [1..SoundChunks -> 0..MaxLevels],
             models' \in [1..ModelChunks -> 0..MaxLevels],
             cstate' \in {"disconnected", "connected", "onserver", "active"}
      PROVE  TypeOK'
  BY <1>1, <1>4 DEF Next_Message, TypeOK, server, m
<1>5. CASE CL_ParseServerData
  <2>1. Command("soundlist", m.level, 0) \in Commands
    BY <1>2, NewCommands
  <2>2. cl_message' \in Seq(Commands) /\ servercount' \in 0..MaxLevels
    BY <1>2, <1>5, <2>1 DEF CL_ParseServerData, m
  <2>3. /\ sounds' \in [1..SoundChunks -> 0..MaxLevels]
        /\ models' \in [1..ModelChunks -> 0..MaxLevels] /\ worldmodel' \in 0..MaxLevels
    BY <1>5, SizesAssumption DEF CL_ParseServerData, NoLists
  <2> QED BY <1>4, <1>5, <2>2, <2>3 DEF CL_ParseServerData, TypeOK
<1>6. ASSUME m.op \in {"svc_soundlist", "svc_modellist"}
      PROVE  m.n \in Nat /\ m.next \in Nat
  BY <1>1, <1>6 DEF Messages, Stuffed
<1>7. CASE CL_ParseSoundlist
  <2>1. m.n \in Nat /\ m.next \in Nat
    BY <1>6, <1>7 DEF CL_ParseSoundlist, Next_Message, m
  <2>2. /\ Command("soundlist", servercount, m.next) \in Commands
        /\ Command("modellist", servercount, 0) \in Commands
    BY <1>3, <2>1, NewCommands
  <2>3. cl_message' \in Seq(Commands)
    BY <1>7, <2>2, RequestTyped DEF CL_ParseSoundlist, m
  <2>4. sounds' \in [1..SoundChunks -> 0..MaxLevels]
    BY <1>2, <1>7 DEF CL_ParseSoundlist, TypeOK, m
  <2> QED BY <1>4, <1>7, <2>3, <2>4 DEF CL_ParseSoundlist, TypeOK
<1>8. CASE CL_ParseModellist
  <2> DEFINE got == [models EXCEPT ![m.n + 1] = m.level]
             c == [op |-> "prespawn", level |-> servercount, n |-> 0, check |-> got[1]]
  <2>1. m.n \in Nat /\ m.next \in Nat
    BY <1>6, <1>8 DEF CL_ParseModellist, Next_Message, m
  <2>2. got \in [1..ModelChunks -> 0..MaxLevels]
    BY <1>2 DEF TypeOK
  <2>3. models' = got
    BY <1>8 DEF CL_ParseModellist, m
  <2>3a. \/ Request(Command("modellist", servercount, m.next)) /\ UNCHANGED worldmodel
         \/ Request(c) /\ worldmodel' = got[1]
    BY <1>8 DEF CL_ParseModellist, m
  <2> HIDE DEF got
  <2>4. got[1] \in 0..MaxLevels
    BY <2>2, SizesAssumption
  <2>5. c \in Commands /\ Command("modellist", servercount, m.next) \in Commands
    BY <1>3, <2>1, <2>4, NewCommands DEF Commands
  <2>6. cl_message' \in Seq(Commands)
    BY <2>3a, <2>5, RequestTyped
  <2>7. worldmodel' \in 0..MaxLevels /\ models' \in [1..ModelChunks -> 0..MaxLevels]
    BY <2>2, <2>3, <2>3a, <2>4 DEF TypeOK
  <2> QED BY <1>4, <1>8, <2>6, <2>7 DEF CL_ParseModellist, TypeOK
<1>9. CASE CL_ParseDisconnect
  <2>1. /\ cstate' \in {"disconnected", "connected", "onserver", "active"}
        /\ cl_inbox' \in Seq(Messages)
    BY <1>9 DEF CL_ParseDisconnect
  <2>2. connecting' \in BOOLEAN /\ executing' \in BOOLEAN
    BY <1>9, Zenon DEF CL_ParseDisconnect, TypeOK
  <2> QED BY <1>9, <2>1, <2>2 DEF CL_ParseDisconnect, TypeOK, server, toServer, lists
<1>10. ASSUME NEW op \in {"changing", "reconnect", "skins", "cmd prespawn", "cmd spawn"},
              CL_ParseStuff(op)
       PROVE  TypeOK'
  <2>1. m \in Stuffed
    BY <1>1, <1>10 DEF CL_ParseStuff, Next_Message, Messages, Stuffed, m
  <2>2. stuff' \in Seq(Stuffed)
    BY <1>10, <2>1, AppendProperties DEF CL_ParseStuff, TypeOK, m
  <2> QED BY <1>4, <1>10, <2>2 DEF CL_ParseStuff, TypeOK, lists
<1> QED BY <1>5, <1>7, <1>8, <1>9, <1>10 DEF Parse

LEMMA ExecuteType ==
    ASSUME TypeOK,
           CL_Changing_f \/ CL_Reconnect_f \/ CL_Skins_f \/ CL_Cmd_ForwardToServer_f
    PROVE  TypeOK'
<1>1. ASSUME NEW op, Next_Stuffed(op), cl_message' \in Seq(Commands),
             cstate' \in {"disconnected", "connected", "onserver", "active"},
             connecting' \in BOOLEAN, dropping' \in BOOLEAN
      PROVE  TypeOK'
  <2>1. stuff' \in Seq(Stuffed) /\ executing' \in BOOLEAN
    BY <1>1, StuffTaken DEF Next_Stuffed
  <2> QED BY <1>1, <2>1 DEF Next_Stuffed, TypeOK, server, toClient, lists
<1>2. servercount \in 0..MaxLevels
  BY DEF TypeOK
<1>3. CASE CL_Changing_f
  <2>1. connecting' \in BOOLEAN /\ dropping' \in BOOLEAN
    BY <1>3, Zenon DEF CL_Changing_f, TypeOK
  <2> QED BY <1>1, <1>3, <2>1 DEF CL_Changing_f, TypeOK
<1>4. CASE CL_Reconnect_f
  <2>1. Command("new", 0, 0) \in Commands
    BY NewCommands, SizesAssumption
  <2>2. connecting' \in BOOLEAN /\ dropping' \in BOOLEAN
    BY <1>4, Zenon DEF CL_Reconnect_f, TypeOK
  <2>3. cl_message' \in Seq(Commands)
    BY <1>4, <2>1, RequestTyped DEF CL_Reconnect_f, TypeOK
  <2>4. cstate' \in {"disconnected", "connected", "onserver", "active"}
    BY <1>4 DEF CL_Reconnect_f, TypeOK
  <2> QED BY <1>1, <1>4, <2>2, <2>3, <2>4 DEF CL_Reconnect_f
<1>5. CASE CL_Skins_f
  <2>1. Command("begin", servercount, 0) \in Commands
    BY <1>2, NewCommands
  <2>2. connecting' \in BOOLEAN /\ dropping' \in BOOLEAN
    BY <1>5, Zenon DEF CL_Skins_f, TypeOK
  <2>3. cl_message' \in Seq(Commands)
    BY <1>5, <2>1, RequestTyped DEF CL_Skins_f, TypeOK
  <2>4. cstate' \in {"disconnected", "connected", "onserver", "active"}
    BY <1>5 DEF CL_Skins_f, TypeOK
  <2> QED BY <1>1, <1>5, <2>2, <2>3, <2>4 DEF CL_Skins_f
<1>6. CASE CL_Cmd_ForwardToServer_f
  <2>1. PICK op \in {"prespawn", "spawn"} :
          /\ Next_Stuffed(Forwarded[op])
          /\ IF cstate = "disconnected" THEN UNCHANGED cl_message
             ELSE Request(Command(op, Head(stuff).level, Head(stuff).n))
    BY <1>6 DEF CL_Cmd_ForwardToServer_f, Forwarded
  <2>2. Head(stuff).level \in 0..MaxLevels /\ Head(stuff).n \in Nat
    BY <2>1, StuffTaken DEF Stuffed
  <2>3. Command(op, Head(stuff).level, Head(stuff).n) \in Commands
    BY <2>2, NewCommands
  <2>4. cl_message' \in Seq(Commands)
    BY <2>1, <2>3, RequestTyped DEF TypeOK
  <2>5. connecting' \in BOOLEAN /\ dropping' \in BOOLEAN
    BY <1>6, Zenon DEF CL_Cmd_ForwardToServer_f, TypeOK
  <2> QED BY <1>1, <1>6, <2>1, <2>4, <2>5 DEF CL_Cmd_ForwardToServer_f, TypeOK
<1> QED BY <1>3, <1>4, <1>5, <1>6

LEMMA ClientChannelType ==
    ASSUME TypeOK, CL_Transmit \/ CL_Deliver \/ CL_TimeOut
    PROVE  TypeOK'
<1>1. CASE CL_Transmit
  <2>1. cl_message' \in Seq(Commands) /\ cl_flight' \in Seq(Commands)
    BY <1>1 DEF CL_Transmit, TypeOK
  <2> QED BY <1>1, <2>1 DEF CL_Transmit, TypeOK, server, client, lists, toClient
<1>2. CASE CL_Deliver
  <2>1. cl_inbox' \in Seq(Messages) /\ sv_flight' \in Seq(Messages)
    BY <1>2 DEF CL_Deliver, TypeOK
  <2> QED BY <1>2, <2>1 DEF CL_Deliver, TypeOK, server, client, lists, toServer
<1>3. CASE CL_TimeOut
  BY <1>3 DEF CL_TimeOut, TypeOK, server, toClient, toServer, lists
<1> QED BY <1>1, <1>2, <1>3

LEMMA StepType == TypeOK /\ [Next]_vars => TypeOK'
<1> SUFFICES ASSUME TypeOK, [Next]_vars PROVE TypeOK'
  OBVIOUS
<1>1. CASE ServerStep
  BY <1>1, CommandType, FrameType DEF ServerStep
<1>2. CASE ClientStep
  BY <1>2, ParseType, ExecuteType, ClientChannelType DEF ClientStep
<1>3. CASE Connect \/ \E now \in BOOLEAN : SV_Map_f(now)
  BY <1>3, FrameType
<1>4. CASE UNCHANGED vars
  BY <1>4 DEF vars, TypeOK, server, client, lists, toClient, toServer
<1> QED BY <1>1, <1>2, <1>3, <1>4 DEF Next

(* Every variable keeps its type, and every part of a list has its place.  *)
THEOREM TypeCorrect == Spec => []TypeOK
<1> QED BY InitType, StepType, PTL DEF Spec

----------------------------------------------------------------------------
(* How each kind of step changes what is on the way.                       *)

Same(s, t) ==
    ToSet(t) = ToSet(s) /\ \A m, k : Before(t, m, k) <=> Before(s, m, k)

LEMMA CommandShape ==
    ASSUME TypeOK, TypeOK', NEW op, Next_Command(op)
    PROVE  /\ Starts(Up, Head(sv_inbox), Up')
           /\ \A m \in Messages : Reply(m) => Adds(Down, m, Down')
<1>1. Starts(sv_inbox, Head(sv_inbox), sv_inbox')
  BY CommandTaken
<1>2. UNCHANGED <<cl_flight, cl_message, stuff, cl_inbox, sv_flight>>
  BY DEF Next_Command, client
<1>3. InThree(Commands, Up, sv_inbox, cl_flight, cl_message)
      /\ InThree(Commands, Up', sv_inbox', cl_flight', cl_message')
  BY UpParts
<1>4. Starts(Up, Head(sv_inbox), Up')
  <2> DEFINE none == <<>>
  <2>1. ToSet(none) = {}
    BY NoneFacts
  <2>2. InParts(Commands, Up, none, sv_inbox, cl_flight, cl_message)
        /\ InParts(Commands, Up', none, sv_inbox', cl_flight, cl_message)
    BY <1>2, <1>3 DEF InThree
  <2> HIDE DEF none
  <2> QED BY <1>1, <2>1, <2>2, PartTaken
<1>5. ASSUME NEW m \in Messages, Reply(m) PROVE Adds(Down, m, Down')
  <2>1. Adds(sv_message, m, sv_message')
    BY <1>5, ReplyTyped
  <2>2. /\ InParts(Messages, Down, stuff, cl_inbox, sv_flight, sv_message)
        /\ InParts(Messages, Down', stuff, cl_inbox, sv_flight, sv_message')
    BY <1>2, DownParts
  <2> QED BY <2>1, <2>2, LastAdded
<1> QED BY <1>4, <1>5

LEMMA RequestShape ==
    ASSUME TypeOK, TypeOK', NEW c \in Commands, Request(c), UNCHANGED <<sv_inbox, cl_flight>>
    PROVE  Adds(Up, c, Up')
<1>1. Adds(cl_message, c, cl_message')
  BY RequestTyped
<1>2. /\ InThree(Commands, Up, sv_inbox, cl_flight, cl_message)
      /\ InThree(Commands, Up', sv_inbox, cl_flight, cl_message')
  BY UpParts
<1> QED BY <1>1, <1>2, LastAdded DEF InThree

LEMMA MessageShape ==
    ASSUME TypeOK, TypeOK', NEW op, Next_Message(op), UNCHANGED stuff
    PROVE  /\ LeavesOut(Down, Head(cl_inbox), Down')
           /\ stuff = <<>> => Starts(Down, Head(cl_inbox), Down')
           /\ \A k \in ToSet(Down') : k \in ToSet(stuff) \/ Before(Down, Head(cl_inbox), k)
<1>1. Starts(cl_inbox, Head(cl_inbox), cl_inbox')
  BY MessageTaken DEF Next_Message
<1>2. /\ InParts(Messages, Down, stuff, cl_inbox, sv_flight, sv_message)
      /\ InParts(Messages, Down', stuff, cl_inbox', sv_flight, sv_message)
  BY DownParts DEF Next_Message
<1>3. /\ LeavesOut(Down, Head(cl_inbox), Down')
      /\ ToSet(stuff) = {} => Starts(Down, Head(cl_inbox), Down')
      /\ \A k \in ToSet(cl_inbox') \cup ToSet(sv_flight) \cup ToSet(sv_message) :
            Before(Down, Head(cl_inbox), k)
  BY <1>1, <1>2, PartTaken
<1>4. stuff = <<>> => ToSet(stuff) = {}
  BY NoneFacts
<1>5. ToSet(Down') = ToSet(stuff) \cup ToSet(cl_inbox') \cup ToSet(sv_flight)
                                  \cup ToSet(sv_message)
  BY <1>2 DEF InParts
<1> QED BY <1>3, <1>4, <1>5

LEMMA StuffShape ==
    ASSUME TypeOK, TypeOK', NEW op, Next_Stuffed(op)
    PROVE  Starts(Down, Head(stuff), Down')
<1>1. Starts(stuff, Head(stuff), stuff')
  BY StuffTaken
<1>2. /\ InParts(Messages, Down, stuff, cl_inbox, sv_flight, sv_message)
      /\ InParts(Messages, Down', stuff', cl_inbox, sv_flight, sv_message)
  BY DownParts DEF Next_Stuffed, toClient
<1> QED BY <1>1, <1>2, FirstTaken

LEMMA ParseStuffShape ==
    ASSUME TypeOK, TypeOK', NEW op, op \in {m.op : m \in Stuffed}, CL_ParseStuff(op)
    PROVE  Same(Down, Down')
<1>1. Starts(cl_inbox, Head(cl_inbox), cl_inbox')
  BY MessageTaken DEF CL_ParseStuff, Next_Message
<1>2. Head(cl_inbox) \in Stuffed
  <2>1. Head(cl_inbox) \in Messages /\ Head(cl_inbox).op = op
    BY MessageTaken DEF CL_ParseStuff, Next_Message
  <2> QED BY <2>1 DEF Messages, Stuffed
<1>3. Adds(stuff, Head(cl_inbox), stuff')
  BY <1>2, AppendFacts DEF CL_ParseStuff, TypeOK
<1>4. /\ InParts(Messages, Down, stuff, cl_inbox, sv_flight, sv_message)
      /\ InParts(Messages, Down', stuff', cl_inbox', sv_flight, sv_message)
  BY DownParts DEF CL_ParseStuff, Next_Message
<1> QED BY <1>1, <1>3, <1>4, PartMoved DEF Same

LEMMA SV_TransmitShape ==
    ASSUME TypeOK, TypeOK', SV_Transmit
    PROVE  Same(Down, Down') /\ Up' = Up
<1> DEFINE none == <<>>
<1>1. ToSet(none) = {} /\ \A m, k : ~Before(none, m, k)
  BY NoneFacts
<1>2. /\ InParts(Messages, Down, stuff, cl_inbox, none, sv_message)
      /\ InParts(Messages, Down', stuff, cl_inbox, sv_message, none)
  BY DownParts DEF SV_Transmit, Outside, client
<1> HIDE DEF none
<1>3. Same(Down, Down')
  BY <1>1, <1>2 DEF InParts, Same
<1> QED BY <1>3 DEF SV_Transmit, Outside, toServer, Up

LEMMA CL_DeliverShape ==
    ASSUME TypeOK, TypeOK', CL_Deliver
    PROVE  Same(Down, Down') /\ Up' = Up
<1> DEFINE none == <<>>
<1>1. ToSet(none) = {} /\ \A m, k : ~Before(none, m, k)
  BY NoneFacts
<1>2. /\ InParts(Messages, Down, stuff, none, sv_flight, sv_message)
      /\ InParts(Messages, Down', stuff, sv_flight, none, sv_message)
  BY DownParts DEF CL_Deliver, client
<1> HIDE DEF none
<1>3. Same(Down, Down')
  BY <1>1, <1>2 DEF InParts, Same
<1> QED BY <1>3 DEF CL_Deliver, toServer, Up

LEMMA UpChannelShape ==
    ASSUME TypeOK, TypeOK', CL_Transmit \/ SV_Deliver
    PROVE  Down' = Down /\ Same(Up, Up')
<1> DEFINE none == <<>>
<1>1. ToSet(none) = {} /\ \A m, k : ~Before(none, m, k)
  BY NoneFacts
<1>2. /\ InThree(Commands, Up, sv_inbox, cl_flight, cl_message)
      /\ InThree(Commands, Up', sv_inbox', cl_flight', cl_message')
  BY UpParts
<1>3. Same(Up, Up')
  <2>1. CASE CL_Transmit
    <3>1. cl_flight = none /\ cl_message' = none /\ cl_flight' = cl_message /\ sv_inbox' = sv_inbox
      BY <2>1 DEF CL_Transmit
    <3> HIDE DEF none
    <3> QED BY <1>1, <1>2, <3>1 DEF InThree, InParts, Same
  <2>2. CASE SV_Deliver
    <3>1. sv_inbox = none /\ cl_flight' = none /\ sv_inbox' = cl_flight /\ cl_message' = cl_message
      BY <2>2 DEF SV_Deliver
    <3> HIDE DEF none
    <3> QED BY <1>1, <1>2, <3>1 DEF InThree, InParts, Same
  <2> QED BY <2>1, <2>2
<1> QED BY <1>3 DEF CL_Transmit, SV_Deliver, toClient, client, Down

----------------------------------------------------------------------------
(* What each kind of step keeps of the levels and of the conversation.     *)

LEMMA OnTheWay ==
    ASSUME TypeOK
    PROVE  /\ ToSet(Down) \subseteq Messages /\ ToSet(Up) \subseteq Commands
           /\ \A m \in Messages \cup Commands : m.level \in Nat
           /\ servercount \in Nat /\ spawncount \in Nat /\ spawncount # 0
<1>1. Down \in Seq(Messages) /\ Up \in Seq(Commands)
  BY DownParts, UpParts DEF InThree, InParts
<1>2. \A m \in Messages \cup Commands : m.level \in Nat
  BY LevelsTyped
<1>3. servercount \in Nat /\ spawncount \in Nat /\ spawncount # 0
  BY SizesAssumption DEF TypeOK, Levels
<1> QED BY <1>1, <1>2, <1>3, ElementsTyped

LEMMA ShapesAreLess ==
    /\ \A s, t : Same(s, t) => Less(s, t)
    /\ \A s : Less(s, s)
    /\ \A s, h, t : Starts(s, h, t) => Less(s, t) /\ h \in ToSet(s)
    /\ \A s, e, t : LeavesOut(s, e, t) => Less(s, t) /\ e \in ToSet(s)
BY DEF Same, Less, Starts, LeavesOut

LEMMA LessKeeps ==
    ASSUME LevelsInv, OneConversation, Less(Down, Down'), Less(Up, Up'),
           UNCHANGED <<servercount, spawncount>>
    PROVE  LevelsInv' /\ OneConversation'
<1>1. LevelsInv'
  BY DEF LevelsInv, Less
<1>2. \A g : Restarts(g)' <=> Restarts(g)
  BY DEF Restarts
<1>3. OneConversation'
  BY <1>2 DEF OneConversation, Less
<1> QED BY <1>1, <1>3

(* A handler of the server answers the command it takes: the answer comes  *)
(* after what is still on the way, of which SendSpawn throws some away.    *)
LEMMA ReplyKeeps ==
    ASSUME TypeOK, LevelsInv, OneConversation, NEW kept, Less(Down, kept),
           NEW c, Starts(Up, c, Up'), NEW m \in Messages, Adds(kept, m, Down'),
           UNCHANGED <<servercount, spawncount>>,
           m.level = spawncount, m.op # "changing",
           IsReply(m) => /\ Asks(c, spawncount)
                         /\ AsksFirst(c) => IsFirst(m),
           m.op = "serverdata" => Restarts(c)
    PROVE  LevelsInv' /\ OneConversation'
<1>0. /\ servercount \in Nat /\ spawncount \in Nat /\ spawncount # 0
      /\ \A k \in ToSet(Down) : k.level \in Nat
  BY OnTheWay
<1>1. /\ c \in ToSet(Up) /\ ToSet(Up') \subseteq ToSet(Up)
      /\ \A d, g : Before(Up', d, g) => Before(Up, d, g)
      /\ \A g \in ToSet(Up') : Before(Up, c, g)
  BY DEF Starts
<1>2. /\ ToSet(Down') \subseteq ToSet(Down) \cup {m}
      /\ \A a, b : Before(Down', a, b) => Before(Down, a, b) \/ (a \in ToSet(Down) /\ b = m)
  BY DEF Less, Adds
<1>3. IsReply(m) => servercount = spawncount
  BY <1>0, <1>1 DEF LevelsInv, Asks
<1>4. LevelsInv'
  <2>1. servercount' <= spawncount'
    BY DEF LevelsInv
  <2>2. ASSUME NEW a \in ToSet(Down')
        PROVE  /\ a.level \in servercount'..spawncount' /\ a.level # 0
               /\ IsReply(a) => a.level = servercount'
               /\ a.op = "changing" => a.level # servercount'
    BY <1>0, <1>2, <1>3, <2>2 DEF LevelsInv
  <2>3. ASSUME NEW a \in ToSet(Down'), NEW b \in ToSet(Down'), Before(Down', a, b)
        PROVE  /\ a.level <= b.level
               /\ a.op = "serverdata" /\ b.op = "changing" => a.level # b.level
    <3>1. CASE Before(Down, a, b)
      <4>1. a \in ToSet(Down) /\ b \in ToSet(Down)
        BY <3>1, BeforeIn
      <4> QED BY <3>1, <4>1 DEF LevelsInv
    <3>2. CASE a \in ToSet(Down) /\ b = m
      BY <1>0, <3>2 DEF LevelsInv
    <3> QED BY <1>2, <2>3, <3>1, <3>2
  <2>4. \A d \in ToSet(Up') : d.op # "new" => d.level \in 1..servercount'
    BY <1>1 DEF LevelsInv
  <2> QED BY <2>1, <2>2, <2>3, <2>4 DEF LevelsInv
<1>5. ASSUME NEW k \in ToSet(Down'), k.op = "serverdata", k.level = servercount'
      PROVE  /\ \A a \in ToSet(Down') : IsReply(a) => IsFirst(a) /\ ~Before(Down', a, k)
             /\ \A d \in ToSet(Up') : Asks(d, servercount') => AsksFirst(d)
  <2>1. CASE k \in ToSet(Down)
    <3>1. /\ \A a \in ToSet(Down) : IsReply(a) => IsFirst(a) /\ ~Before(Down, a, k)
          /\ \A d \in ToSet(Up) : Asks(d, servercount) => AsksFirst(d)
      BY <1>5, <2>1 DEF OneConversation
    <3>2. ASSUME NEW a \in ToSet(Down'), IsReply(a) PROVE IsFirst(a)
      <4>1. CASE a \in ToSet(Down)
        BY <3>1, <3>2, <4>1
      <4>2. CASE a = m
        BY <1>1, <1>3, <3>1, <3>2, <4>2
      <4> QED BY <1>2, <4>1, <4>2
    <3>3. ASSUME NEW a \in ToSet(Down'), IsReply(a), Before(Down', a, k) PROVE FALSE
      <4>1. CASE Before(Down, a, k)
        <5>1. a \in ToSet(Down)
          BY <4>1, BeforeIn
        <5> QED BY <3>1, <3>3, <4>1, <5>1
      <4>2. CASE a \in ToSet(Down) /\ k = m
        <5>1. Restarts(c) /\ servercount = spawncount
          BY <1>5, <4>2
        <5> QED BY <1>1, <3>3, <4>2, <5>1 DEF OneConversation
      <4> QED BY <1>2, <3>3, <4>1, <4>2
    <3> QED BY <1>1, <3>1, <3>2, <3>3
  <2>2. CASE k = m
    <3>1. Restarts(c) /\ servercount = spawncount
      BY <1>5, <2>2
    <3>2. /\ \A a \in ToSet(Down) : ~IsReply(a)
          /\ \A d \in ToSet(Up) : Asks(d, servercount) => AsksFirst(d)
      BY <1>1, <3>1 DEF OneConversation
    <3>3. ~IsReply(m)
      BY <1>5, <2>2 DEF IsReply, Replies
    <3> QED BY <1>1, <1>2, <3>2, <3>3
  <2> QED BY <1>2, <2>1, <2>2
<1>6. ASSUME servercount' = spawncount', NEW g \in ToSet(Up'), Restarts(g)'
      PROVE  /\ \A a \in ToSet(Down') : ~IsReply(a)
             /\ \A d \in ToSet(Up') :
                   Asks(d, servercount') => AsksFirst(d) /\ ~Before(Up', d, g)
  <2>1. g \in ToSet(Up) /\ Restarts(g) /\ servercount = spawncount
    BY <1>1, <1>6 DEF Restarts
  <2>2. /\ \A a \in ToSet(Down) : ~IsReply(a)
        /\ \A d \in ToSet(Up) : Asks(d, servercount) => AsksFirst(d) /\ ~Before(Up, d, g)
    BY <2>1 DEF OneConversation
  <2>3. ~IsReply(m)
    BY <1>1, <2>1, <2>2
  <2> QED BY <1>1, <1>2, <2>2, <2>3
<1>7. OneConversation'
  BY <1>5, <1>6 DEF OneConversation
<1> QED BY <1>4, <1>7

(* The client asks for something because of a reply, h, that it has just   *)
(* handled, and no server data came before that.                           *)
LEMMA RequestKeeps ==
    ASSUME TypeOK, LevelsInv, OneConversation, Less(Down, Down'),
           NEW h \in ToSet(Down), IsReply(h),
           \A k \in ToSet(Down') : k.op = "serverdata" => Before(Down, h, k),
           NEW c \in Commands, Adds(Up, c, Up'), c.level = servercount, c.op # "new",
           UNCHANGED <<servercount, spawncount>>
    PROVE  LevelsInv' /\ OneConversation'
<1>0. servercount \in Nat /\ spawncount \in Nat
  BY OnTheWay
<1>1. h.level = servercount /\ servercount \in 1..servercount
  BY <1>0 DEF LevelsInv
<1>2. ToSet(Up') = ToSet(Up) \cup {c}
  BY DEF Adds
<1>3. LevelsInv'
  BY <1>1, <1>2 DEF LevelsInv, Less
<1>4. ASSUME NEW k \in ToSet(Down'), k.op = "serverdata", k.level = servercount' PROVE FALSE
  BY <1>4 DEF OneConversation, Less
<1>5. ASSUME servercount' = spawncount', NEW g \in ToSet(Up'), Restarts(g)' PROVE FALSE
  <2>1. Restarts(g) /\ servercount = spawncount
    BY <1>5 DEF Restarts
  <2>2. CASE g \in ToSet(Up)
    BY <2>1, <2>2 DEF OneConversation
  <2>3. CASE g = c
    BY <2>1, <2>3 DEF Restarts
  <2> QED BY <1>2, <2>2, <2>3
<1>6. OneConversation'
  BY <1>4, <1>5 DEF OneConversation
<1> QED BY <1>3, <1>6

----------------------------------------------------------------------------
(* The server's handlers.                                                  *)

(* A handler ignores the command, starts anew, or serves it; it does not   *)
(* drop the client.                                                        *)
Begins(c) ==
    /\ c.op = "begin" /\ state = "connected" /\ state' = "spawned"
    /\ inGame' = IF c.level = spawncount THEN spawncount ELSE inGame
    /\ UNCHANGED <<spawncount, prespawned, spawned, kicked, reliable_datagram, sv_message>>
SendsPart(c, op, part, chunks) ==
    c.op = op /\ SendPart(part, chunks)

Buffer(c) == IF c.n >= SignonBuffers THEN 0 ELSE c.n
Outcomes(c) ==
    \/ Ignore
    \/ Restarts(c) /\ state = "connected" /\ New
    \/ Asks(c, spawncount) /\ SendsPart(c, "soundlist", "svc_soundlist", SoundChunks)
    \/ Asks(c, spawncount) /\ SendsPart(c, "modellist", "svc_modellist", ModelChunks)
    \/ Asks(c, spawncount) /\ c.op = "prespawn" /\ SendSignon(Buffer(c))
    \/ Asks(c, spawncount) /\ c.op = "spawn" /\ SendSpawn
    \/ Begins(c)

LEMMA CommandOutcome ==
    ASSUME TypeOK, ListsInv, StagesInv,
           SV_New_f \/ SV_Soundlist_f \/ SV_Modellist_f \/ SV_PreSpawn_f \/ SV_Spawn_f \/ SV_Begin_f
    PROVE  /\ \E op : Next_Command(op)
           /\ Head(sv_inbox) \in Commands /\ Head(sv_inbox) \in ToSet(Up)
           /\ Outcomes(Head(sv_inbox))
<1> DEFINE c == Head(sv_inbox)
<1>1. sv_inbox # <<>> /\ \E op : Next_Command(op)
  BY DEF SV_New_f, SV_Soundlist_f, SV_Modellist_f, SV_PreSpawn_f, SV_Spawn_f, SV_Begin_f,
         Next_Command
<1>2. c \in Commands /\ c \in ToSet(Up)
  <2>1. c \in Commands /\ Starts(sv_inbox, c, Tail(sv_inbox))
    BY <1>1, HeadFacts DEF TypeOK
  <2>2. ToSet(sv_inbox) \subseteq ToSet(Up)
    BY UpParts DEF InThree, InParts
  <2> QED BY <2>1, <2>2 DEF Starts
<1>3. state # "zombie" /\ AskedInOrder(c)
  BY <1>1, <1>2 DEF StagesInv, ListsInv
<1>4. c.op = "spawn" => prespawned
  BY <1>2 DEF StagesInv
<1>5. c.op = "begin" => spawned
  BY <1>2 DEF StagesInv
<1>6. state \in {"connected", "spawned"}
  BY <1>3 DEF TypeOK
<1>7. c.n \in Nat
  BY <1>2 DEF Commands
<1> HIDE DEF c
<1>8. ASSUME New, Restarts(c) PROVE Outcomes(c)
  BY <1>6, <1>8 DEF New, Outcomes
<1>9. ASSUME SV_New_f PROVE Outcomes(c)
  <2>1. New /\ c.op = "new"
    BY <1>9 DEF SV_New_f, Next_Command, c
  <2> QED BY <1>8, <2>1 DEF Restarts
<1>10. ASSUME SV_Soundlist_f PROVE Outcomes(c)
  <2>1. c.op = "soundlist"
        /\ IF state # "connected" THEN Ignore
           ELSE IF c.level # spawncount THEN New ELSE SendPart("svc_soundlist", SoundChunks)
    BY <1>10 DEF SV_Soundlist_f, Next_Command, ForThisLevel, c
  <2> QED BY <1>8, <2>1 DEF Restarts, Asks, Outcomes, SendsPart
<1>11. ASSUME SV_Modellist_f PROVE Outcomes(c)
  <2>1. c.op = "modellist"
        /\ IF state # "connected" THEN Ignore
           ELSE IF c.level # spawncount THEN New ELSE SendPart("svc_modellist", ModelChunks)
    BY <1>11 DEF SV_Modellist_f, Next_Command, ForThisLevel, c
  <2> QED BY <1>8, <2>1 DEF Restarts, Asks, Outcomes, SendsPart
<1>12. ASSUME SV_PreSpawn_f PROVE Outcomes(c)
  <2>1. c.op = "prespawn"
        /\ IF state # "connected" THEN Ignore
           ELSE IF c.level # spawncount THEN New
           ELSE IF Buffer(c) = 0 /\ c.check # spawncount THEN Kick ELSE SendSignon(Buffer(c))
    BY <1>12 DEF SV_PreSpawn_f, Next_Command, ForThisLevel, Buffer, c
  <2>2. Buffer(c) = 0 => c.check = c.level
    <3>1. (c.n = 0 /\ c.check = c.level) \/ c.n \in 1..(SignonBuffers - 1)
      BY <1>3, <2>1 DEF AskedInOrder
    <3> QED BY <1>7, <3>1, SizesAssumption DEF Buffer
  <2> QED BY <1>8, <2>1, <2>2 DEF Restarts, Asks, Outcomes
<1>13. ASSUME SV_Spawn_f PROVE Outcomes(c)
  <2>1. c.op = "spawn"
        /\ IF state # "connected" THEN Ignore
           ELSE IF c.level # spawncount THEN New
           ELSE IF prespawned THEN SendSpawn ELSE Kick
    BY <1>13 DEF SV_Spawn_f, Next_Command, ForThisLevel, c
  <2> QED BY <1>4, <1>8, <2>1 DEF Restarts, Asks, Outcomes
<1>14. ASSUME SV_Begin_f PROVE Outcomes(c)
  <2>1. /\ c.op = "begin"
        /\ IF state # "connected" THEN Ignore
           ELSE IF c.level = spawncount /\ ~spawned THEN Kick
           ELSE /\ state' = "spawned"
                /\ inGame' = IF c.level = spawncount THEN spawncount ELSE inGame
                /\ UNCHANGED <<spawncount, prespawned, spawned, kicked,
                               reliable_datagram, sv_message>>
    BY <1>14 DEF SV_Begin_f, Next_Command, c
  <2> QED BY <1>5, <2>1 DEF Outcomes, Begins
<1>15. Outcomes(c)
  BY <1>9, <1>10, <1>11, <1>12, <1>13, <1>14
<1> QED BY <1>1, <1>2, <1>15 DEF c

(* What a handler sends, if it sends anything.                             *)
Answer(c, m) ==
    \/ Restarts(c) /\ m = Message("serverdata", spawncount, 0)
    \/ /\ Asks(c, spawncount)
       /\ \/ c.op = "soundlist" /\ m = ListPart("svc_soundlist", c.n, SoundChunks)
          \/ c.op = "modellist" /\ m = ListPart("svc_modellist", c.n, ModelChunks)
          \/ /\ c.op = "prespawn" /\ prespawned'
             /\ m = IF Buffer(c) = SignonBuffers - 1 THEN Message("cmd spawn", spawncount, 0)
                    ELSE Message("cmd prespawn", spawncount, Buffer(c) + 1)
          \/ c.op = "spawn" /\ spawned' /\ m = Message("skins", spawncount, 0)

LEMMA AnswerFacts ==
    ASSUME TypeOK, NEW c \in Commands, NEW m, Answer(c, m)
    PROVE  /\ m \in Messages /\ m.level = spawncount
           /\ m.op \notin {"changing", "reconnect", "disconnect"}
           /\ IsReply(m) => Asks(c, spawncount) /\ (AsksFirst(c) => IsFirst(m))
           /\ m.op = "serverdata" => Restarts(c)
           /\ m.op = "cmd spawn" => prespawned'
           /\ m.op = "skins" => spawned'
<1>0. spawncount \in 0..MaxLevels /\ c.n \in Nat /\ Buffer(c) \in Nat
  BY SizesAssumption DEF TypeOK, Levels, Commands, Buffer
<1>1. CASE Restarts(c) /\ m = Message("serverdata", spawncount, 0)
  <2>1. m \in Messages
    BY <1>0, <1>1, NewMessages
  <2> QED BY <1>1, <2>1 DEF Message, IsReply, Replies
<1>2. ASSUME NEW part \in {"svc_soundlist", "svc_modellist"}, NEW chunks \in Nat,
             Asks(c, spawncount), m = ListPart(part, c.n, chunks),
             c.op = "soundlist" => part = "svc_soundlist"
      PROVE  /\ m \in Messages /\ m.level = spawncount
             /\ m.op \notin {"changing", "reconnect", "disconnect"}
             /\ IsReply(m) => Asks(c, spawncount) /\ (AsksFirst(c) => IsFirst(m))
             /\ m.op \notin {"serverdata", "cmd spawn", "skins"}
  <2>1. m \in Messages
    BY <1>0, <1>2, PartTyped
  <2> QED BY <1>2, <2>1 DEF ListPart, AsksFirst, IsFirst
<1>3. ASSUME NEW op \in {"cmd spawn", "cmd prespawn", "skins"}, NEW n \in Nat,
             Asks(c, spawncount), c.op # "soundlist", m = Message(op, spawncount, n)
      PROVE  /\ m \in Messages /\ m.level = spawncount /\ m.op = op
             /\ IsReply(m) => Asks(c, spawncount) /\ (AsksFirst(c) => IsFirst(m))
  <2>1. m \in Messages
    BY <1>0, <1>3, NewMessages
  <2> QED BY <1>3, <2>1 DEF Message, AsksFirst
<1>4. CASE Asks(c, spawncount) /\ c.op = "soundlist"
           /\ m = ListPart("svc_soundlist", c.n, SoundChunks)
  BY <1>2, <1>4, SizesAssumption
<1>5. CASE Asks(c, spawncount) /\ c.op = "modellist"
           /\ m = ListPart("svc_modellist", c.n, ModelChunks)
  BY <1>2, <1>5, SizesAssumption
<1>6. CASE /\ Asks(c, spawncount) /\ c.op = "prespawn" /\ prespawned'
           /\ m = IF Buffer(c) = SignonBuffers - 1 THEN Message("cmd spawn", spawncount, 0)
                  ELSE Message("cmd prespawn", spawncount, Buffer(c) + 1)
  <2>1. \/ m = Message("cmd spawn", spawncount, 0)
        \/ m = Message("cmd prespawn", spawncount, Buffer(c) + 1)
    BY <1>6
  <2>2. Buffer(c) + 1 \in Nat /\ 0 \in Nat
    BY <1>0
  <2> QED BY <1>3, <1>6, <2>1, <2>2
<1>7. CASE Asks(c, spawncount) /\ c.op = "spawn" /\ spawned' /\ m = Message("skins", spawncount, 0)
  BY <1>3, <1>7
<1> QED BY <1>1, <1>4, <1>5, <1>6, <1>7 DEF Answer

(* SendSpawn sends its message alone, the others after what is there.      *)
LEMMA AnswerShape ==
    ASSUME TypeOK, TypeOK', NEW op, Next_Command(op), Outcomes(Head(sv_inbox)),
           Head(sv_inbox) \in Commands
    PROVE  \/ Down' = Down
           \/ \E m \in Messages :
                 /\ Answer(Head(sv_inbox), m)
                 /\ Adds(Down, m, Down') \/ (m.op = "skins" /\ Adds(Early, m, Down'))
<1> DEFINE c == Head(sv_inbox)
<1>1. UNCHANGED <<stuff, cl_inbox, sv_flight>>
  BY DEF Next_Command, client
<1>2. ASSUME UNCHANGED sv_message PROVE Down' = Down
  BY <1>1, <1>2 DEF Down
<1>3. ASSUME NEW m, Answer(c, m), Reply(m)
      PROVE  m \in Messages /\ Adds(Down, m, Down')
  BY <1>3, AnswerFacts, CommandShape
<1>4. CASE Ignore \/ Begins(c)
  BY <1>2, <1>4 DEF Ignore, Begins
<1>5. CASE Restarts(c) /\ state = "connected" /\ New
  <2>1. Reply(Message("serverdata", spawncount, 0))
    BY <1>5 DEF New
  <2>2. Answer(c, Message("serverdata", spawncount, 0))
    BY <1>5 DEF Answer
  <2> QED BY <1>3, <2>1, <2>2
<1>6. CASE Asks(c, spawncount) /\ SendsPart(c, "soundlist", "svc_soundlist", SoundChunks)
  <2>1. Reply(ListPart("svc_soundlist", c.n, SoundChunks))
    BY <1>6 DEF SendsPart, SendPart
  <2>2. Answer(c, ListPart("svc_soundlist", c.n, SoundChunks))
    BY <1>6 DEF Answer, SendsPart
  <2> QED BY <1>3, <2>1, <2>2
<1>7. CASE Asks(c, spawncount) /\ SendsPart(c, "modellist", "svc_modellist", ModelChunks)
  <2>1. Reply(ListPart("svc_modellist", c.n, ModelChunks))
    BY <1>7 DEF SendsPart, SendPart
  <2>2. Answer(c, ListPart("svc_modellist", c.n, ModelChunks))
    BY <1>7 DEF Answer, SendsPart
  <2> QED BY <1>3, <2>1, <2>2
<1>8. CASE Asks(c, spawncount) /\ c.op = "prespawn" /\ SendSignon(Buffer(c))
  <2> DEFINE m == IF Buffer(c) = SignonBuffers - 1 THEN Message("cmd spawn", spawncount, 0)
                  ELSE Message("cmd prespawn", spawncount, Buffer(c) + 1)
  <2>1. Reply(m) /\ prespawned'
    BY <1>8 DEF SendSignon
  <2>2. Answer(c, m)
    BY <1>8, <2>1 DEF Answer
  <2> QED BY <1>3, <2>1, <2>2
<1>9. CASE Asks(c, spawncount) /\ c.op = "spawn" /\ SendSpawn
  <2> DEFINE m == Message("skins", spawncount, 0) one == <<m>> none == <<>>
  <2>1. sv_message' = one /\ spawned'
    BY <1>9 DEF SendSpawn
  <2>2. Answer(c, m)
    BY <1>9, <2>1 DEF Answer
  <2>3. m \in Messages
    BY <2>2, AnswerFacts
  <2>4. m.op = "skins"
    BY DEF Message
  <2> HIDE DEF m
  <2>5. /\ stuff \in Seq(Messages) /\ cl_inbox \in Seq(Messages)
        /\ sv_flight \in Seq(Messages) /\ none \in Seq(Messages)
    BY StuffedAreMessages DEF TypeOK
  <2>6. Early \in Seq(Messages) /\ Down' = Append(Early, m)
    <3>1. Early \in Seq(Messages)
      BY <2>5, ConcatProperties DEF Early
    <3>2. Down' = Early \o one
      BY <1>1, <2>1 DEF Down, Early
    <3>3. Early \o one = Append(Early, m)
      BY <2>3, <3>1, AppendIsConcat
    <3> QED BY <3>1, <3>2, <3>3
  <2>7. Adds(Early, m, Down')
    BY <2>3, <2>6, AppendFacts
  <2> QED BY <2>2, <2>3, <2>4, <2>7
<1> QED BY <1>4, <1>5, <1>6, <1>7, <1>8, <1>9 DEF Outcomes

LEMMA EarlyFacts ==
    ASSUME TypeOK
    PROVE  /\ Less(Down, Early)
           /\ ToSet(Early) = ToSet(stuff) \cup ToSet(cl_inbox) \cup ToSet(sv_flight)
           /\ \A m, k : Before(Down, m, k) =>
                 Before(Early, m, k) \/ Before(sv_message, m, k)
                 \/ (m \in ToSet(Early) /\ k \in ToSet(sv_message))
           /\ \A m \in ToSet(Early) : \A k \in ToSet(sv_message) : Before(Down, m, k)
<1>1. /\ stuff \in Seq(Messages) /\ cl_inbox \in Seq(Messages)
      /\ sv_flight \in Seq(Messages) /\ sv_message \in Seq(Messages)
  BY StuffedAreMessages DEF TypeOK
<1>2. InThree(Messages, Early, stuff, cl_inbox, sv_flight)
  BY <1>1, ThreeParts DEF Early
<1>3. Early \in Seq(Messages)
      /\ ToSet(Early) = ToSet(stuff) \cup ToSet(cl_inbox) \cup ToSet(sv_flight)
  BY <1>2, NoneFacts DEF InThree, InParts
<1>4. Down = Early \o sv_message
  BY DEF Down, Early
<1>5. /\ ToSet(Down) = ToSet(Early) \cup ToSet(sv_message)
      /\ \A m, k : Before(Down, m, k) <=>
            \/ Before(Early, m, k) \/ Before(sv_message, m, k)
            \/ m \in ToSet(Early) /\ k \in ToSet(sv_message)
  BY <1>1, <1>3, <1>4, ConcatFacts
<1> QED BY <1>3, <1>5 DEF Less

LEMMA CommandFrame ==
    ASSUME NEW op, Next_Command(op), Outcomes(Head(sv_inbox))
    PROVE  /\ UNCHANGED <<client, lists, stuff, cl_inbox, sv_flight, dropping, remote, Early>>
           /\ UNCHANGED <<spawncount, reliable_datagram, kicked>>
           /\ UNCHANGED <<servercount, worldmodel, sounds, models, cstate, executing, connecting>>
<1>1. UNCHANGED <<client, cl_inbox, sv_flight, dropping, remote>>
  BY DEF Next_Command
<1>2. UNCHANGED <<spawncount, reliable_datagram, kicked>>
  BY DEF Outcomes, Ignore, New, SendsPart, SendPart, SendSignon, SendSpawn, Begins, server
<1> QED BY <1>1, <1>2 DEF client, lists, Early

LEMMA CommandKeeps ==
    ASSUME SignonInv, TypeOK', NEW op, Next_Command(op), Head(sv_inbox) \in Commands,
           Outcomes(Head(sv_inbox))
    PROVE  LevelsInv' /\ OneConversation' /\ ReconnectInv'
<1> DEFINE c == Head(sv_inbox)
<1>0. TypeOK /\ LevelsInv /\ OneConversation /\ ReconnectInv
  BY DEF SignonInv
<1>1. UNCHANGED <<servercount, spawncount, reliable_datagram, cstate, Early>>
  BY CommandFrame
<1>2. Starts(Up, c, Up') /\ Less(Up, Up')
  BY <1>0, CommandShape, ShapesAreLess
<1>3. Less(Down, Down) /\ Less(Down, Early)
  BY <1>0, EarlyFacts, ShapesAreLess
<1>4. CASE Down' = Down
  <2>1. Less(Down, Down')
    BY <1>3, <1>4
  <2>2. LevelsInv' /\ OneConversation'
    BY <1>0, <1>1, <1>2, <2>1, LessKeeps
  <2>3. ReconnectInv'
    BY <1>0, <1>1, <1>4 DEF ReconnectInv
  <2> QED BY <2>2, <2>3
<1>5. ASSUME NEW m \in Messages, Answer(c, m), Adds(Down, m, Down') \/ Adds(Early, m, Down')
      PROVE  LevelsInv' /\ OneConversation' /\ ReconnectInv'
  <2>1. /\ m.level = spawncount
        /\ m.op \notin {"changing", "reconnect", "disconnect"}
        /\ IsReply(m) => Asks(c, spawncount) /\ (AsksFirst(c) => IsFirst(m))
        /\ m.op = "serverdata" => Restarts(c)
    BY <1>0, <1>5, AnswerFacts
  <2>2. PICK kept : Less(Down, kept) /\ Adds(kept, m, Down')
    BY <1>3, <1>5
  <2>3. LevelsInv' /\ OneConversation'
    BY <1>0, <1>1, <1>2, <2>1, <2>2, ReplyKeeps
  <2>4. ToSet(Down') \subseteq ToSet(Down) \cup {m}
    BY <2>2 DEF Less, Adds
  <2>5. ReconnectInv'
    BY <1>0, <1>1, <2>1, <2>4 DEF ReconnectInv
  <2> QED BY <2>3, <2>5
<1>6. \/ Down' = Down
      \/ \E m \in Messages :
            Answer(c, m) /\ (Adds(Down, m, Down') \/ Adds(Early, m, Down'))
  BY <1>0, AnswerShape
<1> QED BY <1>4, <1>5, <1>6

LEMMA ListsKept ==
    ASSUME ListsInv, UNCHANGED <<servercount, worldmodel, sounds, models>>,
           \A m \in ToSet(Down') : m \in ToSet(Down) \/ ToldInOrder(m),
           \A c \in ToSet(Up') : c \in ToSet(Up) \/ AskedInOrder(c)
    PROVE  ListsInv'
<1>1. /\ \A n : HasSounds(n)' <=> HasSounds(n)
      /\ \A n : HasModels(n)' <=> HasModels(n)
  BY DEF HasSounds, HasModels
<1>2. Loaded' <=> Loaded
  BY <1>1 DEF Loaded
<1>3. \A m : ToldInOrder(m)' <=> ToldInOrder(m)
  BY <1>1, <1>2 DEF ToldInOrder
<1>4. \A c : AskedInOrder(c)' <=> AskedInOrder(c)
  BY <1>1, <1>2 DEF AskedInOrder
<1>5. ListsOfOneLevel'
  BY DEF ListsInv, ListsOfOneLevel
<1> QED BY <1>3, <1>4, <1>5 DEF ListsInv

LEMMA AnswerInOrder ==
    ASSUME TypeOK, LevelsInv, ListsInv, NEW c \in ToSet(Up), NEW m, Answer(c, m)
    PROVE  ToldInOrder(m)
<1>0. /\ c \in Commands /\ AskedInOrder(c) /\ servercount \in Nat /\ spawncount \in Nat
  BY OnTheWay DEF ListsInv
<1>1. c.n \in Nat
  BY <1>0 DEF Commands
<1>2. CASE m = Message("serverdata", spawncount, 0)
  BY <1>2 DEF Message, ToldInOrder
<1>3. ASSUME Asks(c, spawncount) PROVE c.level = servercount
  BY <1>0, <1>3 DEF Asks, LevelsInv
<1>4. CASE Asks(c, spawncount) /\ c.op = "soundlist"
           /\ m = ListPart("svc_soundlist", c.n, SoundChunks)
  BY <1>0, <1>3, <1>4 DEF AskedInOrder, ToldInOrder, ListPart, NextPart
<1>5. CASE Asks(c, spawncount) /\ c.op = "modellist"
           /\ m = ListPart("svc_modellist", c.n, ModelChunks)
  BY <1>0, <1>3, <1>5 DEF AskedInOrder, ToldInOrder, ListPart, NextPart
<1>6. CASE /\ Asks(c, spawncount) /\ c.op = "prespawn"
           /\ m = IF Buffer(c) = SignonBuffers - 1 THEN Message("cmd spawn", spawncount, 0)
                  ELSE Message("cmd prespawn", spawncount, Buffer(c) + 1)
  <2>1. Loaded
    BY <1>0, <1>3, <1>6 DEF AskedInOrder
  <2>2. Buffer(c) \in 0..(SignonBuffers - 1)
    BY <1>1, SizesAssumption DEF Buffer
  <2>3. Buffer(c) # SignonBuffers - 1 => Buffer(c) + 1 \in 1..(SignonBuffers - 1)
    BY <2>2, SizesAssumption
  <2> QED BY <1>6, <2>1, <2>3 DEF ToldInOrder, Message
<1>7. CASE Asks(c, spawncount) /\ c.op = "spawn" /\ m = Message("skins", spawncount, 0)
  <2>1. Loaded
    BY <1>0, <1>3, <1>7 DEF AskedInOrder
  <2> QED BY <1>7, <2>1 DEF ToldInOrder, Message
<1> QED BY <1>2, <1>4, <1>5, <1>6, <1>7 DEF Answer

(* What the flags allow stays allowed as long as nothing new asks for it.  *)
LEMMA AllowedKept ==
    ASSUME StagesInv,
           \A m \in ToSet(Down') : \/ m \in ToSet(Down)
                                   \/ /\ m.op = "cmd spawn" => prespawned'
                                      /\ m.op = "skins" => spawned',
           \A c \in ToSet(Up') : \/ c \in ToSet(Up)
                                 \/ /\ c.op = "spawn" => prespawned'
                                    /\ c.op = "begin" => spawned',
           prespawned => prespawned', spawned => spawned'
    PROVE  /\ (\E m \in ToSet(Down') : m.op = "cmd spawn") \/ (\E c \in ToSet(Up') : c.op = "spawn")
                 => prespawned'
           /\ (\E m \in ToSet(Down') : m.op = "skins") \/ (\E c \in ToSet(Up') : c.op = "begin")
                 => spawned'
BY DEF StagesInv

LEMMA CommandStages ==
    ASSUME SignonInv, TypeOK', NEW op, Next_Command(op), Head(sv_inbox) \in Commands,
           Outcomes(Head(sv_inbox))
    PROVE  StagesInv'
<1> DEFINE c == Head(sv_inbox)
<1>0. TypeOK /\ StagesInv
  BY DEF SignonInv
<1>1. UNCHANGED <<spawncount, kicked, cstate, connecting, stuff, executing, cl_inbox>>
  BY CommandFrame
<1>2. spawncount \in Nat /\ inGame \in Nat
  <2>1. spawncount \in Nat
    BY <1>0, OnTheWay
  <2>2. inGame \in Nat
    BY <1>0 DEF TypeOK
  <2> QED
    BY <2>1, <2>2
<1>3. sv_inbox # <<>> /\ state # "zombie"
  BY <1>0 DEF Next_Command, StagesInv
<1>4. /\ prespawned => prespawned'
      /\ spawned => spawned'
  <2>1. /\ prespawned' = TRUE \/ prespawned' = prespawned
        /\ spawned' = TRUE \/ spawned' = spawned
    BY Zenon DEF Outcomes, Ignore, New, SendsPart, SendPart, SendSignon, SendSpawn, Begins, server
  <2> QED BY <2>1
<1>5. /\ inGame' <= spawncount' /\ (inGame' = spawncount' => state' # "connected")
      /\ state' # "zombie"
  <2>1. \/ UNCHANGED <<state, inGame>>
        \/ state = "connected" /\ UNCHANGED <<state, inGame>>
        \/ state' = "spawned" /\ inGame' \in {inGame, spawncount}
    BY DEF Outcomes, Ignore, New, SendsPart, SendPart, SendSignon, SendSpawn, Begins, server
  <2>2. inGame <= spawncount /\ (inGame = spawncount => state # "connected")
    BY <1>0 DEF StagesInv
  <2>3. spawncount <= spawncount /\ spawncount' = spawncount
    BY <1>1, <1>2
  <2> QED BY <1>3, <2>1, <2>2, <2>3
<1>6. \A m \in ToSet(Down') : \/ m \in ToSet(Down)
                              \/ /\ m.op = "cmd spawn" => prespawned'
                                 /\ m.op = "skins" => spawned'
  <2>1. CASE Down' = Down
    BY <2>1
  <2>2. ASSUME NEW m \in Messages, Answer(c, m), Adds(Down, m, Down') \/ Adds(Early, m, Down')
        PROVE  \A k \in ToSet(Down') : \/ k \in ToSet(Down)
                                       \/ /\ k.op = "cmd spawn" => prespawned'
                                          /\ k.op = "skins" => spawned'
    <3>1. /\ m.op = "cmd spawn" => prespawned'
          /\ m.op = "skins" => spawned'
      BY <1>0, <2>2, AnswerFacts
    <3>2. ToSet(Down') \subseteq ToSet(Down) \cup {m}
      BY <1>0, <2>2, EarlyFacts DEF Less, Adds
    <3> QED BY <3>1, <3>2
  <2> QED BY <1>0, <2>1, <2>2, AnswerShape
<1>7. \A d \in ToSet(Up') : d \in ToSet(Up)
  BY <1>0, CommandShape DEF Starts
<1>8. /\ (\E m \in ToSet(Down') : m.op = "cmd spawn") \/ (\E d \in ToSet(Up') : d.op = "spawn")
            => prespawned'
      /\ (\E m \in ToSet(Down') : m.op = "skins") \/ (\E d \in ToSet(Up') : d.op = "begin")
            => spawned'
  BY <1>0, <1>4, <1>6, <1>7, AllowedKept
<1> QED BY <1>0, <1>1, <1>5, <1>8 DEF StagesInv

(* A pair of "changing" and "reconnect" is never cut in two.               *)
LEMMA PairsKept ==
    ASSUME TypeOK, KeptInv, ~remote, NEW m, NEW k \in ToSet(Early), k.op = "reconnect",
           Before(Down, m, k)
    PROVE  Before(Early, m, k)
<1>1. k \in ToSet(Down)
  BY EarlyFacts DEF Less
<1>2. ~Before(Down, k, k)
  BY <1>1 DEF KeptInv
<1>3. k \notin ToSet(sv_message)
  BY <1>2, EarlyFacts
<1>4. ~Before(sv_message, m, k)
  BY <1>3, BeforeIn
<1> QED BY <1>3, <1>4, EarlyFacts

(* What is still on its way in order, and then a message of the present    *)
(* level that is neither "reconnect" nor a disconnection.                  *)
LEMMA KeptAnswer ==
    ASSUME TypeOK, LevelsInv, KeptInv, ~remote, NEW kept, Less(Down, kept),
           \A a : \A k \in ToSet(kept) :
              k.op = "reconnect" /\ Before(Down, a, k) => Before(kept, a, k),
           NEW m, Adds(kept, m, Down'), m.op \notin {"reconnect", "disconnect"},
           m.level = spawncount,
           UNCHANGED <<reliable_datagram, dropping, connecting, cstate>>, state' # "zombie"
    PROVE  KeptInv'
<1>0. /\ spawncount \in Nat
      /\ \A k \in ToSet(Down) : k.level \in Nat /\ k.level <= spawncount
  BY OnTheWay DEF LevelsInv
<1>1. /\ ToSet(Down') \subseteq ToSet(Down) \cup {m} /\ ToSet(kept) \subseteq ToSet(Down')
      /\ \A k \in ToSet(Down') : k.op = "reconnect" => k \in ToSet(kept) /\ k \in ToSet(Down)
  BY DEF Less, Adds
<1>2. ASSUME NEW k \in ToSet(Down'), k.op = "reconnect"
      PROVE  /\ Warned(k)'
             /\ \A a \in ToSet(Down') :
                   Before(Down', a, k) /\ a.level = k.level => a.op = "changing"
  <2>1. /\ Warned(k)
        /\ \A a \in ToSet(Down) : Before(Down, a, k) /\ a.level = k.level => a.op = "changing"
    BY <1>1, <1>2 DEF KeptInv
  <2>2. CASE \E a \in ToSet(Down) : a.op = "changing" /\ a.level = k.level /\ Before(Down, a, k)
    <3>1. PICK a \in ToSet(Down) :
            a.op = "changing" /\ a.level = k.level /\ Before(Down, a, k)
      BY <2>2
    <3>2. Before(kept, a, k)
      BY <1>1, <1>2, <3>1
    <3>3. Before(Down', a, k) /\ a \in ToSet(Down')
      BY <3>2, BeforeIn DEF Adds
    <3> QED BY <3>1, <3>3, <2>1, <1>1, <1>2, BeforeIn DEF Warned, Less, Adds
  <2>3. CASE cstate = "connected" /\ \A a \in ToSet(Down) : a.level >= k.level
    <3>1. \A a \in ToSet(Down') : a.level >= k.level
      BY <1>0, <1>1, <1>2, <2>3
    <3> QED BY <2>1, <2>3, <3>1, <1>1, <1>2, BeforeIn DEF Warned, Less, Adds
  <2> QED BY <2>1, <2>2, <2>3 DEF Warned
<1>3. \A a \in ToSet(Down') : a.op # "disconnect"
  BY <1>1 DEF KeptInv
<1> QED BY <1>2, <1>3 DEF KeptInv

LEMMA CommandKept ==
    ASSUME SignonInv, TypeOK', NEW op, Next_Command(op), Head(sv_inbox) \in Commands,
           Outcomes(Head(sv_inbox))
    PROVE  KeptInv'
<1> DEFINE c == Head(sv_inbox)
<1>0. TypeOK /\ LevelsInv /\ KeptInv /\ StagesInv
  BY DEF SignonInv
<1>1. UNCHANGED <<reliable_datagram, dropping, connecting, cstate, remote>>
  BY CommandFrame
<1>2. state # "zombie" /\ state' # "zombie"
  BY <1>0 DEF Next_Command, StagesInv,
     Outcomes, Ignore, New, SendsPart, SendPart, SendSignon, SendSpawn, Begins, server
<1>3. CASE Down' = Down
  <2>1. \A k : Warned(k)' <=> Warned(k)
    BY <1>1, <1>3 DEF Warned
  <2> QED BY <1>0, <1>1, <1>2, <1>3, <2>1 DEF KeptInv
<1>4. ASSUME NEW m \in Messages, Answer(c, m), Adds(Down, m, Down') \/ Adds(Early, m, Down'), ~remote
      PROVE  KeptInv'
  <2>1. m.level = spawncount /\ m.op \notin {"reconnect", "disconnect"}
    BY <1>0, <1>4, AnswerFacts
  <2>2. CASE Adds(Down, m, Down')
    <3>1. Less(Down, Down)
      BY ShapesAreLess
    <3> QED BY <1>0, <1>1, <1>2, <1>4, <2>1, <2>2, <3>1, KeptAnswer
  <2>3. CASE Adds(Early, m, Down')
    <3>1. Less(Down, Early)
      BY <1>0, EarlyFacts
    <3>2. \A a : \A k \in ToSet(Early) :
            k.op = "reconnect" /\ Before(Down, a, k) => Before(Early, a, k)
      BY <1>0, <1>4, PairsKept
    <3> QED BY <1>0, <1>1, <1>2, <1>4, <2>1, <2>3, <3>1, <3>2, KeptAnswer
  <2> QED BY <1>4, <2>2, <2>3
<1>5. CASE remote
  BY <1>1, <1>5 DEF KeptInv
<1>6. \/ Down' = Down
      \/ \E m \in Messages :
            Answer(c, m) /\ (Adds(Down, m, Down') \/ Adds(Early, m, Down'))
  BY <1>0, AnswerShape
<1> QED BY <1>3, <1>4, <1>5, <1>6

LEMMA CommandStep ==
    ASSUME SignonInv, TypeOK',
           SV_New_f \/ SV_Soundlist_f \/ SV_Modellist_f \/ SV_PreSpawn_f \/ SV_Spawn_f \/ SV_Begin_f
    PROVE  SignonInv'
<1> DEFINE c == Head(sv_inbox)
<1>0. TypeOK /\ LevelsInv /\ ListsInv /\ StagesInv
  BY DEF SignonInv
<1>1. PICK op : Next_Command(op)
  BY <1>0, CommandOutcome
<1>2. c \in Commands /\ c \in ToSet(Up) /\ Outcomes(c)
  BY <1>0, CommandOutcome
<1>3. LevelsInv' /\ OneConversation' /\ ReconnectInv'
  BY <1>1, <1>2, CommandKeeps
<1>4. StagesInv' /\ KeptInv'
  BY <1>1, <1>2, CommandStages, CommandKept
<1>5. ListsInv'
  <2>1. \A m \in ToSet(Down') : m \in ToSet(Down) \/ ToldInOrder(m)
    <3>1. CASE Down' = Down
      BY <3>1
    <3>2. ASSUME NEW m \in Messages, Answer(c, m), Adds(Down, m, Down') \/ Adds(Early, m, Down')
          PROVE  \A k \in ToSet(Down') : k \in ToSet(Down) \/ ToldInOrder(k)
      <4>1. ToldInOrder(m)
        BY <1>0, <1>2, <3>2, AnswerInOrder
      <4>2. ToSet(Down') \subseteq ToSet(Down) \cup {m}
        BY <1>0, <3>2, EarlyFacts DEF Less, Adds
      <4> QED BY <4>1, <4>2
    <3> QED BY <1>0, <1>1, <1>2, <3>1, <3>2, AnswerShape
  <2>2. \A d \in ToSet(Up') : d \in ToSet(Up)
    BY <1>0, <1>1, CommandShape DEF Starts
  <2>3. UNCHANGED <<servercount, worldmodel, sounds, models>>
    BY <1>1, <1>2, CommandFrame
  <2> QED BY <1>0, <2>1, <2>2, <2>3, ListsKept
<1> QED BY <1>3, <1>4, <1>5 DEF SignonInv

----------------------------------------------------------------------------
(* The client's handlers.                                                  *)

LEMMA ReconnectLess ==
    ASSUME ReconnectInv, ToSet(Down') \subseteq ToSet(Down), ToSet(Early') \subseteq ToSet(Early),
           UNCHANGED <<reliable_datagram, servercount, spawncount>>,
           cstate' = "connected" => cstate = "connected"
    PROVE  ReconnectInv'
BY DEF ReconnectInv

(* The message e is taken.  If the client is no longer connected then,     *)
(* "reconnect" has its warning before it.                                  *)
LEMMA KeptLess ==
    ASSUME TypeOK, LevelsInv, KeptInv, NEW e, LeavesOut(Down, e, Down'),
           e.op # "changing", e.op = "reconnect" => e \notin ToSet(Down'),
           UNCHANGED <<reliable_datagram, dropping, connecting, state, remote>>,
           ~remote => cstate' # "disconnected",
           \/ cstate' = cstate
           \/ /\ e.op # "reconnect"
              /\ \A k \in ToSet(Down') : k.op = "reconnect" => Before(Down, e, k)
    PROVE  KeptInv'
<1> SUFFICES ASSUME ~remote PROVE KeptInv'
  BY DEF KeptInv
<1>0. /\ ToSet(Down') \subseteq ToSet(Down) /\ e \in ToSet(Down)
      /\ \A a, k : Before(Down', a, k) => Before(Down, a, k)
      /\ \A a, k : Before(Down, a, k) /\ a # e /\ k # e => Before(Down', a, k)
      /\ \A k \in ToSet(Down) : k.level \in Nat
  BY OnTheWay DEF LeavesOut, Less
<1>1. ASSUME NEW k \in ToSet(Down'), k.op = "reconnect"
      PROVE  /\ Warned(k)'
             /\ \A a \in ToSet(Down') :
                   Before(Down', a, k) /\ a.level = k.level => a.op = "changing"
  <2>1. /\ Warned(k) /\ k \in ToSet(Down) /\ k # e
        /\ \A a \in ToSet(Down) : Before(Down, a, k) /\ a.level = k.level => a.op = "changing"
    BY <1>0, <1>1 DEF KeptInv
  <2>2. CASE \E a \in ToSet(Down) : a.op = "changing" /\ a.level = k.level /\ Before(Down, a, k)
    <3>1. PICK a \in ToSet(Down) :
            a.op = "changing" /\ a.level = k.level /\ Before(Down, a, k)
      BY <2>2
    <3>2. Before(Down', a, k) /\ a \in ToSet(Down')
      BY <1>0, <2>1, <3>1, BeforeIn
    <3> QED BY <1>0, <2>1, <3>1, <3>2 DEF Warned
  <2>3. CASE cstate = "connected" /\ \A a \in ToSet(Down) : a.level >= k.level
    <3>1. CASE cstate' = cstate
      BY <1>0, <2>1, <2>3, <3>1 DEF Warned
    <3>2. CASE Before(Down, e, k)
      <4>1. e.level = k.level
        BY <1>0, <2>1, <2>3, <3>2 DEF LevelsInv
      <4> QED BY <1>0, <2>1, <3>2, <4>1
    <3> QED BY <1>1, <3>1, <3>2
  <2> QED BY <2>1, <2>2, <2>3 DEF Warned
<1> QED BY <1>0, <1>1 DEF KeptInv

LEMMA MessageFrame ==
    ASSUME NEW op, Next_Message(op)
    PROVE  /\ UNCHANGED <<spawncount, state, prespawned, spawned, inGame, kicked,
                          reliable_datagram, sv_message, sv_flight, sv_inbox, cl_flight,
                          executing, connecting, dropping, remote>>
           /\ cl_inbox # <<>> /\ Head(cl_inbox).op = op
BY DEF Next_Message, server

LEMMA EarlyTaken ==
    ASSUME TypeOK, TypeOK', NEW op, Next_Message(op), UNCHANGED stuff
    PROVE  ToSet(Early') \subseteq ToSet(Early)
<1>1. Starts(cl_inbox, Head(cl_inbox), cl_inbox') /\ UNCHANGED sv_flight
  BY MessageTaken DEF Next_Message
<1>2. /\ ToSet(Early) = ToSet(stuff) \cup ToSet(cl_inbox) \cup ToSet(sv_flight)
      /\ stuff \in Seq(Messages) /\ cl_inbox' \in Seq(Messages)
      /\ sv_flight \in Seq(Messages)
  BY EarlyFacts, StuffedAreMessages DEF TypeOK
<1>3. InThree(Messages, Early', stuff, cl_inbox', sv_flight)
  BY <1>1, <1>2, ThreeParts DEF Early
<1>4. ToSet(Early') = ToSet(stuff) \cup ToSet(cl_inbox') \cup ToSet(sv_flight)
  BY <1>3, NoneFacts DEF InThree, InParts
<1> QED BY <1>1, <1>2, <1>4 DEF Starts

(* A part of a list is handled, and the next thing is asked for.           *)
LEMMA PartHandled ==
    ASSUME SignonInv, TypeOK', NEW op \in {"svc_soundlist", "svc_modellist"}, Next_Message(op),
           UNCHANGED <<stuff, cstate, servercount>>,
           NEW c \in Commands, Request(c), c.level = servercount,
           c.op \notin {"new", "spawn", "begin"}
    PROVE  /\ LevelsInv' /\ OneConversation' /\ ReconnectInv' /\ StagesInv' /\ KeptInv'
           /\ ToSet(Down') \subseteq ToSet(Down) /\ ToSet(Up') = ToSet(Up) \cup {c}
           /\ Head(cl_inbox) \in ToSet(Down) /\ Head(cl_inbox).level = servercount
<1> DEFINE e == Head(cl_inbox)
<1>0. TypeOK /\ LevelsInv /\ OneConversation /\ ReconnectInv /\ StagesInv /\ KeptInv
  BY DEF SignonInv
<1>1. /\ UNCHANGED <<spawncount, state, prespawned, spawned, inGame, kicked,
                     reliable_datagram, sv_inbox, cl_flight, executing, connecting,
                     dropping, remote>>
      /\ cl_inbox # <<>> /\ e.op = op
  BY MessageFrame
<1>2. /\ LeavesOut(Down, e, Down')
      /\ \A k \in ToSet(Down') : k \in ToSet(stuff) \/ Before(Down, e, k)
  BY <1>0, MessageShape
<1>3. Less(Down, Down') /\ e \in ToSet(Down)
  BY <1>2, ShapesAreLess
<1>4. Adds(Up, c, Up') /\ ToSet(Up') = ToSet(Up) \cup {c}
  BY <1>0, <1>1, RequestShape DEF Adds
<1>5. IsReply(e) /\ e.level = servercount
  BY <1>0, <1>1, <1>3 DEF IsReply, Replies, LevelsInv
<1>6. \A k \in ToSet(Down') : k.op = "serverdata" => Before(Down, e, k)
  <2>1. \A k \in ToSet(stuff) : k.op # "serverdata"
    <3>1. ToSet(stuff) \subseteq Stuffed
      BY <1>0, ElementsTyped DEF TypeOK
    <3> QED BY <3>1 DEF Stuffed
  <2> QED BY <1>2, <2>1
<1>7. LevelsInv' /\ OneConversation'
  BY <1>0, <1>1, <1>3, <1>4, <1>5, <1>6, RequestKeeps
<1>8. ReconnectInv'
  BY <1>0, <1>1, <1>3, EarlyTaken, ReconnectLess DEF Less
<1>9. StagesInv'
  <2>1. /\ (\E m \in ToSet(Down') : m.op = "cmd spawn") \/ (\E d \in ToSet(Up') : d.op = "spawn")
             => prespawned'
        /\ (\E m \in ToSet(Down') : m.op = "skins") \/ (\E d \in ToSet(Up') : d.op = "begin")
             => spawned'
    BY <1>0, <1>1, <1>3, <1>4, AllowedKept DEF Less
  <2>2. ~(cstate = "disconnected" /\ connecting)
    BY <1>0, <1>1 DEF StagesInv
  <2> QED BY <1>0, <1>1, <2>1, <2>2 DEF StagesInv
<1>10. KeptInv'
  <2>1. e.op \notin {"changing", "reconnect"} /\ (~remote => cstate' # "disconnected")
    BY <1>0, <1>1 DEF KeptInv
  <2> QED BY <1>0, <1>1, <1>2, <2>1, KeptLess
<1> QED BY <1>3, <1>4, <1>5, <1>7, <1>8, <1>9, <1>10 DEF Less

LEMMA SoundlistStep ==
    ASSUME SignonInv, TypeOK', CL_ParseSoundlist
    PROVE  SignonInv'
<1>e. PICK e : e = Head(cl_inbox)
  OBVIOUS
<1>d. PICK c : c = IF e.next # 0 THEN Command("soundlist", servercount, e.next)
                   ELSE Command("modellist", servercount, 0)
  OBVIOUS
<1>0. TypeOK /\ ListsInv /\ servercount \in 0..MaxLevels
  BY DEF SignonInv, TypeOK
<1>1. /\ Next_Message("svc_soundlist") /\ Request(c)
      /\ sounds' = [sounds EXCEPT ![e.n + 1] = e.level]
      /\ UNCHANGED <<cstate, servercount, models, worldmodel, stuff>>
  BY <1>e, <1>d DEF CL_ParseSoundlist
<1>2. e \in Messages /\ e.op = "svc_soundlist"
  BY <1>0, <1>1, <1>e, MessageTaken, MessageFrame
<1>3. e.n \in Nat /\ e.next \in Nat
  BY <1>2 DEF Messages, Stuffed
<1>4. c \in Commands /\ c.level = servercount /\ c.op \notin {"new", "spawn", "begin"}
  <2>1. c \in Commands
    BY <1>0, <1>3, <1>d, NewCommands
  <2> QED BY <1>d, <2>1 DEF Command
<1>5. /\ LevelsInv' /\ OneConversation' /\ ReconnectInv' /\ StagesInv' /\ KeptInv'
      /\ ToSet(Down') \subseteq ToSet(Down) /\ ToSet(Up') = ToSet(Up) \cup {c}
      /\ e \in ToSet(Down) /\ e.level = servercount
  BY <1>1, <1>4, <1>e, PartHandled
<1>6. NextPart(e, SoundChunks) /\ HasSounds(e.n)
  BY <1>0, <1>2, <1>5 DEF ListsInv, ToldInOrder
<1>c. /\ e.next # 0 => c.op = "soundlist" /\ c.n = e.next
      /\ e.next = 0 => c.op = "modellist" /\ c.n = 0
  BY <1>d DEF Command
<1>7. \A n : HasSounds(n) => HasSounds(n)'
  BY <1>0, <1>1, <1>5 DEF HasSounds, TypeOK
<1>8. HasSounds(e.n + 1)'
  <2> SUFFICES ASSUME NEW i \in 1..SoundChunks, i <= e.n + 1 PROVE sounds'[i] = servercount
    BY <1>1 DEF HasSounds
  <2>1. CASE i = e.n + 1
    BY <1>0, <1>1, <1>5, <2>1 DEF TypeOK
  <2>2. CASE i # e.n + 1
    <3>1. i <= e.n
      BY <1>3, <2>2
    <3>2. sounds[i] = servercount
      BY <1>6, <3>1 DEF HasSounds
    <3> QED BY <1>0, <1>1, <2>2, <3>2 DEF TypeOK
  <2> QED BY <2>1, <2>2
<1>9. /\ e.next # 0 => e.next = e.n + 1 /\ e.next < SoundChunks
      /\ e.next = 0 => HasSounds(SoundChunks)'
  <2>1. SoundChunks \in Nat
    BY SizesAssumption
  <2>2. CASE e.n + 1 < SoundChunks
    BY <1>3, <1>6, <2>2 DEF NextPart
  <2>3. CASE ~(e.n + 1 < SoundChunks)
    <3>1. e.next = 0 /\ e.n + 1 >= SoundChunks
      BY <1>3, <1>6, <2>1, <2>3 DEF NextPart
    <3>2. HasSounds(SoundChunks)'
      BY <1>3, <1>8, <2>1, <3>1 DEF HasSounds
    <3> QED BY <3>1, <3>2
  <2> QED BY <2>2, <2>3
<1>10. \A n : HasModels(n)' <=> HasModels(n)
  BY <1>1 DEF HasModels
<1>11. Loaded => Loaded'
  BY <1>1, <1>7, <1>10 DEF Loaded
<1>12. AskedInOrder(c)'
  <2>1. HasModels(0)' /\ 0 < ModelChunks
    BY SizesAssumption DEF HasModels
  <2>2. CASE e.next # 0
    BY <1>8, <1>9, <1>c, <2>2 DEF AskedInOrder
  <2>3. CASE e.next = 0
    BY <1>9, <1>c, <2>1, <2>3 DEF AskedInOrder
  <2> QED BY <2>2, <2>3
<1>13. ListsInv'
  <2>1. \A m : ToldInOrder(m) => ToldInOrder(m)'
    BY <1>7, <1>10, <1>11 DEF ToldInOrder
  <2>2. \A d : AskedInOrder(d) => AskedInOrder(d)'
    BY <1>1, <1>7, <1>10, <1>11 DEF AskedInOrder
  <2>3. ListsOfOneLevel'
    BY <1>0, <1>1, <1>5 DEF ListsInv, ListsOfOneLevel, TypeOK
  <2> QED BY <1>0, <1>5, <1>12, <2>1, <2>2, <2>3 DEF ListsInv
<1> QED BY <1>5, <1>13 DEF SignonInv

LEMMA ModellistStep ==
    ASSUME SignonInv, TypeOK', CL_ParseModellist
    PROVE  SignonInv'
<1>e. PICK e : e = Head(cl_inbox)
  OBVIOUS
<1>g. PICK got : got = [models EXCEPT ![e.n + 1] = e.level]
  OBVIOUS
<1>d. PICK c : c = IF e.next # 0 THEN Command("modellist", servercount, e.next)
                   ELSE [op |-> "prespawn", level |-> servercount, n |-> 0,
                         check |-> got[1]]
  OBVIOUS
<1>0. TypeOK /\ ListsInv /\ servercount \in 0..MaxLevels
  BY DEF SignonInv, TypeOK
<1>1. /\ Next_Message("svc_modellist") /\ Request(c) /\ models' = got
      /\ worldmodel' = IF e.next # 0 THEN worldmodel ELSE got[1]
      /\ UNCHANGED <<cstate, servercount, sounds, stuff>>
  BY <1>e, <1>g, <1>d DEF CL_ParseModellist
<1>2. e \in Messages /\ e.op = "svc_modellist"
  BY <1>0, <1>1, <1>e, MessageTaken, MessageFrame
<1>3. e.n \in Nat /\ e.next \in Nat /\ e.level \in 0..MaxLevels
  BY <1>2, LevelsTyped DEF Messages, Stuffed
<1>4. c \in Commands /\ c.level = servercount /\ c.op \notin {"new", "spawn", "begin"}
  <2>1. got[1] \in 0..MaxLevels
    BY <1>0, <1>3, <1>g, SizesAssumption DEF TypeOK
  <2>2. Command("modellist", servercount, e.next) \in Commands
    BY <1>0, <1>3, NewCommands
  <2>3. [op |-> "prespawn", level |-> servercount, n |-> 0, check |-> got[1]] \in Commands
    BY <1>0, <2>1 DEF Commands
  <2> QED BY <1>d, <2>2, <2>3 DEF Command
<1>5. /\ LevelsInv' /\ OneConversation' /\ ReconnectInv' /\ StagesInv' /\ KeptInv'
      /\ ToSet(Down') \subseteq ToSet(Down) /\ ToSet(Up') = ToSet(Up) \cup {c}
      /\ e \in ToSet(Down) /\ e.level = servercount
  BY <1>1, <1>4, <1>e, PartHandled
<1>6. NextPart(e, ModelChunks) /\ HasSounds(SoundChunks) /\ HasModels(e.n)
  BY <1>0, <1>2, <1>5 DEF ListsInv, ToldInOrder
<1>c. /\ e.next # 0 => c.op = "modellist" /\ c.n = e.next
      /\ e.next = 0 => c.op = "prespawn" /\ c.n = 0 /\ c.check = got[1]
  BY <1>d DEF Command
<1>7. \A n : HasModels(n) => HasModels(n)'
  BY <1>0, <1>1, <1>5, <1>g DEF HasModels, TypeOK
<1>8. HasModels(e.n + 1)'
  <2> SUFFICES ASSUME NEW i \in 1..ModelChunks, i <= e.n + 1 PROVE models'[i] = servercount
    BY <1>1 DEF HasModels
  <2>1. CASE i = e.n + 1
    BY <1>0, <1>1, <1>5, <1>g, <2>1 DEF TypeOK
  <2>2. CASE i # e.n + 1
    <3>1. i <= e.n
      BY <1>3, <2>2
    <3>2. models[i] = servercount
      BY <1>6, <3>1 DEF HasModels
    <3> QED BY <1>0, <1>1, <1>g, <2>2, <3>2 DEF TypeOK
  <2> QED BY <2>1, <2>2
<1>9. /\ e.next # 0 => e.next = e.n + 1 /\ e.next < ModelChunks
      /\ e.next = 0 => HasModels(ModelChunks)'
  <2>1. ModelChunks \in Nat
    BY SizesAssumption
  <2>2. CASE e.n + 1 < ModelChunks
    BY <1>3, <1>6, <2>2 DEF NextPart
  <2>3. CASE ~(e.n + 1 < ModelChunks)
    <3>1. e.next = 0 /\ e.n + 1 >= ModelChunks
      BY <1>3, <1>6, <2>1, <2>3 DEF NextPart
    <3>2. HasModels(ModelChunks)'
      BY <1>3, <1>8, <2>1, <3>1 DEF HasModels
    <3> QED BY <3>1, <3>2
  <2> QED BY <2>2, <2>3
<1>10. \A n : HasSounds(n)' <=> HasSounds(n)
  BY <1>1 DEF HasSounds
<1>11. e.next = 0 => got[1] = servercount /\ worldmodel' = servercount
  <2>1. 1 \in 1..ModelChunks /\ 1 <= ModelChunks
    BY SizesAssumption
  <2>2. e.next = 0 => models'[1] = servercount'
    BY <1>9, <2>1 DEF HasModels
  <2> QED BY <1>1, <2>2
<1>12. (Loaded => Loaded') /\ (e.next = 0 => Loaded')
  <2>1. HasSounds(SoundChunks)' /\ servercount' = servercount
    BY <1>1, <1>6, <1>10
  <2>2. worldmodel = servercount => worldmodel' = servercount
    BY <1>1, <1>11
  <2>3. HasModels(ModelChunks) => HasModels(ModelChunks)'
    BY <1>7
  <2> QED BY <1>9, <1>11, <2>1, <2>2, <2>3 DEF Loaded
<1>13. AskedInOrder(c)'
  <2>1. CASE e.next # 0
    BY <1>6, <1>8, <1>9, <1>10, <1>c, <2>1 DEF AskedInOrder
  <2>2. CASE e.next = 0
    BY <1>4, <1>11, <1>12, <1>c, <2>2 DEF AskedInOrder
  <2> QED BY <2>1, <2>2
<1>14. ListsInv'
  <2>1. \A m : ToldInOrder(m) => ToldInOrder(m)'
    BY <1>7, <1>10, <1>12 DEF ToldInOrder
  <2>2. \A d : AskedInOrder(d) => AskedInOrder(d)'
    BY <1>1, <1>7, <1>10, <1>12 DEF AskedInOrder
  <2>3. ListsOfOneLevel'
    <3>1. CASE e.next = 0
      <4>1. Loaded'
        BY <1>12, <3>1
      <4>2. /\ \A i \in 1..SoundChunks : i <= SoundChunks
            /\ \A i \in 1..ModelChunks : i <= ModelChunks
        BY SizesAssumption
      <4> QED BY <4>1, <4>2 DEF Loaded, HasSounds, HasModels, ListsOfOneLevel
    <3>2. CASE e.next # 0
      BY <1>0, <1>1, <1>5, <1>g, <3>2 DEF ListsInv, ListsOfOneLevel, TypeOK
    <3> QED BY <3>1, <3>2
  <2> QED BY <1>0, <1>5, <1>13, <2>1, <2>2, <2>3 DEF ListsInv
<1> QED BY <1>5, <1>14 DEF SignonInv

(* Nothing is taken, and the order stays.                                  *)
LEMMA SameKeeps ==
    ASSUME SignonInv, TypeOK', Same(Down, Down'), Same(Up, Up'),
           reliable_datagram = <<>> \/ ToSet(Early') \subseteq ToSet(Early),
           UNCHANGED <<spawncount, state, prespawned, spawned, inGame, kicked,
                       reliable_datagram, cstate, lists, connecting, dropping, remote>>,
           state = "zombie" => sv_inbox' = <<>>,
           cstate = "disconnected" /\ connecting =>
              /\ stuff' = <<>> \/ executing'
              /\ cl_inbox' # <<>> => Head(cl_inbox').op = "serverdata"
    PROVE  SignonInv'
<1>0. TypeOK /\ LevelsInv /\ OneConversation /\ ReconnectInv /\ ListsInv /\ StagesInv /\ KeptInv
  BY DEF SignonInv
<1>1. Less(Down, Down') /\ Less(Up, Up') /\ servercount' = servercount
  BY ShapesAreLess DEF lists
<1>2. LevelsInv' /\ OneConversation'
  BY <1>0, <1>1, LessKeeps
<1>3. ReconnectInv'
  BY <1>0, <1>1 DEF ReconnectInv, Same
<1>4. ListsInv'
  BY <1>0, ListsKept DEF Same, lists
<1>5. StagesInv'
  <2>1. /\ (\E m \in ToSet(Down') : m.op = "cmd spawn") \/ (\E d \in ToSet(Up') : d.op = "spawn")
             => prespawned'
        /\ (\E m \in ToSet(Down') : m.op = "skins") \/ (\E d \in ToSet(Up') : d.op = "begin")
             => spawned'
    BY <1>0, AllowedKept DEF Same
  <2> QED BY <1>0, <2>1 DEF StagesInv
<1>6. KeptInv'
  <2>1. \A k : Warned(k)' <=> Warned(k)
    BY DEF Warned, Same
  <2> QED BY <1>0, <2>1 DEF KeptInv, Same
<1> QED BY <1>2, <1>3, <1>4, <1>5, <1>6 DEF SignonInv

LEMMA ParseStuffStep ==
    ASSUME SignonInv, TypeOK',
           NEW op \in {"changing", "reconnect", "skins", "cmd prespawn", "cmd spawn"},
           CL_ParseStuff(op)
    PROVE  SignonInv'
<1>0. TypeOK /\ StagesInv
  BY DEF SignonInv
<1>1. /\ UNCHANGED <<spawncount, state, prespawned, spawned, inGame, kicked,
                     reliable_datagram, sv_flight, sv_inbox, cl_flight, executing,
                     connecting, dropping, remote, cstate, lists, cl_message>>
      /\ cl_inbox # <<>> /\ Head(cl_inbox).op = op
  BY MessageFrame DEF CL_ParseStuff
<1>2. Same(Down, Down')
  <2>1. op \in {m.op : m \in Stuffed}
    <3>1. servercount \in 0..MaxLevels /\ 0 \in Nat
      BY <1>0, PresentLevel
    <3>2. Message(op, servercount, 0) \in Stuffed
      BY <3>1, NewMessages
    <3>3. Message(op, servercount, 0).op = op
      BY DEF Message
    <3> QED BY <3>2, <3>3
  <2> QED BY <1>0, <2>1, ParseStuffShape
<1>3. Same(Up, Up')
  BY <1>1 DEF Same, Up
<1>4. ToSet(Early') \subseteq ToSet(Early)
  <2>1. Head(cl_inbox) \in Stuffed
    <3>1. Head(cl_inbox) \in Messages
      BY <1>0, <1>1, MessageTaken
    <3> QED BY <1>1, <3>1 DEF Messages, Stuffed
  <2>2. Starts(cl_inbox, Head(cl_inbox), cl_inbox')
    BY <1>0, MessageTaken DEF CL_ParseStuff, Next_Message
  <2>3. Adds(stuff, Head(cl_inbox), stuff')
    BY <1>0, <2>1, AppendFacts DEF CL_ParseStuff, TypeOK
  <2>4. /\ stuff' \in Seq(Messages) /\ cl_inbox' \in Seq(Messages)
        /\ sv_flight' \in Seq(Messages)
    BY StuffedAreMessages DEF TypeOK
  <2>5. InThree(Messages, Early', stuff', cl_inbox', sv_flight')
    BY <2>4, ThreeParts DEF Early
  <2>6. ToSet(Early') = ToSet(stuff') \cup ToSet(cl_inbox') \cup ToSet(sv_flight')
    BY <2>5, NoneFacts DEF InThree, InParts
  <2>7. ToSet(Early) = ToSet(stuff) \cup ToSet(cl_inbox) \cup ToSet(sv_flight)
    BY <1>0, EarlyFacts
  <2> QED BY <1>1, <2>2, <2>3, <2>6, <2>7 DEF Starts, Adds
<1>5. ~(cstate = "disconnected" /\ connecting) /\ (state = "zombie" => sv_inbox' = <<>>)
  BY <1>0, <1>1 DEF StagesInv
<1> QED BY <1>1, <1>2, <1>3, <1>4, <1>5, SameKeeps

LEMMA StartsLeavesOut ==
    ASSUME NEW s, NEW h, NEW t, Starts(s, h, t)
    PROVE  LeavesOut(s, h, t)
BY DEF Starts, LeavesOut, Less

(* The client is told of a level, perhaps the one it has.  What was for an *)
(* earlier one is gone, and what is for this one is a beginning.           *)
LEMMA ServerDataStep ==
    ASSUME SignonInv, TypeOK', CL_ParseServerData
    PROVE  SignonInv'
<1> DEFINE e == Head(cl_inbox)
           level == e.level
           c == Command("soundlist", level, 0)
           one == <<c>> none == <<>>
           kept == sv_inbox \o cl_flight
<1>0. /\ TypeOK /\ LevelsInv /\ OneConversation /\ ReconnectInv
      /\ ListsInv /\ StagesInv /\ KeptInv
  BY DEF SignonInv
<1>1. /\ Next_Message("serverdata") /\ stuff = <<>> /\ UNCHANGED stuff
      /\ servercount' = level /\ cl_message' = one /\ cstate' = "onserver" /\ NoLists
  BY DEF CL_ParseServerData
<1>2. /\ UNCHANGED <<spawncount, state, prespawned, spawned, inGame, kicked,
                     reliable_datagram, sv_flight, sv_inbox, cl_flight, executing,
                     connecting, dropping, remote>>
      /\ cl_inbox # <<>> /\ e.op = "serverdata"
  BY <1>1, MessageFrame
<1>3. Starts(Down, e, Down')
  BY <1>0, <1>1, MessageShape
<1>4. /\ ToSet(Down) = {e} \cup ToSet(Down')
      /\ \A a, k : Before(Down', a, k) => Before(Down, a, k)
      /\ \A k \in ToSet(Down') : Before(Down, e, k)
  BY <1>3 DEF Starts
<1>5. /\ servercount \in Nat /\ spawncount \in Nat /\ level \in Nat
      /\ \A k \in ToSet(Down) : k.level \in Nat
      /\ \A d \in ToSet(Up) : d.level \in Nat
  BY <1>0, <1>4, OnTheWay
<1>6. servercount <= level /\ level <= spawncount /\ level # 0
  BY <1>0, <1>4, <1>5 DEF LevelsInv
<1>7. /\ c \in Commands /\ c.level = level /\ c.op = "soundlist" /\ c.n = 0
  <2>1. level \in 0..MaxLevels
    BY <1>0, <1>4, OnTheWay, LevelsTyped
  <2> QED BY <2>1, NewCommands DEF Command
<1> HIDE DEF c
<1>8. Less(Up, kept) /\ Adds(kept, c, Up')
  <2>1. one \in Seq(Commands) /\ sv_inbox \in Seq(Commands) /\ cl_flight \in Seq(Commands)
    BY <1>0, <1>7 DEF TypeOK
  <2>2. kept \in Seq(Commands)
    BY <2>1, ConcatProperties
  <2>3. Up' = kept \o one /\ Up = kept \o cl_message
    BY <1>1, <1>2 DEF Up
  <2> HIDE DEF kept
  <2>4. Up' = Append(kept, c)
    BY <1>7, <2>2, <2>3, AppendIsConcat
  <2>5. Adds(kept, c, Up')
    BY <1>7, <2>2, <2>4, AppendFacts
  <2>6. Less(Up, kept)
    <3>1. cl_message \in Seq(Commands)
      BY <1>0 DEF TypeOK
    <3>2. /\ ToSet(kept \o cl_message) = ToSet(kept) \cup ToSet(cl_message)
          /\ \A m, k : Before(kept \o cl_message, m, k) <=>
                \/ Before(kept, m, k) \/ Before(cl_message, m, k)
                \/ m \in ToSet(kept) /\ k \in ToSet(cl_message)
      BY <2>2, <3>1, ConcatFacts
    <3> QED BY <2>3, <3>2 DEF Less
  <2> QED BY <2>5, <2>6
<1> HIDE DEF kept, one
<1>9. /\ ToSet(kept) \subseteq ToSet(Up) /\ ToSet(Up') = ToSet(kept) \cup {c}
      /\ \A d, g : Before(Up', d, g) => Before(kept, d, g) \/ (d \in ToSet(kept) /\ g = c)
      /\ \A d, g : Before(kept, d, g) => Before(Up, d, g)
  BY <1>8 DEF Less, Adds
<1>e. e \in ToSet(Down)
  BY <1>4
<1> HIDE DEF e, level
<1>10. \A k \in ToSet(Down') : IsReply(k) => k.level = level /\ servercount = level
  <2> SUFFICES ASSUME NEW k \in ToSet(Down'), IsReply(k)
               PROVE  k.level = level /\ servercount = level
    OBVIOUS
  <2>1. k.level = servercount /\ e.level <= k.level
    BY <1>0, <1>4 DEF LevelsInv
  <2> QED BY <1>5, <1>6, <2>1 DEF level
<1>11. \A d \in ToSet(kept) : Asks(d, level) => servercount = level
  <2> SUFFICES ASSUME NEW d \in ToSet(kept), Asks(d, level) PROVE servercount = level
    OBVIOUS
  <2>1. d.level \in 1..servercount /\ d.level = level
    BY <1>0, <1>9 DEF LevelsInv, Asks
  <2> QED BY <1>5, <1>6, <2>1
<1>12. servercount = level =>
          /\ \A k \in ToSet(Down) : IsReply(k) => IsFirst(k)
          /\ \A d \in ToSet(Up) : Asks(d, level) => AsksFirst(d)
  <2> SUFFICES ASSUME servercount = level
               PROVE  /\ \A k \in ToSet(Down) : IsReply(k) => IsFirst(k)
                      /\ \A d \in ToSet(Up) : Asks(d, level) => AsksFirst(d)
    OBVIOUS
  <2>1. e.op = "serverdata" /\ e.level = servercount
    BY <1>2 DEF level
  <2> QED BY <1>0, <1>e, <2>1 DEF OneConversation
<1>13. LevelsInv'
  <2>1. servercount' <= spawncount'
    BY <1>1, <1>2, <1>6
  <2>2. ASSUME NEW k \in ToSet(Down')
        PROVE  /\ k.level \in servercount'..spawncount' /\ k.level # 0
               /\ IsReply(k) => k.level = servercount'
               /\ k.op = "changing" => k.level # servercount'
    <3>1. k \in ToSet(Down) /\ Before(Down, e, k)
      BY <1>4
    <3>2. /\ k.level <= spawncount /\ k.level # 0 /\ level <= k.level
          /\ k.op = "changing" => k.level # level
      BY <1>0, <1>2, <1>e, <1>5, <3>1 DEF LevelsInv, level
    <3> QED BY <1>1, <1>2, <1>5, <1>10, <3>1, <3>2
  <2>3. ASSUME NEW a \in ToSet(Down'), NEW k \in ToSet(Down'), Before(Down', a, k)
        PROVE  /\ a.level <= k.level
               /\ a.op = "serverdata" /\ k.op = "changing" => a.level # k.level
    BY <1>0, <1>4, <2>3 DEF LevelsInv
  <2>4. ASSUME NEW d \in ToSet(Up'), d.op # "new" PROVE d.level \in 1..servercount'
    <3>1. CASE d \in ToSet(kept)
      <4>1. d.level \in 1..servercount
        BY <1>0, <1>9, <2>4, <3>1 DEF LevelsInv
      <4> QED BY <1>1, <1>5, <1>6, <4>1
    <3>2. CASE d = c
      BY <1>1, <1>5, <1>6, <1>7, <3>2
    <3> QED BY <1>9, <3>1, <3>2
  <2> QED BY <2>1, <2>2, <2>3, <2>4 DEF LevelsInv
<1>14. ASSUME NEW d \in ToSet(Up'), Asks(d, level) PROVE AsksFirst(d)
  BY <1>7, <1>9, <1>11, <1>12, <1>14 DEF AsksFirst
<1>15. OneConversation'
  <2>1. ASSUME NEW k \in ToSet(Down'), k.op = "serverdata", k.level = servercount'
        PROVE  /\ \A a \in ToSet(Down') : IsReply(a) => IsFirst(a) /\ ~Before(Down', a, k)
               /\ \A d \in ToSet(Up') : Asks(d, servercount') => AsksFirst(d)
    <3>1. ASSUME NEW a \in ToSet(Down'), IsReply(a) PROVE IsFirst(a) /\ ~Before(Down', a, k)
      <4>1. servercount = level /\ a \in ToSet(Down) /\ k \in ToSet(Down) /\ k.level = servercount
        BY <1>1, <1>4, <1>10, <2>1, <3>1
      <4>2. IsFirst(a) /\ ~Before(Down, a, k)
        BY <1>0, <2>1, <3>1, <4>1 DEF OneConversation
      <4> QED BY <1>4, <4>2
    <3> QED BY <1>1, <1>14, <3>1
  <2>2. ASSUME servercount' = spawncount', NEW g \in ToSet(Up'), Restarts(g)'
        PROVE  /\ \A a \in ToSet(Down') : ~IsReply(a)
               /\ \A d \in ToSet(Up') :
                     Asks(d, servercount') => AsksFirst(d) /\ ~Before(Up', d, g)
    <3>1. level = spawncount /\ Restarts(g)
      BY <1>1, <1>2, <2>2 DEF Restarts
    <3>2. g # c /\ g \in ToSet(kept) /\ g \in ToSet(Up)
      BY <1>7, <1>9, <3>1 DEF Restarts
    <3>3. servercount = level =>
             /\ \A a \in ToSet(Down) : ~IsReply(a)
             /\ \A d \in ToSet(Up) : Asks(d, level) => ~Before(Up, d, g)
      BY <1>0, <3>1, <3>2 DEF OneConversation
    <3>4. \A a \in ToSet(Down') : ~IsReply(a)
      BY <1>4, <1>10, <3>3
    <3>5. ASSUME NEW d \in ToSet(Up'), Asks(d, level), Before(Up', d, g) PROVE FALSE
      <4>1. Before(kept, d, g)
        BY <1>9, <3>2, <3>5
      <4>2. d \in ToSet(kept) /\ d \in ToSet(Up) /\ Before(Up, d, g)
        BY <1>9, <4>1, BeforeIn
      <4> QED BY <1>11, <3>3, <3>5, <4>2
    <3> QED BY <1>1, <1>14, <3>4, <3>5
  <2> QED BY <2>1, <2>2 DEF OneConversation
<1>16. ReconnectInv'
  <2>1. ToSet(Early') \subseteq ToSet(Early)
    BY <1>0, <1>1, EarlyTaken
  <2>2. reliable_datagram # <<>> => level # spawncount
    <3>1. e \in ToSet(Early)
      <4>1. e \in ToSet(cl_inbox)
        BY <1>0, <1>2, MessageTaken DEF Starts, e
      <4> QED BY <1>0, <4>1, EarlyFacts
    <3> QED BY <1>0, <1>2, <3>1 DEF ReconnectInv, level
  <2> QED BY <1>0, <1>1, <1>2, <2>1, <2>2 DEF ReconnectInv
<1>17. HasSounds(0)' /\ 0 < SoundChunks
  BY SizesAssumption DEF HasSounds
<1>18. ListsInv'
  <2>1. ListsOfOneLevel'
    BY <1>1 DEF NoLists, ListsOfOneLevel
  <2>2. ASSUME NEW k \in ToSet(Down') PROVE ToldInOrder(k)'
    <3>1. CASE IsReply(k)
      <4>1. IsFirst(k) /\ ToldInOrder(k)
        BY <1>0, <1>4, <1>10, <1>12, <3>1 DEF ListsInv
      <4> QED BY <1>17, <4>1 DEF IsFirst, ToldInOrder
    <3>2. CASE ~IsReply(k)
      BY <3>2 DEF ToldInOrder, IsReply, Replies
    <3> QED BY <3>1, <3>2
  <2>3. ASSUME NEW d \in ToSet(Up') PROVE AskedInOrder(d)'
    <3>1. d.op = "prespawn" =>
            (d.n = 0 /\ d.check = d.level) \/ d.n \in 1..(SignonBuffers - 1)
      BY <1>0, <1>7, <1>9 DEF ListsInv, AskedInOrder
    <3>2. d.level = servercount' /\ d.op # "new" => d.op = "soundlist" /\ d.n = 0
      BY <1>1, <1>14 DEF Asks, AsksFirst
    <3> QED BY <1>17, <3>1, <3>2 DEF AskedInOrder
  <2> QED BY <2>1, <2>2, <2>3 DEF ListsInv
<1>19. StagesInv'
  <2>1. /\ (\E m \in ToSet(Down') : m.op = "cmd spawn") \/ (\E d \in ToSet(Up') : d.op = "spawn")
             => prespawned'
        /\ (\E m \in ToSet(Down') : m.op = "skins") \/ (\E d \in ToSet(Up') : d.op = "begin")
             => spawned'
    BY <1>0, <1>2, <1>4, <1>7, <1>9, AllowedKept
  <2> QED BY <1>0, <1>1, <1>2, <2>1 DEF StagesInv
<1>20. KeptInv'
  <2>1. LeavesOut(Down, e, Down')
    BY <1>3, StartsLeavesOut DEF e
  <2> QED BY <1>0, <1>1, <1>2, <1>4, <2>1, KeptLess
<1> QED BY <1>13, <1>15, <1>16, <1>18, <1>19, <1>20 DEF SignonInv

LEMMA EarlyParts ==
    /\ TypeOK => ToSet(Early) = ToSet(stuff) \cup ToSet(cl_inbox) \cup ToSet(sv_flight)
    /\ TypeOK' => ToSet(Early') = ToSet(stuff') \cup ToSet(cl_inbox') \cup ToSet(sv_flight')
<1>1. ASSUME TypeOK'
      PROVE  ToSet(Early') = ToSet(stuff') \cup ToSet(cl_inbox') \cup ToSet(sv_flight')
  <2>1. /\ stuff' \in Seq(Messages) /\ cl_inbox' \in Seq(Messages)
        /\ sv_flight' \in Seq(Messages)
    BY <1>1, StuffedAreMessages DEF TypeOK
  <2>2. InThree(Messages, Early', stuff', cl_inbox', sv_flight')
    BY <2>1, ThreeParts DEF Early
  <2> QED BY <2>2, NoneFacts DEF InThree, InParts
<1> QED BY <1>1, EarlyFacts

(* The client gives up the connection, or hears that the server has.       *)
LEMMA GoneKeeps ==
    ASSUME SignonInv, TypeOK', Less(Down, Down'), Up' = Up,
           ToSet(Early') \subseteq ToSet(Early),
           UNCHANGED <<spawncount, state, prespawned, spawned, inGame, kicked,
                       reliable_datagram, sv_inbox, lists, remote>>,
           cstate' = "disconnected", connecting' = FALSE, remote
    PROVE  SignonInv'
<1>0. TypeOK /\ LevelsInv /\ OneConversation /\ ReconnectInv /\ ListsInv /\ StagesInv /\ KeptInv
  BY DEF SignonInv
<1>1. UNCHANGED <<servercount, worldmodel, sounds, models>> /\ Less(Up, Up')
  BY ShapesAreLess DEF lists
<1>2. LevelsInv' /\ OneConversation'
  BY <1>0, <1>1, LessKeeps
<1>3. ToSet(Down') \subseteq ToSet(Down) /\ ToSet(Up') \subseteq ToSet(Up)
  BY <1>1 DEF Less
<1>4. ReconnectInv'
  BY <1>0, <1>1, <1>3, ReconnectLess
<1>5. ListsInv'
  BY <1>0, <1>1, <1>3, ListsKept
<1>6. StagesInv'
  <2>1. /\ (\E m \in ToSet(Down') : m.op = "cmd spawn") \/ (\E d \in ToSet(Up') : d.op = "spawn")
             => prespawned'
        /\ (\E m \in ToSet(Down') : m.op = "skins") \/ (\E d \in ToSet(Up') : d.op = "begin")
             => spawned'
    BY <1>0, <1>3, AllowedKept
  <2> QED BY <1>0, <2>1 DEF StagesInv
<1>7. KeptInv'
  BY DEF KeptInv
<1> QED BY <1>2, <1>4, <1>5, <1>6, <1>7 DEF SignonInv

LEMMA DisconnectStep ==
    ASSUME SignonInv, TypeOK', CL_ParseDisconnect
    PROVE  SignonInv'
<1> DEFINE none == <<>>
<1>0. TypeOK /\ KeptInv
  BY DEF SignonInv
<1>1. /\ UNCHANGED <<spawncount, state, prespawned, spawned, inGame, kicked,
                     reliable_datagram, sv_message, sv_flight, sv_inbox, cl_message,
                     cl_flight, lists, stuff, remote>>
      /\ cl_inbox # <<>> /\ Head(cl_inbox).op = "disconnect" /\ cl_inbox' = none
      /\ cstate' = "disconnected" /\ connecting' = FALSE
  BY DEF CL_ParseDisconnect, server, toServer
<1>2. ToSet(none) = {} /\ \A m, k : ~Before(none, m, k)
  BY NoneFacts
<1> HIDE DEF none
<1>3. InParts(Messages, Down, stuff, cl_inbox, sv_flight, sv_message)
      /\ InParts(Messages, Down', stuff, none, sv_flight, sv_message)
  BY <1>0, <1>1, DownParts
<1>4. Less(Down, Down')
  BY <1>2, <1>3 DEF InParts, Less
<1>5. ToSet(Early') \subseteq ToSet(Early)
  BY <1>0, <1>1, <1>2, EarlyParts
<1>6. Head(cl_inbox) \in ToSet(Down)
  BY <1>0, <1>1, <1>3, MessageTaken DEF Starts, InParts
<1>7. remote
  BY <1>0, <1>1, <1>6 DEF KeptInv
<1>8. Up' = Up
  BY <1>1 DEF Up
<1> QED BY <1>1, <1>4, <1>5, <1>7, <1>8, GoneKeeps

(* The commands of cl_stbuf: what comes first of all that is on the way.   *)
LEMMA StuffedFrame ==
    ASSUME TypeOK, TypeOK', NEW op, Next_Stuffed(op)
    PROVE  /\ UNCHANGED <<spawncount, state, prespawned, spawned, inGame, kicked,
                          reliable_datagram, sv_message, sv_flight, cl_inbox, cl_flight,
                          sv_inbox, servercount, worldmodel, sounds, models, remote>>
           /\ Head(stuff) \in Stuffed /\ Head(stuff).op = op
           /\ Starts(Down, Head(stuff), Down') /\ ToSet(Early') \subseteq ToSet(Early)
           /\ stuff' = <<>> \/ executing'
           /\ cl_inbox # <<>> => Head(cl_inbox).op = "serverdata"
<1>1. /\ UNCHANGED <<spawncount, state, prespawned, spawned, inGame, kicked,
                     reliable_datagram, sv_message, sv_flight, cl_inbox, cl_flight,
                     sv_inbox, servercount, worldmodel, sounds, models, remote>>
      /\ cl_inbox # <<>> => Head(cl_inbox).op = "serverdata"
  BY DEF Next_Stuffed, server, toClient, lists
<1>2. stuff' = <<>> \/ executing'
  BY Zenon DEF Next_Stuffed
<1>3. /\ Head(stuff) \in Stuffed /\ Head(stuff).op = op
      /\ Starts(stuff, Head(stuff), stuff')
  BY StuffTaken
<1>4. ToSet(Early') \subseteq ToSet(Early)
  BY <1>1, <1>3, EarlyParts DEF Starts
<1> QED BY <1>1, <1>2, <1>3, <1>4, StuffShape

LEMMA StuffedStages ==
    ASSUME TypeOK, TypeOK', StagesInv, NEW op, Next_Stuffed(op),
           \A c \in ToSet(Up') : \/ c \in ToSet(Up)
                                 \/ /\ c.op = "spawn" => prespawned
                                    /\ c.op = "begin" => spawned
    PROVE  StagesInv'
<1>1. /\ UNCHANGED <<spawncount, state, prespawned, spawned, inGame, kicked, cl_inbox, sv_inbox>>
      /\ Starts(Down, Head(stuff), Down')
      /\ stuff' = <<>> \/ executing'
      /\ cl_inbox # <<>> => Head(cl_inbox).op = "serverdata"
  BY StuffedFrame
<1>2. /\ (\E m \in ToSet(Down') : m.op = "cmd spawn") \/ (\E d \in ToSet(Up') : d.op = "spawn")
           => prespawned'
      /\ (\E m \in ToSet(Down') : m.op = "skins") \/ (\E d \in ToSet(Up') : d.op = "begin")
           => spawned'
  BY <1>1, AllowedKept DEF Starts
<1> QED BY <1>1, <1>2 DEF StagesInv

LEMMA ChangingStep ==
    ASSUME SignonInv, TypeOK', CL_Changing_f
    PROVE  SignonInv'
<1>e. PICK e : e = Head(stuff)
  OBVIOUS
<1>0. TypeOK /\ LevelsInv /\ OneConversation /\ ReconnectInv /\ ListsInv /\ StagesInv /\ KeptInv
  BY DEF SignonInv
<1>1. /\ Next_Stuffed("changing") /\ cstate' = "connected"
      /\ UNCHANGED <<connecting, dropping, cl_message>>
  BY DEF CL_Changing_f
<1>2. /\ UNCHANGED <<spawncount, state, reliable_datagram, cl_flight, sv_inbox, servercount,
                     worldmodel, sounds, models, remote>>
      /\ e.op = "changing"
      /\ Starts(Down, e, Down') /\ ToSet(Early') \subseteq ToSet(Early)
  BY <1>0, <1>1, <1>e, StuffedFrame
<1>3. Up' = Up
  BY <1>1, <1>2 DEF Up
<1>4. Less(Down, Down') /\ Less(Up, Up')
  BY <1>2, <1>3, ShapesAreLess
<1>5. /\ ToSet(Down) = {e} \cup ToSet(Down')
      /\ \A a, k : Before(Down, a, k) <=> Before(Down', a, k) \/ (a = e /\ k \in ToSet(Down'))
  BY <1>2 DEF Starts
<1>6. LevelsInv' /\ OneConversation'
  BY <1>0, <1>2, <1>4, LessKeeps
<1>7. \A k \in ToSet(Down') : e.level <= k.level /\ servercount <= e.level /\ e.level # servercount
                              /\ servercount \in Nat /\ e.level \in Nat /\ k.level \in Nat
  <2> SUFFICES ASSUME NEW k \in ToSet(Down')
               PROVE  e.level <= k.level /\ servercount <= e.level /\ e.level # servercount
                      /\ servercount \in Nat /\ e.level \in Nat /\ k.level \in Nat
    OBVIOUS
  <2>1. servercount \in Nat /\ spawncount \in Nat /\ e.level \in Nat /\ k.level \in Nat
    BY <1>0, <1>5, OnTheWay
  <2>2. Before(Down, e, k) /\ e \in ToSet(Down) /\ k \in ToSet(Down)
    BY <1>5
  <2> QED BY <1>0, <1>2, <2>1, <2>2 DEF LevelsInv
<1>8. ReconnectInv'
  BY <1>0, <1>2, <1>5, <1>7 DEF ReconnectInv
<1>9. ListsInv'
  BY <1>0, <1>2, <1>3, <1>5, ListsKept
<1>10. StagesInv'
  BY <1>0, <1>1, <1>3, StuffedStages
<1>11. KeptInv'
  <2> SUFFICES ASSUME ~remote PROVE KeptInv'
    BY <1>2 DEF KeptInv
  <2>1. ASSUME NEW k \in ToSet(Down'), k.op = "reconnect"
        PROVE  /\ Warned(k)'
               /\ \A a \in ToSet(Down') :
                     Before(Down', a, k) /\ a.level = k.level => a.op = "changing"
    <3>1. /\ Warned(k) /\ k \in ToSet(Down)
          /\ \A a \in ToSet(Down) : Before(Down, a, k) /\ a.level = k.level => a.op = "changing"
      BY <1>0, <1>5, <2>1 DEF KeptInv
    <3>2. CASE \E a \in ToSet(Down) : a.op = "changing" /\ a.level = k.level /\ Before(Down, a, k)
      <4>1. PICK a \in ToSet(Down) :
              a.op = "changing" /\ a.level = k.level /\ Before(Down, a, k)
        BY <3>2
      <4>2. CASE Before(Down', a, k)
        <5>1. a \in ToSet(Down')
          BY <4>2, BeforeIn
        <5> QED BY <1>5, <3>1, <4>1, <4>2, <5>1 DEF Warned
      <4>3. CASE a = e
        <5>1. \A m \in ToSet(Down') : m.level >= k.level
          BY <1>7, <4>1, <4>3
        <5> QED BY <1>1, <1>5, <3>1, <5>1 DEF Warned
      <4> QED BY <1>5, <4>1, <4>2, <4>3
    <3>3. CASE cstate = "connected" /\ \A a \in ToSet(Down) : a.level >= k.level
      BY <1>1, <1>5, <3>1, <3>3 DEF Warned
    <3> QED BY <3>1, <3>2, <3>3 DEF Warned
  <2> QED BY <1>0, <1>1, <1>2, <1>5, <2>1 DEF KeptInv
<1> QED BY <1>6, <1>8, <1>9, <1>10, <1>11 DEF SignonInv

(* A stuffed command that comes from a reply makes the client ask for the  *)
(* next thing, unless it is not connected or has begun already.            *)
LEMMA ReplyExecuted ==
    ASSUME SignonInv, TypeOK', NEW op \in {"skins", "cmd prespawn", "cmd spawn"},
           Next_Stuffed(op), UNCHANGED <<connecting, dropping>>,
           \/ UNCHANGED <<cstate, cl_message>>
           \/ \E c \in Commands :
                 /\ Request(c) /\ c.level = servercount /\ c.op # "new" /\ AskedInOrder(c)
                 /\ c.op = "spawn" => prespawned
                 /\ c.op = "begin" => spawned
                 /\ cstate' \in {cstate, "active"}
    PROVE  SignonInv'
<1>e. PICK e : e = Head(stuff)
  OBVIOUS
<1>0. TypeOK /\ LevelsInv /\ OneConversation /\ ReconnectInv /\ ListsInv /\ StagesInv /\ KeptInv
  BY DEF SignonInv
<1>1. /\ UNCHANGED <<spawncount, state, reliable_datagram, cl_flight, sv_inbox, servercount,
                     worldmodel, sounds, models, remote>>
      /\ e.op = op
      /\ Starts(Down, e, Down') /\ ToSet(Early') \subseteq ToSet(Early)
  BY <1>0, <1>e, StuffedFrame
<1>2. Less(Down, Down') /\ LeavesOut(Down, e, Down') /\ Less(Up, Up)
  BY <1>1, ShapesAreLess, StartsLeavesOut
<1>3. /\ ToSet(Down') \subseteq ToSet(Down) /\ e \in ToSet(Down)
      /\ \A k \in ToSet(Down') : Before(Down, e, k)
  BY <1>1 DEF Starts
<1>4. /\ LevelsInv' /\ OneConversation'
      /\ \A c \in ToSet(Up') : \/ c \in ToSet(Up)
                               \/ /\ AskedInOrder(c)
                                  /\ c.op = "spawn" => prespawned
                                  /\ c.op = "begin" => spawned
      /\ cstate' \in {cstate, "active"}
  <2>1. CASE UNCHANGED <<cstate, cl_message>>
    <3>1. Up' = Up
      BY <1>1, <2>1 DEF Up
    <3>2. LevelsInv' /\ OneConversation'
      BY <1>0, <1>1, <1>2, <3>1, LessKeeps
    <3> QED BY <2>1, <3>1, <3>2
  <2>2. ASSUME NEW c \in Commands, Request(c), c.level = servercount, c.op # "new",
               AskedInOrder(c), c.op = "spawn" => prespawned, c.op = "begin" => spawned,
               cstate' \in {cstate, "active"}
        PROVE  /\ LevelsInv' /\ OneConversation'
               /\ \A d \in ToSet(Up') : \/ d \in ToSet(Up)
                                        \/ /\ AskedInOrder(d)
                                           /\ d.op = "spawn" => prespawned
                                           /\ d.op = "begin" => spawned
    <3>1. Adds(Up, c, Up')
      BY <1>0, <1>1, <2>2, RequestShape
    <3>2. IsReply(e)
      BY <1>1 DEF IsReply, Replies
    <3>3. LevelsInv' /\ OneConversation'
      BY <1>0, <1>1, <1>2, <1>3, <2>2, <3>1, <3>2, RequestKeeps
    <3>4. ToSet(Up') = ToSet(Up) \cup {c}
      BY <3>1 DEF Adds
    <3> QED BY <2>2, <3>3, <3>4
  <2> QED BY <2>1, <2>2
<1>5. ReconnectInv'
  <2>1. cstate' = "connected" => cstate = "connected"
    BY <1>4
  <2> QED BY <1>0, <1>1, <1>3, <2>1, ReconnectLess
<1>6. ListsInv'
  BY <1>0, <1>1, <1>3, <1>4, ListsKept
<1>7. StagesInv'
  BY <1>0, <1>4, StuffedStages
<1>8. KeptInv'
  <2>1. ~remote => cstate' # "disconnected"
    BY <1>0, <1>4 DEF KeptInv
  <2>2. e.op \notin {"changing", "reconnect"}
    BY <1>1
  <2> QED BY <1>0, <1>1, <1>2, <1>3, <2>1, <2>2, KeptLess
<1> QED BY <1>4, <1>5, <1>6, <1>7, <1>8 DEF SignonInv

LEMMA SkinsStep ==
    ASSUME SignonInv, TypeOK', CL_Skins_f
    PROVE  SignonInv'
<1>c. PICK c : c = Command("begin", servercount, 0)
  OBVIOUS
<1>0. TypeOK /\ LevelsInv /\ ListsInv /\ StagesInv
  BY DEF SignonInv
<1>1. Next_Stuffed("skins") /\ UNCHANGED <<connecting, dropping>>
  BY DEF CL_Skins_f
<1>2. \/ UNCHANGED <<cstate, cl_message>>
      \/ cstate' = "active" /\ Request(c)
  BY <1>c DEF CL_Skins_f
<1>3. Head(stuff) \in ToSet(Down) /\ Head(stuff).op = "skins"
  BY <1>0, <1>1, StuffedFrame DEF Starts
<1>4. Loaded /\ spawned
  BY <1>0, <1>3 DEF ListsInv, ToldInOrder, StagesInv
<1>5. c \in Commands
  BY <1>0, <1>c, NewCommands, PresentLevel
<1>6. c.op = "begin" /\ c.level = servercount
  BY <1>c DEF Command
<1>7. AskedInOrder(c)
  BY <1>4, <1>6 DEF AskedInOrder
<1>8. \/ UNCHANGED <<cstate, cl_message>>
      \/ \E d \in Commands :
            /\ Request(d) /\ d.level = servercount /\ d.op # "new" /\ AskedInOrder(d)
            /\ d.op = "spawn" => prespawned
            /\ d.op = "begin" => spawned
            /\ cstate' \in {cstate, "active"}
  BY <1>2, <1>4, <1>5, <1>6, <1>7
<1> QED BY <1>1, <1>8, ReplyExecuted

LEMMA ForwardStep ==
    ASSUME SignonInv, TypeOK', CL_Cmd_ForwardToServer_f
    PROVE  SignonInv'
<1>e. PICK e : e = Head(stuff)
  OBVIOUS
<1>0. TypeOK /\ LevelsInv /\ ListsInv /\ StagesInv
  BY DEF SignonInv
<1>1. PICK op \in {"prespawn", "spawn"} :
        /\ Next_Stuffed(Forwarded[op])
        /\ cl_message' = cl_message \/ Request(Command(op, e.level, e.n))
        /\ UNCHANGED <<cstate, connecting, dropping>>
  BY <1>e DEF CL_Cmd_ForwardToServer_f, Forwarded
<1>c. PICK c : c = Command(op, e.level, e.n)
  OBVIOUS
<1>2. PICK word \in {"cmd prespawn", "cmd spawn"} :
        /\ word = Forwarded[op]
        /\ op = "prespawn" => word = "cmd prespawn"
        /\ op = "spawn" => word = "cmd spawn"
  <2>1. Forwarded["prespawn"] = "cmd prespawn" /\ Forwarded["spawn"] = "cmd spawn"
    BY DEF Forwarded
  <2>2. op = "prespawn" \/ op = "spawn"
    OBVIOUS
  <2>3. "prespawn" # "spawn"
    OBVIOUS
  <2> QED BY <2>1, <2>2, <2>3
<1>3. Next_Stuffed(word)
  BY <1>1, <1>2
<1>4. e \in Stuffed /\ e.op = word /\ e \in ToSet(Down)
  BY <1>0, <1>3, <1>e, StuffedFrame DEF Starts
<1>5. IsReply(e) /\ e.level = servercount
  <2>1. IsReply(e)
    BY <1>4 DEF IsReply, Replies
  <2> QED BY <1>0, <1>4, <2>1 DEF LevelsInv
<1>6. /\ Loaded /\ (op = "spawn" => prespawned)
      /\ op = "prespawn" => e.n \in 1..(SignonBuffers - 1)
  BY <1>0, <1>1, <1>2, <1>4 DEF ListsInv, ToldInOrder, StagesInv
<1>7. c \in Commands
  <2>1. e.n \in Nat /\ e.level \in 0..MaxLevels
    BY <1>4 DEF Stuffed
  <2> QED BY <1>c, <2>1, NewCommands
<1>8. c.op = op /\ c.level = servercount /\ c.n = e.n
  BY <1>5, <1>c DEF Command
<1>9. AskedInOrder(c)
  BY <1>1, <1>6, <1>8 DEF AskedInOrder
<1>10. \/ UNCHANGED <<cstate, cl_message>>
       \/ \E d \in Commands :
             /\ Request(d) /\ d.level = servercount /\ d.op # "new" /\ AskedInOrder(d)
             /\ d.op = "spawn" => prespawned
             /\ d.op = "begin" => spawned
             /\ cstate' \in {cstate, "active"}
  BY <1>1, <1>6, <1>7, <1>8, <1>9, <1>c
<1>11. word \in {"skins", "cmd prespawn", "cmd spawn"} /\ UNCHANGED <<connecting, dropping>>
  BY <1>1
<1> QED BY <1>3, <1>10, <1>11, ReplyExecuted

(* "reconnect" finds the client connected, or disconnects it: that takes a *)
(* level changed by rcon.                                                  *)
LEMMA ReconnectStep ==
    ASSUME SignonInv, TypeOK', CL_Reconnect_f
    PROVE  SignonInv'
<1>e. PICK e : e = Head(stuff)
  OBVIOUS
<1>0. TypeOK /\ LevelsInv /\ OneConversation /\ ReconnectInv /\ ListsInv /\ StagesInv /\ KeptInv
  BY DEF SignonInv
<1>1. Next_Stuffed("reconnect")
  BY DEF CL_Reconnect_f
<1>2. /\ UNCHANGED <<spawncount, state, reliable_datagram, cl_flight, sv_inbox, servercount,
                     worldmodel, sounds, models, remote>>
      /\ e.op = "reconnect"
      /\ Starts(Down, e, Down') /\ ToSet(Early') \subseteq ToSet(Early)
  BY <1>0, <1>1, <1>e, StuffedFrame
<1>3. Less(Down, Down') /\ LeavesOut(Down, e, Down') /\ Less(Up, Up)
  BY <1>2, ShapesAreLess, StartsLeavesOut
<1>4. /\ ToSet(Down') \subseteq ToSet(Down) /\ e \in ToSet(Down)
      /\ \A a, k : Before(Down, a, k) => k \in ToSet(Down')
      /\ \A k \in ToSet(Down') : Before(Down, e, k)
  <2>1. \A a, k : Before(Down', a, k) => k \in ToSet(Down')
    BY BeforeIn
  <2> QED BY <1>2, <2>1 DEF Starts
<1>5. ~remote => e \notin ToSet(Down')
  <2> SUFFICES ASSUME ~remote, e \in ToSet(Down') PROVE FALSE
    OBVIOUS
  <2>1. Before(Down, e, e)
    BY <1>4
  <2> QED BY <1>0, <1>2, <1>4, <2>1 DEF KeptInv
<1>6. CASE cstate = "connected" /\ Request(Command("new", 0, 0))
           /\ UNCHANGED <<cstate, connecting, dropping>>
  <2>c. PICK c : c = Command("new", 0, 0)
    OBVIOUS
  <2>1. c \in Commands
    <3>1. 0 \in 0..MaxLevels /\ 0 \in Nat
      BY SizesAssumption
    <3> QED BY <2>c, <3>1, NewCommands
  <2>2. c.op = "new"
    BY <2>c DEF Command
  <2>3. Adds(Up, c, Up')
    BY <1>0, <1>2, <1>6, <2>1, <2>c, RequestShape
  <2>4. ToSet(Up') = ToSet(Up) \cup {c}
    BY <2>3 DEF Adds
  <2>5. servercount # spawncount
    <3>1. servercount \in Nat /\ spawncount \in Nat /\ e.level \in Nat
      BY <1>0, <1>4, OnTheWay
    <3>2. e.level # servercount
      BY <1>0, <1>2, <1>4, <1>6 DEF ReconnectInv
    <3>3. e.level \in servercount..spawncount
      BY <1>0, <1>4 DEF LevelsInv
    <3> QED BY <3>1, <3>2, <3>3
  <2>6. LevelsInv'
    BY <1>0, <1>2, <1>3, <2>2, <2>4 DEF LevelsInv, Less
  <2>7. OneConversation'
    <3>1. ASSUME NEW k \in ToSet(Down'), k.op = "serverdata", k.level = servercount'
          PROVE  /\ \A m \in ToSet(Down') : IsReply(m) => IsFirst(m) /\ ~Before(Down', m, k)
                 /\ \A d \in ToSet(Up') : Asks(d, servercount') => AsksFirst(d)
      <4>1. \A d : Asks(d, servercount) => d.op # "new"
        BY DEF Asks
      <4> QED BY <1>0, <1>2, <1>3, <2>2, <2>4, <3>1, <4>1 DEF OneConversation, Less
    <3>2. servercount' # spawncount'
      BY <1>2, <2>5
    <3> QED BY <3>1, <3>2 DEF OneConversation
  <2>8. ReconnectInv'
    BY <1>0, <1>2, <1>4, <1>6, ReconnectLess
  <2>9. AskedInOrder(c)
    <3>1. c.op \notin {"prespawn", "soundlist", "modellist", "spawn", "begin"}
      BY <2>2
    <3> QED BY <3>1 DEF AskedInOrder
  <2>10. ListsInv'
    BY <1>0, <1>2, <1>4, <2>4, <2>9, ListsKept
  <2>11. StagesInv'
    BY <1>0, <1>1, <2>2, <2>4, StuffedStages
  <2>12. KeptInv'
    <3>1. CASE remote
      BY <1>2, <3>1 DEF KeptInv
    <3>2. CASE ~remote
      <4>1. cstate' # "disconnected" /\ cstate' = cstate
        BY <1>6
      <4> QED BY <1>0, <1>2, <1>3, <1>5, <1>6, <3>2, <4>1, KeptLess
    <3> QED BY <3>1, <3>2
  <2> QED BY <2>6, <2>7, <2>8, <2>10, <2>11, <2>12 DEF SignonInv
<1>7. CASE cstate # "connected" /\ cstate' = "disconnected" /\ UNCHANGED cl_message
  <2>1. Up' = Up
    BY <1>2, <1>7 DEF Up
  <2>2. remote
    <3> SUFFICES ASSUME ~remote PROVE FALSE
      OBVIOUS
    <3>1. Warned(e)
      BY <1>0, <1>2, <1>4 DEF KeptInv
    <3>2. PICK a \in ToSet(Down) : Before(Down, a, e)
      BY <1>7, <3>1 DEF Warned
    <3> QED BY <1>4, <1>5, <3>2
  <2>3. LevelsInv' /\ OneConversation'
    BY <1>0, <1>2, <1>3, <2>1, LessKeeps
  <2>4. ReconnectInv'
    BY <1>0, <1>2, <1>4, <1>7, ReconnectLess
  <2>5. ListsInv'
    BY <1>0, <1>2, <1>4, <2>1, ListsKept
  <2>6. StagesInv'
    BY <1>0, <1>1, <2>1, StuffedStages
  <2>7. KeptInv'
    BY <1>2, <2>2 DEF KeptInv
  <2> QED BY <2>3, <2>4, <2>5, <2>6, <2>7 DEF SignonInv
<1>8. \/ cstate = "connected" /\ Request(Command("new", 0, 0))
         /\ UNCHANGED <<cstate, connecting, dropping>>
      \/ cstate # "connected" /\ cstate' = "disconnected" /\ UNCHANGED cl_message
  BY DEF CL_Reconnect_f
<1> QED BY <1>6, <1>7, <1>8

----------------------------------------------------------------------------
(* The channel, and the end of a connection.                               *)

LEMMA ChannelStep ==
    ASSUME SignonInv, TypeOK', SV_Transmit \/ CL_Deliver \/ CL_Transmit \/ SV_Deliver
    PROVE  SignonInv'
<1>0. TypeOK /\ StagesInv
  BY DEF SignonInv
<1>1. CASE SV_Transmit
  <2>1. Same(Down, Down') /\ Up' = Up
    BY <1>0, <1>1, SV_TransmitShape
  <2>2. Same(Up, Up')
    BY <2>1 DEF Same
  <2>3. /\ reliable_datagram = <<>> /\ sv_inbox' = <<>>
        /\ UNCHANGED <<spawncount, state, prespawned, spawned, inGame, kicked,
                       reliable_datagram, cstate, lists, connecting, dropping, remote,
                       stuff, executing, cl_inbox>>
    BY <1>1 DEF SV_Transmit, Outside, client, server, toServer
  <2>4. cstate = "disconnected" /\ connecting =>
           /\ stuff' = <<>> \/ executing'
           /\ cl_inbox' # <<>> => Head(cl_inbox').op = "serverdata"
    BY <1>0, <2>3 DEF StagesInv
  <2> QED BY <2>1, <2>2, <2>3, <2>4, SameKeeps
<1>2. CASE CL_Deliver
  <2>1. Same(Down, Down') /\ Up' = Up
    BY <1>0, <1>2, CL_DeliverShape
  <2>2. Same(Up, Up')
    BY <2>1 DEF Same
  <2>3. /\ cstate # "disconnected" /\ cl_inbox = <<>> /\ cl_inbox' = sv_flight
        /\ sv_flight' = <<>>
        /\ UNCHANGED <<spawncount, state, prespawned, spawned, inGame, kicked,
                       reliable_datagram, cstate, lists, connecting, dropping, remote,
                       stuff, sv_inbox>>
    BY <1>2 DEF CL_Deliver, client, server, toServer
  <2>4. ToSet(Early') \subseteq ToSet(Early)
    <3> DEFINE none == <<>>
    <3>1. ToSet(none) = {}
      BY NoneFacts
    <3>2. cl_inbox = none /\ sv_flight' = none
      BY <2>3
    <3> HIDE DEF none
    <3> QED BY <1>0, <2>3, <3>1, <3>2, EarlyParts
  <2>5. state = "zombie" => sv_inbox' = <<>>
    BY <1>0, <2>3 DEF StagesInv
  <2> QED BY <2>1, <2>2, <2>3, <2>4, <2>5, SameKeeps
<1>3. CASE CL_Transmit \/ SV_Deliver
  <2>1. Down' = Down /\ Same(Up, Up')
    BY <1>0, <1>3, UpChannelShape
  <2>2. Same(Down, Down')
    BY <2>1 DEF Same
  <2>3. UNCHANGED <<spawncount, state, prespawned, spawned, inGame, kicked,
                    reliable_datagram, cstate, lists, connecting, dropping, remote,
                    stuff, executing, cl_inbox, sv_flight>>
    BY <1>3 DEF CL_Transmit, SV_Deliver, client, server, toClient
  <2>4. ToSet(Early') \subseteq ToSet(Early)
    BY <2>3 DEF Early
  <2>5. state = "zombie" => sv_inbox' = <<>>
    BY <1>0, <1>3 DEF CL_Transmit, SV_Deliver, StagesInv
  <2>6. cstate = "disconnected" /\ connecting =>
           /\ stuff' = <<>> \/ executing'
           /\ cl_inbox' # <<>> => Head(cl_inbox').op = "serverdata"
    BY <1>0, <2>3 DEF StagesInv
  <2> QED BY <2>1, <2>2, <2>3, <2>4, <2>5, <2>6, SameKeeps
<1> QED BY <1>1, <1>2, <1>3

LEMMA TimeOutStep ==
    ASSUME SignonInv, TypeOK', CL_TimeOut
    PROVE  SignonInv'
<1>1. /\ UNCHANGED <<spawncount, state, prespawned, spawned, inGame, kicked,
                     reliable_datagram, sv_message, sv_flight, cl_inbox, cl_message,
                     cl_flight, sv_inbox, lists, stuff, remote>>
      /\ state = "zombie" /\ cstate' = "disconnected" /\ connecting' = FALSE
  BY DEF CL_TimeOut, server, toClient, toServer
<1>2. Down' = Down /\ Up' = Up /\ Early' = Early
  BY <1>1 DEF Down, Up, Early
<1>3. Less(Down, Down') /\ ToSet(Early') \subseteq ToSet(Early)
  BY <1>2, ShapesAreLess
<1>4. remote
  BY <1>1 DEF SignonInv, KeptInv
<1> QED BY <1>1, <1>2, <1>3, <1>4, GoneKeeps

LEMMA ConnectStep ==
    ASSUME SignonInv, TypeOK', Connect
    PROVE  SignonInv'
<1> DEFINE none == <<>>
<1>c. PICK c : c = Command("new", 0, 0)
  OBVIOUS
<1> DEFINE one == <<c>>
<1>0. TypeOK /\ LevelsInv /\ ReconnectInv /\ ListsInv /\ StagesInv /\ KeptInv
  BY DEF SignonInv
<1>1. /\ cstate = "disconnected" /\ connecting /\ ~executing
      /\ state' = "connected" /\ prespawned' = FALSE /\ spawned' = FALSE /\ inGame' = 0
      /\ cl_inbox = none /\ sv_message' = none /\ sv_flight' = none /\ sv_inbox' = none
      /\ cl_message' = one /\ cl_flight' = none
      /\ cstate' = "connected"
      /\ UNCHANGED <<spawncount, kicked, reliable_datagram, servercount, sounds, models,
                     worldmodel, stuff, cl_inbox, remote>>
  BY <1>c DEF Connect, lists
<1>2. stuff = none
  BY <1>0, <1>1 DEF StagesInv
<1>3. remote
  BY <1>0, <1>1 DEF KeptInv
<1>4. ToSet(none) = {} /\ ToSet(one) = {c} /\ c.op = "new"
  BY <1>c, NoneFacts, OneFacts DEF Command
<1> HIDE DEF none, one
<1>5. ToSet(Down') = {}
  BY <1>1, <1>2, <1>4, DownParts DEF InParts
<1>6. ToSet(Up') = {c}
  BY <1>1, <1>4, UpParts, NoneFacts DEF InThree, InParts
<1>7. ToSet(Early') = {}
  BY <1>1, <1>2, <1>4, EarlyParts
<1>8. LevelsInv'
  BY <1>0, <1>1, <1>4, <1>5, <1>6 DEF LevelsInv
<1>9. ReconnectInv'
  BY <1>0, <1>1, <1>5, <1>7 DEF ReconnectInv
<1>10. OneConversation'
  <2>1. \A level : ~Asks(c, level)
    BY <1>4 DEF Asks
  <2> QED BY <1>5, <1>6, <2>1 DEF OneConversation
<1>11. ListsInv'
  <2>1. c.op \notin {"prespawn", "soundlist", "modellist", "spawn", "begin"}
    BY <1>4
  <2>2. AskedInOrder(c)
    BY <2>1 DEF AskedInOrder
  <2> QED BY <1>0, <1>1, <1>5, <1>6, <2>2, ListsKept
<1>12. StagesInv'
  <2>1. 0 <= spawncount /\ 0 # spawncount
    BY <1>0, OnTheWay
  <2> QED BY <1>0, <1>1, <1>4, <1>5, <1>6, <2>1 DEF StagesInv
<1>13. KeptInv'
  BY <1>1, <1>3 DEF KeptInv
<1> QED BY <1>8, <1>9, <1>10, <1>11, <1>12, <1>13 DEF SignonInv

----------------------------------------------------------------------------
(* The server between packets.                                             *)

(* One more message for the client, that answers nothing.                  *)
LEMMA SentKeeps ==
    ASSUME TypeOK, LevelsInv, OneConversation, NEW m \in Messages, Adds(Down, m, Down'),
           Up' = Up, UNCHANGED <<servercount, spawncount>>,
           m.level = spawncount, m.op \in {"reconnect", "disconnect"}
    PROVE  LevelsInv' /\ OneConversation'
<1>0. /\ servercount \in Nat /\ spawncount \in Nat /\ spawncount # 0
      /\ \A k \in ToSet(Down) : k.level \in Nat
  BY OnTheWay
<1>1. /\ ToSet(Down') = ToSet(Down) \cup {m}
      /\ \A a, b : Before(Down', a, b) => Before(Down, a, b) \/ (a \in ToSet(Down) /\ b = m)
  BY DEF Adds
<1>2. ~IsReply(m) /\ m.op # "serverdata" /\ m.op # "changing"
  BY DEF IsReply, Replies
<1>3. \A g : Restarts(g)' <=> Restarts(g)
  BY DEF Restarts
<1>4. LevelsInv'
  <2>1. ASSUME NEW a \in ToSet(Down')
        PROVE  /\ a.level \in servercount'..spawncount' /\ a.level # 0
               /\ IsReply(a) => a.level = servercount'
               /\ a.op = "changing" => a.level # servercount'
    BY <1>0, <1>1, <1>2, <2>1 DEF LevelsInv
  <2>2. ASSUME NEW a \in ToSet(Down'), NEW b \in ToSet(Down'), Before(Down', a, b)
        PROVE  /\ a.level <= b.level
               /\ a.op = "serverdata" /\ b.op = "changing" => a.level # b.level
    <3>1. CASE Before(Down, a, b)
      <4>1. a \in ToSet(Down) /\ b \in ToSet(Down)
        BY <3>1, BeforeIn
      <4> QED BY <3>1, <4>1 DEF LevelsInv
    <3>2. CASE a \in ToSet(Down) /\ b = m
      BY <1>0, <1>2, <3>2 DEF LevelsInv
    <3> QED BY <1>1, <2>2, <3>1, <3>2
  <2> QED BY <2>1, <2>2 DEF LevelsInv
<1>5. OneConversation'
  <2>1. ASSUME NEW k \in ToSet(Down'), k.op = "serverdata", k.level = servercount'
        PROVE  /\ \A a \in ToSet(Down') : IsReply(a) => IsFirst(a) /\ ~Before(Down', a, k)
               /\ \A d \in ToSet(Up') : Asks(d, servercount') => AsksFirst(d)
    <3>1. k # m /\ k \in ToSet(Down)
      BY <1>1, <1>2, <2>1
    <3>2. \A a \in ToSet(Down') : IsReply(a) => a \in ToSet(Down)
      BY <1>1, <1>2
    <3> QED BY <1>1, <2>1, <3>1, <3>2 DEF OneConversation
  <2>2. ASSUME servercount' = spawncount', NEW g \in ToSet(Up'), Restarts(g)'
        PROVE  /\ \A a \in ToSet(Down') : ~IsReply(a)
               /\ \A d \in ToSet(Up') :
                     Asks(d, servercount') => AsksFirst(d) /\ ~Before(Up', d, g)
    BY <1>1, <1>2, <1>3, <2>2 DEF OneConversation
  <2> QED BY <2>1, <2>2 DEF OneConversation
<1> QED BY <1>4, <1>5

(* Once a level was changed while packets were read, only the levels, the  *)
(* conversation and what is asked for matter.                              *)
LEMMA RemoteKeeps ==
    ASSUME SignonInv, TypeOK', LevelsInv', OneConversation', ReconnectInv', remote, Up' = Up,
           \A m \in ToSet(Down') : m \in ToSet(Down) \/ m.op \in {"reconnect", "disconnect"},
           UNCHANGED <<spawncount, prespawned, spawned, inGame, kicked, servercount,
                       worldmodel, sounds, models, cstate, connecting, stuff, executing,
                       cl_inbox, sv_inbox, remote>>,
           state' = state \/ (state' = "zombie" /\ sv_inbox = <<>>)
    PROVE  SignonInv'
<1>0. ListsInv /\ StagesInv
  BY DEF SignonInv
<1>1. ListsInv'
  <2>1. \A m : m.op \in {"reconnect", "disconnect"} => ToldInOrder(m)
    BY DEF ToldInOrder
  <2> QED BY <1>0, <2>1, ListsKept
<1>2. StagesInv'
  <2>1. /\ (\E m \in ToSet(Down') : m.op = "cmd spawn") \/ (\E d \in ToSet(Up') : d.op = "spawn")
             => prespawned'
        /\ (\E m \in ToSet(Down') : m.op = "skins") \/ (\E d \in ToSet(Up') : d.op = "begin")
             => spawned'
    <3>1. \A m : m.op \in {"reconnect", "disconnect"} => m.op \notin {"cmd spawn", "skins"}
      OBVIOUS
    <3> QED BY <1>0, <3>1, AllowedKept
  <2>2. state' # state => state' # "connected"
    OBVIOUS
  <2> QED BY <1>0, <2>1, <2>2 DEF StagesInv
<1>3. KeptInv'
  BY DEF KeptInv
<1> QED BY <1>1, <1>2, <1>3 DEF SignonInv

LEMMA SendStep ==
    ASSUME SignonInv, TypeOK', SV_SendClientMessages
    PROVE  SignonInv'
<1>r. PICK r : r = Message("reconnect", spawncount, 0)
  OBVIOUS
<1>0. TypeOK /\ LevelsInv /\ OneConversation /\ ReconnectInv /\ KeptInv
  BY DEF SignonInv
<1>1. /\ UNCHANGED <<spawncount, state, prespawned, spawned, inGame, kicked, servercount,
                     worldmodel, sounds, models, cstate, connecting, stuff, executing,
                     cl_inbox, cl_message, cl_flight, sv_inbox, sv_flight, remote>>
      /\ reliable_datagram # <<>> /\ reliable_datagram' = <<>>
      /\ sv_message' = Appended(sv_message, reliable_datagram)
  BY DEF SV_SendClientMessages, Outside, client, lists, toServer
<1>2. reliable_datagram = <<r>> /\ servercount # spawncount /\ remote
  BY <1>0, <1>1, <1>r DEF ReconnectInv, KeptInv
<1>3. r \in Messages /\ r.op = "reconnect" /\ r.level = spawncount
  <2>1. r \in Stuffed
    BY <1>0, <1>r, NewMessages, PresentLevel
  <2> QED BY <1>r, <2>1, NewMessages DEF Message
<1>4. Up' = Up
  BY <1>1 DEF Up
<1>5. CASE state = "zombie"
  <2>1. sv_message' = sv_message
    BY <1>1, <1>5 DEF Appended
  <2>2. Down' = Down /\ Less(Down, Down') /\ Less(Up, Up')
    BY <1>1, <1>4, <2>1, ShapesAreLess DEF Down
  <2>3. LevelsInv' /\ OneConversation'
    BY <1>0, <1>1, <2>2, LessKeeps
  <2>4. ReconnectInv'
    BY <1>0, <1>1, <2>2 DEF ReconnectInv
  <2> QED BY <1>1, <1>2, <1>4, <2>2, <2>3, <2>4, RemoteKeeps
<1>6. CASE state # "zombie"
  <2>1. sv_message' = Append(sv_message, r)
    <3>1. state \in {"connected", "spawned"} /\ sv_message \in Seq(Messages)
      BY <1>0, <1>6 DEF TypeOK
    <3>2. sv_message' = sv_message \o <<r>>
      BY <1>1, <1>2, <3>1 DEF Appended
    <3> QED BY <1>3, <3>1, <3>2, AppendIsConcat
  <2>2. Adds(Down, r, Down')
    <3>1. Adds(sv_message, r, sv_message')
      BY <1>0, <1>3, <2>1, AppendFacts DEF TypeOK
    <3>2. /\ InParts(Messages, Down, stuff, cl_inbox, sv_flight, sv_message)
          /\ InParts(Messages, Down', stuff, cl_inbox, sv_flight, sv_message')
      BY <1>0, <1>1, DownParts
    <3> QED BY <3>1, <3>2, LastAdded
  <2>3. LevelsInv' /\ OneConversation'
    BY <1>0, <1>1, <1>3, <1>4, <2>2, SentKeeps
  <2>4. ToSet(Down') = ToSet(Down) \cup {r}
    BY <2>2 DEF Adds
  <2>5. ReconnectInv'
    BY <1>0, <1>1, <1>2, <1>3, <2>4 DEF ReconnectInv
  <2> QED BY <1>1, <1>2, <1>3, <1>4, <2>3, <2>4, <2>5, RemoteKeeps
<1> QED BY <1>5, <1>6

LEMMA DropStep ==
    ASSUME SignonInv, TypeOK', SV_Drop_f
    PROVE  SignonInv'
<1>0. TypeOK /\ LevelsInv /\ OneConversation /\ ReconnectInv /\ KeptInv
  BY DEF SignonInv
<1>1. /\ UNCHANGED <<spawncount, prespawned, spawned, inGame, kicked, reliable_datagram,
                     servercount, worldmodel, sounds, models, cstate, connecting, stuff,
                     executing, cl_inbox, cl_message, cl_flight, sv_inbox, sv_flight, remote>>
      /\ sv_inbox = <<>> /\ dropping
      /\ \/ state' = state /\ sv_message' = sv_message
         \/ state' = "zombie" /\ Reply(Message("disconnect", spawncount, 0))
  BY DEF SV_Drop_f, Ignore, SV_DropClient, server, client, lists, toServer
<1>2. Up' = Up /\ Early' = Early /\ remote
  BY <1>0, <1>1 DEF Up, Early, KeptInv
<1>3. CASE state' = state /\ sv_message' = sv_message
  <2>1. Down' = Down /\ Less(Down, Down') /\ Less(Up, Up')
    BY <1>1, <1>2, <1>3, ShapesAreLess DEF Down
  <2>2. LevelsInv' /\ OneConversation'
    BY <1>0, <1>1, <2>1, LessKeeps
  <2>3. ReconnectInv'
    BY <1>0, <1>1, <1>2, <2>1 DEF ReconnectInv
  <2> QED BY <1>1, <1>2, <1>3, <2>1, <2>2, <2>3, RemoteKeeps
<1>4. CASE state' = "zombie" /\ Reply(Message("disconnect", spawncount, 0))
  <2>m. PICK m : m = Message("disconnect", spawncount, 0)
    OBVIOUS
  <2>1. m \in Messages /\ m.op = "disconnect" /\ m.level = spawncount
    <3>1. m \in Messages
      BY <1>0, <2>m, NewMessages, PresentLevel
    <3> QED BY <2>m, <3>1 DEF Message
  <2>2. Adds(Down, m, Down')
    <3>1. Adds(sv_message, m, sv_message')
      BY <1>0, <1>4, <2>m, <2>1, ReplyTyped
    <3>2. /\ InParts(Messages, Down, stuff, cl_inbox, sv_flight, sv_message)
          /\ InParts(Messages, Down', stuff, cl_inbox, sv_flight, sv_message')
      BY <1>0, <1>1, DownParts
    <3> QED BY <3>1, <3>2, LastAdded
  <2>3. LevelsInv' /\ OneConversation'
    BY <1>0, <1>1, <1>2, <2>1, <2>2, SentKeeps
  <2>4. ToSet(Down') = ToSet(Down) \cup {m}
    BY <2>2 DEF Adds
  <2>5. ReconnectInv'
    BY <1>0, <1>1, <1>2, <2>1, <2>4 DEF ReconnectInv
  <2> QED BY <1>1, <1>2, <1>4, <2>1, <2>3, <2>4, <2>5, RemoteKeeps
<1> QED BY <1>1, <1>3, <1>4

(* SV_Map_f: what waits, "changing" and, unless the level is changed while *)
(* packets are read, "reconnect" come after all that is on the way.        *)
LEMMA MapShape ==
    ASSUME TypeOK, TypeOK', ReconnectInv, NEW now \in BOOLEAN, SV_Map_f(now),
           NEW c, c = Message("changing", spawncount', 0),
           NEW r, r = Message("reconnect", spawncount', 0)
    PROVE  /\ ToSet(Down) \subseteq ToSet(Down')
           /\ ToSet(Down') \subseteq ToSet(Down) \cup ToSet(reliable_datagram) \cup {c, r}
           /\ \A m, k : Before(Down, m, k) => Before(Down', m, k)
           /\ \A m, k : Before(Down', m, k) =>
                 \/ Before(Down, m, k)
                 \/ m \in ToSet(Down) /\ k \in ToSet(reliable_datagram)
                 \/ m \in ToSet(Down) \cup ToSet(reliable_datagram) /\ k = c
                 \/ m \in ToSet(Down) \cup ToSet(reliable_datagram) \cup {c} /\ k = r
           /\ now /\ state # "zombie" => c \in ToSet(Down') /\ Before(Down', c, r)
<1> DEFINE none == <<>> onec == <<c>> oner == <<r>>
           wait == reliable_datagram
           all == wait \o onec
           changing == IF state = "zombie" THEN sv_message ELSE sv_message \o all
           sent == IF state # "zombie" /\ now THEN oner ELSE none
<1>1. c \in Messages /\ r \in Messages
  <2>1. spawncount' \in 0..MaxLevels
    BY SizesAssumption DEF TypeOK, Levels
  <2> QED BY <2>1, NewMessages
<1>2. /\ ToSet(none) = {} /\ ToSet(onec) = {c} /\ ToSet(oner) = {r}
      /\ \A m, k : ~Before(none, m, k) /\ ~Before(onec, m, k) /\ ~Before(oner, m, k)
  BY NoneFacts, OneFacts
<1>3. \A m, k : ~Before(wait, m, k)
  <2>1. wait = none \/ wait = <<Message("reconnect", spawncount, 0)>>
    BY DEF ReconnectInv
  <2> QED BY <2>1, NoneFacts, OneFacts
<1>4. /\ wait \in Seq(Messages) /\ onec \in Seq(Messages) /\ oner \in Seq(Messages)
      /\ none \in Seq(Messages) /\ sv_message \in Seq(Messages)
  BY <1>1, StuffedAreMessages DEF TypeOK
<1>5. /\ state \in {"zombie", "connected", "spawned"}
      /\ UNCHANGED <<stuff, cl_inbox>>
      /\ \/ sv_message' = changing \o sent /\ UNCHANGED sv_flight
         \/ sv_flight = none /\ sv_flight' = changing /\ sv_message' = sent
  <2>1. state \in {"zombie", "connected", "spawned"}
    BY DEF TypeOK
  <2>2. none \o oner = oner /\ none \o none = none
    BY <1>4, ConcatEmptySeq
  <2>3. Appended(sv_message, all) = changing
    BY <2>1 DEF Appended
  <2>4. Appended(none, IF now THEN oner ELSE none) = sent
    BY <2>1, <2>2 DEF Appended
  <2>5. /\ UNCHANGED <<stuff, cl_inbox>>
        /\ LET ch == Appended(sv_message, all)
               se == Appended(none, IF now THEN oner ELSE none)
           IN \/ sv_message' = ch \o se /\ UNCHANGED sv_flight
              \/ sv_flight = none /\ sv_flight' = ch /\ sv_message' = se
    BY DEF SV_Map_f, Outside, client
  <2> QED BY <2>1, <2>3, <2>4, <2>5
<1> HIDE DEF none, onec, oner, wait, all
<1>6. /\ all \in Seq(Messages) /\ ToSet(all) = ToSet(wait) \cup {c}
      /\ \A m, k : Before(all, m, k) <=> m \in ToSet(wait) /\ k = c
  <2>1. /\ wait \o onec \in Seq(Messages)
        /\ ToSet(wait \o onec) = ToSet(wait) \cup ToSet(onec)
        /\ \A m, k : Before(wait \o onec, m, k) <=>
              \/ Before(wait, m, k) \/ Before(onec, m, k)
              \/ m \in ToSet(wait) /\ k \in ToSet(onec)
    BY <1>4, ConcatFacts
  <2> QED BY <1>2, <1>3, <2>1 DEF all
<1> DEFINE more == IF state = "zombie" THEN {} ELSE ToSet(wait) \cup {c}
<1>7. /\ changing \in Seq(Messages) /\ ToSet(changing) = ToSet(sv_message) \cup more
      /\ \A m, k : Before(changing, m, k) <=>
            \/ Before(sv_message, m, k)
            \/ m \in ToSet(sv_message) /\ k \in more
            \/ m \in ToSet(wait) /\ k = c /\ k \in more
  <2>1. CASE state = "zombie"
    BY <1>4, <2>1
  <2>2. CASE state # "zombie"
    <3>1. /\ sv_message \o all \in Seq(Messages)
          /\ ToSet(sv_message \o all) = ToSet(sv_message) \cup ToSet(all)
          /\ \A m, k : Before(sv_message \o all, m, k) <=>
                \/ Before(sv_message, m, k) \/ Before(all, m, k)
                \/ m \in ToSet(sv_message) /\ k \in ToSet(all)
      BY <1>4, <1>6, ConcatFacts
    <3> QED BY <1>6, <2>2, <3>1
  <2> QED BY <2>1, <2>2
<1>8. /\ sent \in Seq(Messages) /\ \A m, k : ~Before(sent, m, k)
      /\ ToSet(sent) = IF state # "zombie" /\ now THEN {r} ELSE {}
  BY <1>2, <1>4
<1>9. \/ state = "zombie" /\ more = {} /\ ToSet(sent) = {}
      \/ state # "zombie" /\ more = ToSet(wait) \cup {c} /\ ToSet(sent) \subseteq {r}
  BY <1>8
<1>10. now /\ state # "zombie" => r \in ToSet(sent)
  BY <1>8
<1> HIDE DEF changing, sent, more
<1>11. /\ ToSet(Down') = ToSet(Down) \cup more \cup ToSet(sent)
       /\ \A m, k : Before(Down', m, k) <=>
             \/ Before(Down, m, k)
             \/ m \in ToSet(Down) /\ k \in more \cup ToSet(sent)
             \/ m \in ToSet(wait) /\ k = c /\ k \in more
             \/ m \in more /\ k \in ToSet(sent)
  <2>1. /\ InParts(Messages, Down, stuff, cl_inbox, sv_flight, sv_message)
        /\ InParts(Messages, Down', stuff, cl_inbox, sv_flight', sv_message')
    BY <1>5, DownParts
  <2>2. CASE sv_message' = changing \o sent /\ UNCHANGED sv_flight
    <3>1. /\ ToSet(sv_message') = ToSet(changing) \cup ToSet(sent)
          /\ \A m, k : Before(sv_message', m, k) <=>
                \/ Before(changing, m, k) \/ Before(sent, m, k)
                \/ m \in ToSet(changing) /\ k \in ToSet(sent)
      BY <1>7, <1>8, <2>2, ConcatFacts
    <3>2. InParts(Messages, Down', stuff, cl_inbox, sv_flight, sv_message')
      BY <2>1, <2>2
    <3>3. ToSet(Down') = ToSet(Down) \cup more \cup ToSet(sent)
      BY <1>7, <2>1, <3>1, <3>2 DEF InParts
    <3>4. ASSUME NEW m, NEW k
          PROVE  Before(Down', m, k) <=>
                    \/ Before(Down, m, k)
                    \/ m \in ToSet(Down) /\ k \in more \cup ToSet(sent)
                    \/ m \in ToSet(wait) /\ k = c /\ k \in more
                    \/ m \in more /\ k \in ToSet(sent)
      BY <1>7, <1>8, <2>1, <3>1, <3>2 DEF InParts
    <3> QED BY <3>3, <3>4
  <2>3. CASE sv_flight = none /\ sv_flight' = changing /\ sv_message' = sent
    <3>1. InParts(Messages, Down', stuff, cl_inbox, changing, sent)
          /\ InParts(Messages, Down, stuff, cl_inbox, none, sv_message)
      BY <2>1, <2>3
    <3>2. ToSet(Down') = ToSet(Down) \cup more \cup ToSet(sent)
      BY <1>2, <1>7, <3>1 DEF InParts
    <3>3. ASSUME NEW m, NEW k
          PROVE  Before(Down', m, k) <=>
                    \/ Before(Down, m, k)
                    \/ m \in ToSet(Down) /\ k \in more \cup ToSet(sent)
                    \/ m \in ToSet(wait) /\ k = c /\ k \in more
                    \/ m \in more /\ k \in ToSet(sent)
      BY <1>2, <1>7, <1>8, <3>1 DEF InParts
    <3> QED BY <3>2, <3>3
  <2> QED BY <1>5, <2>2, <2>3
<1>12. /\ ToSet(Down') \subseteq ToSet(Down) \cup ToSet(wait) \cup {c, r}
       /\ \A m, k : Before(Down', m, k) =>
             \/ Before(Down, m, k)
             \/ m \in ToSet(Down) /\ k \in ToSet(wait)
             \/ m \in ToSet(Down) \cup ToSet(wait) /\ k = c
             \/ m \in ToSet(Down) \cup ToSet(wait) \cup {c} /\ k = r
  BY <1>9, <1>11
<1>13. now /\ state # "zombie" => c \in ToSet(Down') /\ Before(Down', c, r)
  BY <1>9, <1>10, <1>11
<1> QED BY <1>11, <1>12, <1>13 DEF wait

LEMMA MapStep ==
    ASSUME SignonInv, TypeOK', NEW now \in BOOLEAN, SV_Map_f(now)
    PROVE  SignonInv'
<1>c. PICK c : c = Message("changing", spawncount', 0)
  OBVIOUS
<1>r. PICK r : r = Message("reconnect", spawncount', 0)
  OBVIOUS
<1>0. TypeOK /\ LevelsInv /\ OneConversation /\ ReconnectInv /\ ListsInv /\ StagesInv /\ KeptInv
  BY DEF SignonInv
<1>1. /\ UNCHANGED <<prespawned, spawned, inGame, kicked, servercount, worldmodel, sounds,
                     models, cstate, connecting, stuff, executing, cl_inbox, cl_message,
                     cl_flight, sv_inbox, dropping>>
      /\ spawncount' = spawncount + 1
      /\ state' = IF state = "spawned" THEN "connected" ELSE state
  BY DEF SV_Map_f, Outside, client, lists, toServer
<1>w. /\ reliable_datagram' = IF now THEN <<>> ELSE <<r>>
      /\ remote' = (remote \/ ~now)
  BY <1>r DEF SV_Map_f
<1>2. /\ servercount \in Nat /\ spawncount \in Nat /\ spawncount # 0
      /\ \A k \in ToSet(Down) : k.level \in Nat /\ k.level <= spawncount
      /\ servercount <= spawncount
  BY <1>0, OnTheWay DEF LevelsInv
<1>3. /\ c.op = "changing" /\ c.level = spawncount + 1
      /\ r.op = "reconnect" /\ r.level = spawncount + 1
  BY <1>1, <1>c, <1>r DEF Message
<1>4. \A o \in ToSet(reliable_datagram) :
         o.op = "reconnect" /\ o.level = spawncount /\ servercount # spawncount
  <2>1. reliable_datagram = <<>> => ToSet(reliable_datagram) = {}
    BY NoneFacts
  <2>2. reliable_datagram # <<>> =>
           /\ ToSet(reliable_datagram) = {Message("reconnect", spawncount, 0)}
           /\ servercount # spawncount
    BY <1>0, OneFacts DEF ReconnectInv
  <2>3. /\ Message("reconnect", spawncount, 0).op = "reconnect"
        /\ Message("reconnect", spawncount, 0).level = spawncount
    BY DEF Message
  <2> QED BY <2>1, <2>2, <2>3
<1> DEFINE wait == ToSet(reliable_datagram)
<1>5. /\ ToSet(Down) \subseteq ToSet(Down')
      /\ ToSet(Down') \subseteq ToSet(Down) \cup wait \cup {c, r}
      /\ \A m, k : Before(Down, m, k) => Before(Down', m, k)
      /\ \A m, k : Before(Down', m, k) =>
            \/ Before(Down, m, k)
            \/ m \in ToSet(Down) /\ k \in wait
            \/ m \in ToSet(Down) \cup wait /\ k = c
            \/ m \in ToSet(Down) \cup wait \cup {c} /\ k = r
      /\ now /\ state # "zombie" => c \in ToSet(Down') /\ Before(Down', c, r)
  BY <1>0, <1>c, <1>r, MapShape
<1>6. wait = {} \/ ~(remote = FALSE)
  BY <1>0, NoneFacts DEF KeptInv
<1> HIDE DEF wait
<1>7. \A m \in ToSet(Down') : m \in ToSet(Down) \/ m.op \in {"changing", "reconnect"}
  BY <1>3, <1>4, <1>5 DEF wait
<1>8. Up' = Up
  BY <1>1 DEF Up
<1>9. spawncount + 1 \in Nat /\ spawncount < spawncount + 1
  BY <1>2
<1>10. \A m \in ToSet(Down') :
          /\ m \in ToSet(Down) => m.level <= spawncount
          /\ m \notin ToSet(Down) => m.level \in {spawncount, spawncount + 1}
          /\ m \notin ToSet(Down) /\ m.op # "reconnect" => m = c
  BY <1>2, <1>3, <1>4, <1>5 DEF wait
<1>11. LevelsInv'
  <2>1. ASSUME NEW m \in ToSet(Down')
        PROVE  /\ m.level \in servercount'..spawncount' /\ m.level # 0
               /\ IsReply(m) => m.level = servercount'
               /\ m.op = "changing" => m.level # servercount'
    <3>1. CASE m \in ToSet(Down)
      BY <1>0, <1>1, <1>2, <3>1 DEF LevelsInv
    <3>2. CASE m \notin ToSet(Down)
      <4>1. ~IsReply(m)
        BY <1>7, <3>2 DEF IsReply, Replies
      <4>2. m.level \in {spawncount, spawncount + 1}
        BY <1>10, <3>2
      <4>3. m.op = "changing" => m.level = spawncount + 1
        BY <1>3, <1>10, <3>2
      <4> QED BY <1>1, <1>2, <4>1, <4>2, <4>3
    <3> QED BY <3>1, <3>2
  <2>2. ASSUME NEW m \in ToSet(Down'), NEW k \in ToSet(Down'), Before(Down', m, k)
        PROVE  /\ m.level <= k.level
               /\ m.op = "serverdata" /\ k.op = "changing" => m.level # k.level
    <3>1. CASE Before(Down, m, k)
      <4>1. m \in ToSet(Down) /\ k \in ToSet(Down)
        BY <3>1, BeforeIn
      <4> QED BY <1>0, <3>1, <4>1 DEF LevelsInv
    <3>2. CASE m \in ToSet(Down) /\ k \in wait
      <4>1. k.op = "reconnect" /\ k.level = spawncount
        BY <1>4, <3>2 DEF wait
      <4> QED BY <1>2, <3>2, <4>1
    <3>3. CASE m \in ToSet(Down) \cup wait /\ k = c
      <4>1. m.level <= spawncount /\ m.level \in Nat
        BY <1>2, <1>4, <3>3 DEF wait
      <4> QED BY <1>2, <1>3, <3>3, <4>1
    <3>4. CASE m \in ToSet(Down) \cup wait \cup {c} /\ k = r
      <4>1. m.level <= spawncount + 1 /\ m.level \in Nat
        BY <1>2, <1>3, <1>4, <3>4 DEF wait
      <4> QED BY <1>2, <1>3, <3>4, <4>1
    <3> QED BY <1>5, <2>2, <3>1, <3>2, <3>3, <3>4
  <2>3. servercount' <= spawncount'
    BY <1>1, <1>2
  <2> QED BY <1>0, <1>1, <1>8, <2>1, <2>2, <2>3 DEF LevelsInv
<1>12. OneConversation'
  <2>1. ASSUME NEW k \in ToSet(Down'), k.op = "serverdata", k.level = servercount'
        PROVE  /\ \A m \in ToSet(Down') : IsReply(m) => IsFirst(m) /\ ~Before(Down', m, k)
               /\ \A d \in ToSet(Up') : Asks(d, servercount') => AsksFirst(d)
    <3>1. k \in ToSet(Down) /\ k # c /\ k # r /\ k \notin wait
      BY <1>3, <1>4, <1>7, <2>1 DEF wait
    <3>2. \A m \in ToSet(Down') : IsReply(m) => m \in ToSet(Down)
      BY <1>7 DEF IsReply, Replies
    <3>3. \A m : Before(Down', m, k) => Before(Down, m, k)
      BY <1>5, <3>1
    <3> QED BY <1>0, <1>1, <1>8, <2>1, <3>1, <3>2, <3>3 DEF OneConversation
  <2>2. servercount' # spawncount'
    BY <1>1, <1>2
  <2> QED BY <2>1, <2>2 DEF OneConversation
<1>13. ReconnectInv'
  <2>1. reliable_datagram' # <<>> =>
          /\ reliable_datagram' = <<Message("reconnect", spawncount', 0)>>
          /\ servercount' # spawncount'
    BY <1>1, <1>2, <1>r, <1>w
  <2>2. \A m \in ToSet(Early') : m.op = "serverdata" => m.level # spawncount'
    <3>1. ToSet(Early') \subseteq ToSet(Down')
      BY EarlyParts, DownParts DEF InParts
    <3> SUFFICES ASSUME NEW m \in ToSet(Early'), m.op = "serverdata"
                 PROVE  m.level # spawncount'
      OBVIOUS
    <3>2. m \in ToSet(Down)
      BY <1>7, <3>1
    <3> QED BY <1>1, <1>2, <3>2
  <2>3. ASSUME cstate' = "connected", NEW m \in ToSet(Down'), m.op = "reconnect"
        PROVE  m.level # servercount'
    <3>1. CASE m \in ToSet(Down)
      BY <1>0, <1>1, <2>3, <3>1 DEF ReconnectInv
    <3>2. CASE m \in wait
      BY <1>1, <1>4, <3>2 DEF wait
    <3>3. CASE m = r
      BY <1>1, <1>2, <1>3, <3>3
    <3> QED BY <1>3, <1>5, <2>3, <3>1, <3>2, <3>3
  <2> QED BY <2>1, <2>2, <2>3 DEF ReconnectInv
<1>14. ListsInv'
  <2>1. \A m : m.op \in {"changing", "reconnect"} => ToldInOrder(m)
    BY DEF ToldInOrder
  <2> QED BY <1>0, <1>1, <1>7, <1>8, <2>1, ListsKept
<1>15. StagesInv'
  <2>1. /\ (\E m \in ToSet(Down') : m.op = "cmd spawn") \/ (\E d \in ToSet(Up') : d.op = "spawn")
             => prespawned'
        /\ (\E m \in ToSet(Down') : m.op = "skins") \/ (\E d \in ToSet(Up') : d.op = "begin")
             => spawned'
    <3>1. \A m : m.op \in {"changing", "reconnect"} => m.op \notin {"cmd spawn", "skins"}
      OBVIOUS
    <3> QED BY <1>0, <1>1, <1>7, <1>8, <3>1, AllowedKept
  <2>2. inGame' <= spawncount' /\ inGame' # spawncount'
    <3>1. inGame \in Nat
      BY <1>0 DEF TypeOK
    <3>2. inGame <= spawncount
      BY <1>0 DEF StagesInv
    <3> QED BY <1>1, <1>2, <3>1, <3>2
  <2>3. state' = "zombie" => sv_inbox' = <<>>
    BY <1>0, <1>1 DEF StagesInv
  <2> QED BY <1>0, <1>1, <2>1, <2>2, <2>3 DEF StagesInv
<1>16. KeptInv'
  <2> SUFFICES ASSUME ~remote' PROVE KeptInv'
    BY DEF KeptInv
  <2>1. ~remote /\ now
    BY <1>w
  <2>2. /\ reliable_datagram = <<>> /\ ~dropping /\ ~connecting
        /\ cstate # "disconnected" /\ state # "zombie"
        /\ \A m \in ToSet(Down) : m.op # "disconnect"
        /\ \A k \in ToSet(Down) : k.op = "reconnect" =>
              /\ Warned(k)
              /\ \A m \in ToSet(Down) :
                    Before(Down, m, k) /\ m.level = k.level => m.op = "changing"
    BY <1>0, <2>1 DEF KeptInv
  <2>3. wait = {}
    BY <2>2, NoneFacts DEF wait
  <2>4. state' # "zombie" /\ reliable_datagram' = <<>>
    BY <1>1, <1>w, <2>1, <2>2
  <2>5. \A m \in ToSet(Down') : m.op # "disconnect"
    BY <1>7, <2>2
  <2>6. c \notin ToSet(Down) /\ r \notin ToSet(Down)
    BY <1>2, <1>3
  <2>7. ASSUME NEW k \in ToSet(Down'), k.op = "reconnect"
        PROVE  /\ Warned(k)'
               /\ \A m \in ToSet(Down') :
                     Before(Down', m, k) /\ m.level = k.level => m.op = "changing"
    <3>1. CASE k \in ToSet(Down)
      <4>1. k # c /\ k # r
        BY <2>6, <3>1
      <4>2. \A m \in ToSet(Down') :
               Before(Down', m, k) /\ m.level = k.level => m.op = "changing"
        <5> SUFFICES ASSUME NEW m \in ToSet(Down'), Before(Down', m, k), m.level = k.level
                     PROVE  m.op = "changing"
          OBVIOUS
        <5>1. Before(Down, m, k)
          BY <1>5, <2>3, <4>1
        <5>2. m \in ToSet(Down)
          BY <5>1, BeforeIn
        <5> QED BY <2>2, <2>7, <3>1, <5>1, <5>2
      <4>3. CASE \E a \in ToSet(Down) :
                    a.op = "changing" /\ a.level = k.level /\ Before(Down, a, k)
        BY <1>5, <4>2, <4>3 DEF Warned
      <4>4. CASE cstate = "connected" /\ \A m \in ToSet(Down) : m.level >= k.level
        <5>1. \A m \in ToSet(Down') : m.level >= k.level
          <6> SUFFICES ASSUME NEW m \in ToSet(Down'), m \notin ToSet(Down)
                       PROVE  m.level >= k.level
            BY <4>4
          <6>1. m.level \in {spawncount, spawncount + 1}
            BY <1>10
          <6> QED BY <1>2, <3>1, <6>1
        <5> QED BY <1>1, <4>2, <4>4, <5>1 DEF Warned
      <4> QED BY <2>2, <2>7, <3>1, <4>3, <4>4 DEF Warned
    <3>2. CASE k = r
      <4>1. c \in ToSet(Down') /\ Before(Down', c, r) /\ c.op = "changing" /\ c.level = r.level
        BY <1>3, <1>5, <2>1, <2>2
      <4>2. \A m \in ToSet(Down') : m.level = r.level => m = c \/ m = r
        BY <1>2, <1>3, <1>5, <1>9, <2>3
      <4>3. ~Before(Down', r, r)
        <5>1. c # r
          BY <1>3
        <5>2. ~Before(Down, r, r)
          BY <2>6, BeforeIn
        <5> QED BY <1>5, <2>3, <2>6, <5>1, <5>2
      <4> QED BY <1>3, <3>2, <4>1, <4>2, <4>3 DEF Warned
    <3> QED BY <1>3, <1>5, <2>3, <2>7, <3>1, <3>2
  <2> QED BY <1>1, <2>2, <2>4, <2>5, <2>7 DEF KeptInv
<1> QED BY <1>11, <1>12, <1>13, <1>14, <1>15, <1>16 DEF SignonInv

----------------------------------------------------------------------------
(* The invariant holds.                                                    *)

LEMMA InitInv == Init => SignonInv
<1> SUFFICES ASSUME Init PROVE SignonInv
  OBVIOUS
<1> DEFINE none == <<>>
<1>c. PICK c : c = Command("new", 0, 0)
  OBVIOUS
<1> DEFINE one == <<c>>
<1>1. TypeOK
  BY InitType
<1>2. /\ stuff = none /\ cl_inbox = none /\ sv_flight = none /\ sv_message = none
      /\ sv_inbox = none /\ cl_flight = none /\ cl_message = one
      /\ spawncount = 1 /\ servercount = 0 /\ inGame = 0 /\ worldmodel = 0
      /\ reliable_datagram = none /\ state = "connected" /\ cstate = "connected"
      /\ kicked = FALSE /\ connecting = FALSE /\ dropping = FALSE
  BY <1>c DEF Init
<1>3. ToSet(none) = {} /\ ToSet(one) = {c} /\ c.op = "new"
  BY <1>c, NoneFacts, OneFacts DEF Command
<1>4. reliable_datagram = <<>>
  BY <1>2
<1> HIDE DEF none, one
<1>5. ToSet(Down) = {}
  BY <1>1, <1>2, <1>3, DownParts DEF InParts
<1>6. ToSet(Up) = {c}
  BY <1>1, <1>2, <1>3, UpParts, NoneFacts DEF InThree, InParts
<1>7. LevelsInv
  BY <1>2, <1>3, <1>5, <1>6 DEF LevelsInv
<1>8. ReconnectInv
  BY <1>4, <1>5 DEF ReconnectInv
<1>9. OneConversation
  <2>1. \A level : ~Asks(c, level)
    BY <1>3 DEF Asks
  <2> QED BY <1>5, <1>6, <2>1 DEF OneConversation
<1>10. ListsInv
  <2>1. c.op \notin {"prespawn", "soundlist", "modellist", "spawn", "begin"}
    BY <1>3
  <2>2. AskedInOrder(c)
    BY <2>1 DEF AskedInOrder
  <2> QED BY <1>2, <1>5, <1>6, <2>2 DEF ListsInv, ListsOfOneLevel
<1>11. StagesInv
  BY <1>2, <1>3, <1>5, <1>6 DEF StagesInv
<1>12. KeptInv
  BY <1>2, <1>4, <1>5 DEF KeptInv
<1> QED BY <1>1, <1>7, <1>8, <1>9, <1>10, <1>11, <1>12 DEF SignonInv

LEMMA StepInv == SignonInv /\ [Next]_vars => SignonInv'
<1> SUFFICES ASSUME SignonInv, [Next]_vars PROVE SignonInv'
  OBVIOUS
<1>1. TypeOK'
  BY StepType DEF SignonInv
<1>2. CASE ServerStep
  <2>1. \/ SV_New_f \/ SV_Soundlist_f \/ SV_Modellist_f \/ SV_PreSpawn_f \/ SV_Spawn_f
           \/ SV_Begin_f
        \/ SV_SendClientMessages \/ SV_Drop_f \/ SV_Transmit \/ SV_Deliver
    BY <1>2 DEF ServerStep
  <2> QED BY <1>1, <2>1, CommandStep, SendStep, DropStep, ChannelStep
<1>3. CASE ClientStep
  <2>1. \/ CL_ParseServerData \/ CL_ParseSoundlist \/ CL_ParseModellist \/ CL_ParseDisconnect
        \/ \E op \in {"changing", "reconnect", "skins", "cmd prespawn", "cmd spawn"} :
              CL_ParseStuff(op)
        \/ CL_Changing_f \/ CL_Reconnect_f \/ CL_Skins_f \/ CL_Cmd_ForwardToServer_f
        \/ CL_Transmit \/ CL_Deliver \/ CL_TimeOut
    BY <1>3 DEF ClientStep, Parse
  <2>2. CASE CL_ParseServerData \/ CL_ParseSoundlist \/ CL_ParseModellist \/ CL_ParseDisconnect
    BY <1>1, <2>2, ServerDataStep, SoundlistStep, ModellistStep, DisconnectStep
  <2>3. CASE \E op \in {"changing", "reconnect", "skins", "cmd prespawn", "cmd spawn"} :
                CL_ParseStuff(op)
    BY <1>1, <2>3, ParseStuffStep
  <2>4. CASE CL_Changing_f \/ CL_Reconnect_f \/ CL_Skins_f \/ CL_Cmd_ForwardToServer_f
    BY <1>1, <2>4, ChangingStep, ReconnectStep, SkinsStep, ForwardStep
  <2>5. CASE CL_Transmit \/ CL_Deliver \/ CL_TimeOut
    BY <1>1, <2>5, ChannelStep, TimeOutStep
  <2> QED BY <2>1, <2>2, <2>3, <2>4, <2>5
<1>4. CASE Connect
  BY <1>1, <1>4, ConnectStep
<1>5. CASE \E now \in BOOLEAN : SV_Map_f(now)
  BY <1>1, <1>5, MapStep
<1>6. CASE UNCHANGED vars
  <2>1. /\ UNCHANGED <<spawncount, state, prespawned, spawned, inGame, kicked,
                       reliable_datagram, cstate, lists, connecting, dropping, remote,
                       stuff, executing, cl_inbox, sv_flight, sv_message, sv_inbox,
                       cl_flight, cl_message>>
    BY <1>6 DEF vars, server, client, toClient, toServer
  <2>2. Down' = Down /\ Up' = Up /\ Early' = Early
    BY <2>1 DEF Down, Up, Early
  <2>3. Same(Down, Down') /\ Same(Up, Up') /\ ToSet(Early') \subseteq ToSet(Early)
    BY <2>2 DEF Same
  <2>4. state = "zombie" => sv_inbox' = <<>>
    BY <2>1 DEF SignonInv, StagesInv
  <2>5. cstate = "disconnected" /\ connecting =>
           /\ stuff' = <<>> \/ executing'
           /\ cl_inbox' # <<>> => Head(cl_inbox').op = "serverdata"
    BY <2>1 DEF SignonInv, StagesInv
  <2> QED BY <1>1, <2>1, <2>3, <2>4, <2>5, SameKeeps
<1> QED BY <1>2, <1>3, <1>4, <1>5, <1>6 DEF Next

(* Levels on their way are in order, one conversation goes on at a time, the *)
(* lists are told and asked for in order, the server's flags are ahead of    *)
(* the client's requests: in every state, at every length.                   *)
THEOREM SignonInvariant == Spec => []SignonInv
<1> QED BY InitInv, StepInv, PTL DEF Spec

----------------------------------------------------------------------------

(* Whatever levels come and whenever, SV_PreSpawn_f, SV_Spawn_f and        *)
(* SV_Begin_f never drop a client that asks for what it is told to: its    *)
(* request for the present level comes after prespawned or spawned was set *)
(* and carries the present world's checksum.                               *)
THEOREM NeverKicked == Spec => []HonestNeverKicked
<1>1. SignonInv => HonestNeverKicked
  BY DEF SignonInv, StagesInv, HonestNeverKicked
<1> QED BY <1>1, SignonInvariant, PTL

(* Once CL_ParseModellist has handled the last part, all of the client's   *)
(* sounds and models are of the level it was told of last: no part of an   *)
(* earlier conversation reaches a later one.                               *)
THEOREM OneLevelLists == Spec => []ListsOfOneLevel
<1>1. SignonInv => ListsOfOneLevel
  BY DEF SignonInv, ListsInv
<1> QED BY <1>1, SignonInvariant, PTL

(* CL_Reconnect_f finds the client connected as long as SV_Map_f is called *)
(* when the packets of a frame have been read: no change of level then     *)
(* makes the client disconnect.                                            *)
THEOREM ConnectionKept == Spec => []KeepsConnection
<1>1. SignonInv => KeepsConnection
  BY DEF SignonInv, KeptInv, KeepsConnection
<1> QED BY <1>1, SignonInvariant, PTL

(* SV_Begin_f gives the progs a client only with the present level's world *)
(* loaded, and once for each level of a connection.                        *)
THEOREM EnteredLoaded == Spec => EntersLoaded
<1>1. ASSUME SignonInv, [Next]_vars, inGame' # inGame, inGame' # 0
      PROVE  worldmodel = spawncount /\ inGame < spawncount
  <2> DEFINE c == Head(sv_inbox)
  <2>0. TypeOK /\ LevelsInv /\ ListsInv /\ StagesInv
    BY <1>1 DEF SignonInv
  <2>1. SV_New_f \/ SV_Soundlist_f \/ SV_Modellist_f \/ SV_PreSpawn_f \/ SV_Spawn_f
        \/ SV_Begin_f
    BY <1>1 DEF Next, ServerStep, ClientStep, Parse, vars, server, SV_SendClientMessages,
       SV_Drop_f, Ignore, SV_DropClient, SV_Transmit, SV_Deliver, Connect, SV_Map_f,
       CL_ParseServerData, CL_ParseSoundlist, CL_ParseModellist, CL_ParseDisconnect,
       CL_ParseStuff, Next_Message, CL_Changing_f, CL_Reconnect_f, CL_Skins_f,
       CL_Cmd_ForwardToServer_f, Next_Stuffed, CL_Transmit, CL_Deliver, CL_TimeOut
  <2>2. c \in ToSet(Up) /\ Outcomes(c)
    BY <2>0, <2>1, CommandOutcome
  <2>3. c.op = "begin" /\ c.level = spawncount /\ state = "connected"
    BY <1>1, <2>2 DEF Outcomes, Ignore, New, SendsPart, SendPart, SendSignon, SendSpawn,
       Begins, server
  <2>4. c.level = servercount
    <3>1. servercount \in Nat /\ spawncount \in Nat
      BY <2>0, OnTheWay
    <3>2. c.level \in 1..servercount /\ servercount <= spawncount
      BY <2>0, <2>2, <2>3 DEF LevelsInv
    <3> QED BY <2>3, <3>1, <3>2
  <2>5. worldmodel = servercount
    BY <2>0, <2>2, <2>3, <2>4 DEF ListsInv, AskedInOrder, Loaded
  <2>6. inGame <= spawncount /\ inGame # spawncount
    BY <2>0, <2>3 DEF StagesInv
  <2>7. inGame \in Nat /\ spawncount \in Nat
    <3>1. inGame \in Nat
      BY <2>0 DEF TypeOK
    <3> QED BY <2>0, <3>1, OnTheWay
  <2> QED BY <2>3, <2>4, <2>5, <2>6, <2>7
<1>2. SignonInv /\ [Next]_vars =>
        [inGame' # inGame /\ inGame' # 0
         => worldmodel = spawncount /\ inGame < spawncount]_vars
  BY <1>1
<1> QED BY <1>2, SignonInvariant, PTL DEF Spec, EntersLoaded

=============================================================================
