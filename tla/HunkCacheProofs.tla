-------------------------- MODULE HunkCacheProofs --------------------------
(***************************************************************************)
(* What holds of the hunk and the cache for an arena of any size, any      *)
(* users and any sizes of allocations: the blocks tile the high hunk, the  *)
(* links agree, the hunks never meet, and locked blocks stay.              *)
(***************************************************************************)
EXTENDS HunkCache, SequenceTheorems, WellFoundedInduction, TLAPS

(* Blocks further down the chain are further down in the arena.            *)
Descending == \A i, k \in DOMAIN chain : i < k => chain[k] < chain[i]
Sized == \A a \in DOMAIN block : block[a].size > 0
(* A mark that Hunk_LowMark returned is no higher than a later one.        *)
MarksGrow == \A i, k \in DOMAIN marks : i <= k => marks[i] <= marks[k]
(* The user that Cache_Alloc works for has nothing until it succeeds.      *)
Wanting == running.loop = "alloc" => data[running.user] = NoBlock

(* Cache_FreeLow found no block in its way and no header was torn.         *)
NoFault == error \in {"", "out of memory", "locked block"}

ArenaInv == /\ TypeOK /\ Sound
            /\ Descending /\ Sized /\ MarksGrow /\ Wanting /\ NoFault

(* Once a header was torn only the types are left, and the model stops.    *)
Stopped == TypeOK /\ error = "torn header"

StoreInv == ArenaInv \/ Stopped

----------------------------------------------------------------------------
(* Sequences: leaving out a stretch, and putting in an element.            *)

Spliced(s, i, j) == SubSeq(s, 1, i - 1) \o SubSeq(s, j, Len(s))

LEMMA SplicedFacts ==
    ASSUME NEW S, NEW s \in Seq(S), NEW i \in 1 .. Len(s), NEW j \in i .. Len(s) + 1
    PROVE  /\ Spliced(s, i, j) \in Seq(S) /\ Len(Spliced(s, i, j)) = Len(s) - (j - i)
           /\ \A k \in 1 .. i - 1 : Spliced(s, i, j)[k] = s[k]
           /\ \A k \in i .. Len(Spliced(s, i, j)) : Spliced(s, i, j)[k] = s[k + (j - i)]
<1> DEFINE above == SubSeq(s, 1, i - 1) below == SubSeq(s, j, Len(s)) t == Spliced(s, i, j)
<1>0. Len(s) \in Nat /\ i \in Nat /\ j \in Nat
  OBVIOUS
<1>1. /\ above \in Seq(S) /\ Len(above) = i - 1
      /\ \A k \in 1 .. i - 1 : above[k] = s[k]
  BY <1>0
<1>2. /\ below \in Seq(S) /\ Len(below) = Len(s) + 1 - j
      /\ \A k \in 1 .. Len(s) + 1 - j : below[k] = s[k + j - 1]
  BY <1>0
<1>3. t = above \o below
  BY DEF Spliced
<1> HIDE DEF above, below, t
<1>4. /\ above \o below \in Seq(S) /\ Len(above \o below) = Len(above) + Len(below)
      /\ \A k \in 1 .. Len(above) + Len(below) :
            (above \o below)[k] = IF k <= Len(above) THEN above[k] ELSE below[k - Len(above)]
  BY <1>1, <1>2, ConcatProperties
<1>5. t \in Seq(S) /\ Len(t) = Len(s) - (j - i)
  <2>1. Len(above) + Len(below) = Len(s) - (j - i)
    BY <1>0, <1>1, <1>2
  <2> QED BY <1>3, <1>4, <2>1, Zenon
<1>6. ASSUME NEW k \in 1 .. i - 1 PROVE t[k] = s[k]
  <2>1. k \in 1 .. Len(above) + Len(below) /\ k <= Len(above)
    BY <1>0, <1>1, <1>2, <1>6
  <2> QED BY <1>1, <1>3, <1>4, <1>6, <2>1
<1>7. ASSUME NEW k \in i .. Len(t) PROVE t[k] = s[k + (j - i)]
  <2>0. k \in i .. (Len(s) - (j - i))
    BY <1>5, <1>7, Zenon
  <2>1. k \in Nat /\ k >= i /\ k <= Len(s) - (j - i)
    BY <1>0, <2>0
  <2>2. k \in 1 .. Len(above) + Len(below) /\ ~(k <= Len(above))
    BY <1>0, <1>1, <1>2, <2>1
  <2>3. t[k] = below[k - (i - 1)]
    BY <1>1, <1>3, <1>4, <2>2
  <2>4. /\ k - (i - 1) \in 1 .. Len(s) + 1 - j
        /\ (k - (i - 1)) + j - 1 = k + (j - i)
    BY <1>0, <2>1
  <2> QED BY <1>2, <2>3, <2>4
<1> QED BY <1>5, <1>6, <1>7 DEF t

LEMMA Inserted ==
    ASSUME NEW S, NEW s \in Seq(S), NEW i \in 1 .. Len(s), NEW e \in S
    PROVE  /\ InsertAt(s, i, e) \in Seq(S) /\ Len(InsertAt(s, i, e)) = Len(s) + 1
           /\ \A k \in 1 .. i - 1 : InsertAt(s, i, e)[k] = s[k]
           /\ InsertAt(s, i, e)[i] = e
           /\ \A k \in Nat : i < k /\ k <= Len(s) + 1 => InsertAt(s, i, e)[k] = s[k - 1]
<1> DEFINE t == InsertAt(s, i, e) above == SubSeq(s, 1, i - 1) below == SubSeq(s, i, Len(s)) mid == above \o <<e>>
<1>0. Len(s) \in Nat /\ i \in Nat
  OBVIOUS
<1>1. /\ above \in Seq(S) /\ Len(above) = i - 1
      /\ \A k \in 1 .. i - 1 : above[k] = s[k]
  BY <1>0
<1>2. /\ below \in Seq(S) /\ Len(below) = Len(s) + 1 - i
      /\ \A k \in 1 .. Len(s) + 1 - i : below[k] = s[k + i - 1]
  BY <1>0
<1>3. t = mid \o below
  BY DEF InsertAt
<1> HIDE DEF above, below, t
<1>4. mid \in Seq(S) /\ Len(mid) = i /\ mid[i] = e /\ \A k \in 1 .. i - 1 : mid[k] = s[k]
  BY <1>0, <1>1
<1> HIDE DEF mid
<1>5. /\ t \in Seq(S) /\ Len(t) = Len(mid) + Len(below)
      /\ \A k \in 1 .. Len(mid) + Len(below) :
            t[k] = IF k <= Len(mid) THEN mid[k] ELSE below[k - Len(mid)]
  BY <1>2, <1>3, <1>4, ConcatProperties
<1>6. Len(t) = Len(s) + 1
  BY <1>0, <1>2, <1>4, <1>5
<1>7. \A k \in 1 .. i : t[k] = mid[k]
  BY <1>0, <1>2, <1>4, <1>5
<1>8. ASSUME NEW k \in Nat, i < k, k <= Len(s) + 1 PROVE t[k] = s[k - 1]
  <2>1. t[k] = below[k - i] /\ k - i \in 1 .. Len(s) + 1 - i /\ (k - i) + i - 1 = k - 1
    BY <1>0, <1>2, <1>4, <1>5, <1>6, <1>8
  <2> QED BY <1>2, <2>1
<1> QED BY <1>0, <1>4, <1>5, <1>6, <1>7, <1>8 DEF t

LEMMA InsertedAbove ==
    ASSUME NEW S, NEW s \in Seq(S), NEW i \in 1 .. Len(s), NEW e \in S,
           NEW k \in i + 1 .. Len(s) + 1
    PROVE  InsertAt(s, i, e)[k] = s[k - 1]
<1>1. k \in Nat /\ i < k /\ k <= Len(s) + 1
  OBVIOUS
<1>2. \A m \in Nat : i < m /\ m <= Len(s) + 1 => InsertAt(s, i, e)[m] = s[m - 1]
  BY Inserted, SMTT(30)
<1> QED BY <1>1, <1>2, Zenon

(* A list without an element has the others, each once if it had.          *)
Once(s) == \A i, k \in DOMAIN s : s[i] = s[k] => i = k

LEMMA WithoutFacts ==
    ASSUME NEW S, NEW s \in Seq(S), Once(s), NEW a
    PROVE  /\ Without(s, a) \in Seq(S)
           /\ Once(Without(s, a))
           /\ ToSet(Without(s, a)) = ToSet(s) \ {a}
<1>1. CASE a \notin ToSet(s)
  BY <1>1 DEF Without
<1>2. CASE a \in ToSet(s)
  <2> DEFINE p == CHOOSE i \in DOMAIN s : s[i] = a
             t == Without(s, a)
  <2>1. p \in 1 .. Len(s) /\ s[p] = a
    BY <1>2 DEF ToSet
  <2>2. t = SubSeq(s, 1, p - 1) \o SubSeq(s, p + 1, Len(s))
    BY <1>2 DEF Without, RemoveAt
  <2> HIDE DEF p, t
  <2>3. /\ t \in Seq(S) /\ Len(t) = Len(s) - 1
        /\ \A k \in 1 .. p - 1 : t[k] = s[k]
        /\ \A k \in p .. Len(t) : t[k] = s[k + 1]
    <3> DEFINE q == p + 1
    <3>1. q \in p .. Len(s) + 1 /\ q - p = 1 /\ t = Spliced(s, p, q)
      BY <2>1, <2>2 DEF Spliced
    <3> HIDE DEF q
    <3>2. /\ t \in Seq(S) /\ Len(t) = Len(s) - (q - p)
          /\ \A k \in 1 .. p - 1 : t[k] = s[k]
          /\ \A k \in p .. Len(t) : t[k] = s[k + (q - p)]
      BY <2>1, <3>1, SplicedFacts
    <3> QED BY <3>1, <3>2
  <2>4. \A k \in DOMAIN t : \E m \in DOMAIN s :
           m # p /\ t[k] = s[m] /\ m = IF k < p THEN k ELSE k + 1
    BY <2>1, <2>3
  <2>5. \A m \in DOMAIN s : m # p =>
           \E k \in DOMAIN t : t[k] = s[m]
    <3> SUFFICES ASSUME NEW m \in DOMAIN s, m # p
                 PROVE  \E k \in DOMAIN t : t[k] = s[m]
      OBVIOUS
    <3>1. CASE m < p
      BY <2>1, <2>3, <3>1
    <3>2. CASE m > p
      <4>1. m - 1 \in p .. Len(t) /\ t[m - 1] = s[(m - 1) + 1] /\ (m - 1) + 1 = m
        BY <2>1, <2>3, <3>2
      <4> QED BY <2>1, <2>3, <4>1
    <3> QED BY <2>1, <3>1, <3>2
  <2>6. Once(t)
    BY <2>1, <2>3, <2>4 DEF Once
  <2>7. ToSet(t) = ToSet(s) \ {a}
    BY <2>1, <2>4, <2>5 DEF Once, ToSet
  <2> QED BY <2>3, <2>6, <2>7 DEF t
<1> QED BY <1>1, <1>2

LEMMA RecentFacts ==
    ASSUME NEW S, lru \in Seq(S), Once(lru), NEW a \in S
    PROVE  /\ Recent(a) \in Seq(S)
           /\ Once(Recent(a))
           /\ ToSet(Recent(a)) = ToSet(lru) \cup {a}
<1> DEFINE w == Without(lru, a)
<1>1. w \in Seq(S) /\ Once(w) /\ ToSet(w) = ToSet(lru) \ {a}
  BY WithoutFacts
<1> HIDE DEF w
<1>2. /\ Recent(a) \in Seq(S) /\ Len(Recent(a)) = Len(w) + 1
      /\ Recent(a)[1] = a
      /\ \A k \in 2 .. Len(w) + 1 : Recent(a)[k] = w[k - 1]
  <2>1. Recent(a) = <<a>> \o w
    BY DEF Recent, w
  <2> QED BY <1>1, <2>1
<1>3. Len(w) \in Nat /\ \A k \in 1 .. Len(w) : w[k] # a
  BY <1>1 DEF ToSet
<1>4. Once(Recent(a))
  <2> SUFFICES ASSUME NEW k \in 1 .. Len(w) + 1, NEW m \in 1 .. Len(w) + 1,
                      Recent(a)[k] = Recent(a)[m]
               PROVE  k = m
    BY <1>2 DEF Once
  <2>0. ASSUME NEW h \in 2 .. Len(w) + 1 PROVE Recent(a)[h] # a
    <3>1. h - 1 \in 1 .. Len(w) /\ Recent(a)[h] = w[h - 1]
      BY <1>2, <1>3
    <3> QED BY <1>3, <3>1
  <2>1. CASE k = 1
    <3>1. m = 1 \/ m \in 2 .. Len(w) + 1
      BY <1>3
    <3> QED BY <1>2, <2>0, <2>1, <3>1
  <2>2. CASE m = 1
    <3>1. k = 1 \/ k \in 2 .. Len(w) + 1
      BY <1>3
    <3> QED BY <1>2, <2>0, <2>2, <3>1
  <2>3. CASE k # 1 /\ m # 1
    <3>1. k - 1 \in DOMAIN w /\ m - 1 \in DOMAIN w /\ w[k - 1] = w[m - 1]
      BY <1>1, <1>2, <1>3, <2>3
    <3>2. k - 1 = m - 1
      BY <1>1, <3>1 DEF Once
    <3> QED BY <1>3, <3>2
  <2> QED BY <2>1, <2>2, <2>3
<1>5. ToSet(Recent(a)) = ToSet(w) \cup {a}
  <2>1. \A k \in DOMAIN Recent(a) : Recent(a)[k] \in ToSet(w) \cup {a}
    <3> SUFFICES ASSUME NEW k \in 1 .. Len(w) + 1
                 PROVE  Recent(a)[k] \in ToSet(w) \cup {a}
      BY <1>2
    <3>1. CASE k = 1
      BY <1>2, <3>1
    <3>2. CASE k # 1
      <4>1. k - 1 \in DOMAIN w /\ Recent(a)[k] = w[k - 1]
        BY <1>1, <1>2, <1>3, <3>2
      <4> QED BY <4>1 DEF ToSet
    <3> QED BY <3>1, <3>2
  <2>2. ASSUME NEW k \in DOMAIN w PROVE w[k] \in ToSet(Recent(a))
    <3>1. k + 1 \in 2 .. Len(w) + 1 /\ (k + 1) - 1 = k
      BY <1>1, <1>3
    <3>2. k + 1 \in DOMAIN Recent(a) /\ Recent(a)[k + 1] = w[k]
      BY <1>2, <1>3, <3>1
    <3> QED BY <3>2 DEF ToSet
  <2>3. a \in ToSet(Recent(a))
    <3>1. 1 \in DOMAIN Recent(a)
      BY <1>2, <1>3
    <3> QED BY <1>2, <3>1 DEF ToSet
  <2> QED BY <2>1, <2>2, <2>3 DEF ToSet
<1> QED BY <1>1, <1>2, <1>4, <1>5

LEMMA SeqOfItsElements ==
    ASSUME NEW S, NEW s \in Seq(S), NEW T, ToSet(s) \subseteq T
    PROVE  s \in Seq(T)
BY DEF ToSet

----------------------------------------------------------------------------
(* The links: who is in use, in lru and in data.                           *)

InUse == {a \in DOMAIN block : Used(a)}

LEMMA LinksTyped ==
    ASSUME TypeOK, InUseAgree
    PROVE  /\ lru \in Seq(Address) /\ Once(lru) /\ ToSet(lru) = InUse
           /\ DOMAIN block \subseteq Address
<1>1. DOMAIN block \subseteq Address
  <2>1. chain \in Seq(Address) /\ DOMAIN block = ToSet(chain)
    BY DEF TypeOK
  <2> QED BY <2>1 DEF ToSet
<1>2. lru \in Seq(DOMAIN block) /\ ToSet(lru) = InUse
  BY DEF TypeOK, InUseAgree, InUse
<1>3. lru \in Seq(Address)
  <2>1. ToSet(lru) \subseteq Address
    BY <1>1, <1>2 DEF InUse
  <2> QED BY <1>2, <2>1, SeqOfItsElements
<1>4. Once(lru)
  BY DEF InUseAgree, Once
<1> QED BY <1>1, <1>2, <1>3, <1>4

LEMMA LinksFreed ==
    ASSUME TypeOK, InUseAgree, NEW c \in Users, data[c] # NoBlock,
           InUse' = InUse \ {data[c]}, \A a \in InUse' : block'[a].user = block[a].user,
           lru' = Without(lru, data[c]), data' = [data EXCEPT ![c] = NoBlock]
    PROVE  InUseAgree' /\ lru' \in Seq(Address) /\ lru' \in Seq(DOMAIN block')
<1>1. lru \in Seq(Address) /\ Once(lru)
  BY LinksTyped
<1>2. lru' \in Seq(Address) /\ Once(lru') /\ ToSet(lru') = ToSet(lru) \ {data[c]}
  BY <1>1, WithoutFacts
<1>3. ToSet(lru) = InUse
  BY DEF InUseAgree, InUse
<1>4. ToSet(lru') = InUse'
  BY <1>2, <1>3
<1>5. ASSUME NEW d \in Users, data'[d] # NoBlock
      PROVE  data'[d] \in InUse' /\ block'[data'[d]].user = d
  <2>1. d # c /\ data'[d] = data[d]
    BY <1>5 DEF TypeOK
  <2>2. block[data[c]].user = c /\ block[data[d]].user = d /\ data[d] \in DOMAIN block
    BY <1>5, <2>1 DEF InUseAgree
  <2>3. data[d] \in InUse'
    BY <2>1, <2>2, NameAssumption DEF InUse, Used
  <2> QED BY <2>1, <2>2, <2>3
<1>6. ASSUME NEW a \in InUse'
      PROVE  data'[block'[a].user] = a
  <2>1. block'[a].user = block[a].user /\ a # data[c] /\ a \in InUse
    BY <1>6
  <2>2. data[block[a].user] = a /\ block[a].user \in Users
    BY <2>1 DEF InUse, InUseAgree, TypeOK, Headers, Used
  <2> QED BY <2>1, <2>2 DEF TypeOK
<1>7. lru' \in Seq(DOMAIN block')
  <2>1. ToSet(lru') \subseteq DOMAIN block'
    BY <1>4 DEF InUse
  <2> QED BY <1>2, <2>1, SeqOfItsElements
<1> QED BY <1>2, <1>4, <1>5, <1>6, <1>7 DEF InUseAgree, InUse, Once

LEMMA LinksTaken ==
    ASSUME TypeOK, InUseAgree, NEW c \in Users, data[c] = NoBlock,
           NEW a \in Address, a \notin InUse, InUse' = InUse \cup {a},
           \A b \in InUse : block'[b].user = block[b].user, block'[a].user = c,
           lru' = Recent(a), data' = [data EXCEPT ![c] = a]
    PROVE  InUseAgree' /\ lru' \in Seq(Address) /\ lru' \in Seq(DOMAIN block')
<1>1. lru \in Seq(Address) /\ Once(lru)
  BY LinksTyped
<1>2. lru' \in Seq(Address) /\ Once(lru') /\ ToSet(lru') = ToSet(lru) \cup {a}
  BY <1>1, RecentFacts
<1>3. ToSet(lru') = InUse'
  BY <1>2 DEF InUseAgree, InUse
<1>4. a # NoBlock
  BY NameAssumption, SizeAssumption DEF Address
<1>5. ASSUME NEW d \in Users, data'[d] # NoBlock
      PROVE  data'[d] \in InUse' /\ block'[data'[d]].user = d
  <2>1. CASE d = c
    BY <2>1 DEF TypeOK
  <2>2. CASE d # c
    <3>1. data'[d] = data[d] /\ data[d] # NoBlock
      BY <1>5, <2>2 DEF TypeOK
    <3>2. data[d] \in InUse /\ block[data[d]].user = d
      BY <3>1, NameAssumption DEF InUseAgree, InUse, Used
    <3> QED BY <3>1, <3>2
  <2> QED BY <2>1, <2>2
<1>6. ASSUME NEW b \in InUse'
      PROVE  data'[block'[b].user] = b
  <2>1. CASE b = a
    BY <2>1 DEF TypeOK
  <2>2. CASE b # a
    <3>1. b \in InUse /\ block'[b].user = block[b].user
      BY <1>6, <2>2
    <3>2. data[block[b].user] = b /\ block[b].user \in Users
      BY <3>1 DEF InUse, InUseAgree, TypeOK, Headers, Used
    <3>3. b # NoBlock
      <4>1. b \in Address
        BY <3>1, LinksTyped DEF InUse
      <4> QED BY <4>1, NameAssumption, SizeAssumption DEF Address
    <3>4. block[b].user # c
      BY <3>2, <3>3
    <3> QED BY <3>1, <3>2, <3>4 DEF TypeOK
  <2> QED BY <2>1, <2>2
<1>7. lru' \in Seq(DOMAIN block')
  <2>1. ToSet(lru') \subseteq DOMAIN block'
    BY <1>3 DEF InUse
  <2> QED BY <1>2, <2>1, SeqOfItsElements
<1> QED BY <1>2, <1>3, <1>5, <1>6, <1>7 DEF InUseAgree, InUse, Once

LEMMA LinksTouched ==
    ASSUME TypeOK, InUseAgree, NEW c \in Users, data[c] # NoBlock,
           DOMAIN block' = DOMAIN block,
           \A b \in DOMAIN block : block'[b].user = block[b].user,
           lru' = Recent(data[c]), UNCHANGED data
    PROVE  InUseAgree' /\ lru' \in Seq(DOMAIN block')
<1>1. lru \in Seq(DOMAIN block) /\ Once(lru) /\ data[c] \in InUse
  <2>1. lru \in Seq(DOMAIN block) /\ Once(lru)
    BY LinksTyped DEF TypeOK
  <2>2. data[c] \in DOMAIN block /\ block[data[c]].user = c
    BY DEF InUseAgree
  <2> QED BY <2>1, <2>2, NameAssumption DEF InUse, Used
<1>2. /\ lru' \in Seq(DOMAIN block) /\ Once(lru')
      /\ ToSet(lru') = ToSet(lru) \cup {data[c]}
  BY <1>1, RecentFacts DEF InUse
<1>3. InUse' = InUse
  BY DEF InUse, Used
<1>4. ToSet(lru') = InUse'
  BY <1>1, <1>2, <1>3 DEF InUseAgree, InUse
<1> QED BY <1>2, <1>3, <1>4 DEF InUseAgree, InUse, Once, Used

----------------------------------------------------------------------------
(* The chain: where a block is, and how large it is.                       *)

LEMMA Sums ==
    ASSUME ArenaInv
    PROVE  /\ HunkSize \in Nat \ {0} /\ Header \in Nat \ {0} /\ HunkHeader \in Nat \ {0}
           /\ hunk_low_used \in 0 .. HunkSize /\ hunk_high_used \in 0 .. HunkSize
           /\ HighMark \in 0 .. HunkSize /\ HighMark <= hunk_high_used
           /\ hunk_low_used + hunk_high_used <= HunkSize
<1>1. marks \in Seq(Address) /\ marks # <<>>
  BY DEF ArenaInv, TypeOK
<1>2. hunk_low_used \in 0 .. HunkSize
  <2>1. Len(marks) \in 1 .. Len(marks)
    BY <1>1
  <2>2. marks[Len(marks)] \in Address
    BY <1>1, <2>1
  <2> QED BY <2>2 DEF hunk_low_used, Address
<1>3. /\ hunk_high_used \in 0 .. HunkSize /\ hunk_tempmark \in 0 .. HunkSize
      /\ hunk_low_used + hunk_high_used <= HunkSize
      /\ hunk_tempactive => hunk_tempmark <= hunk_high_used
  BY DEF ArenaInv, TypeOK, Sound, HunksApart
<1>4. HighMark \in 0 .. HunkSize /\ HighMark <= hunk_high_used
  BY <1>3, SizeAssumption DEF HighMark
<1> QED BY <1>2, <1>3, <1>4, SizeAssumption

LEMMA Places ==
    ASSUME ArenaInv
    PROVE  /\ chain \in Seq(Address) /\ Len(chain) \in Nat
           /\ \A i \in 1 .. Len(chain) :
                 /\ chain[i] \in Address /\ chain[i] \in DOMAIN block
                 /\ block[chain[i]] \in Headers
           /\ \A i, k \in 1 .. Len(chain) : chain[i] = chain[k] => i = k
           /\ \A a \in DOMAIN block : Place(a) \in 1 .. Len(chain) /\ chain[Place(a)] = a
<1>1. chain \in Seq(Address) /\ DOMAIN block = ToSet(chain)
  BY DEF ArenaInv, TypeOK
<1>2. \A i \in 1 .. Len(chain) : chain[i] \in DOMAIN block
  BY <1>1 DEF ToSet
<1>3. ASSUME NEW i \in 1 .. Len(chain), NEW k \in 1 .. Len(chain), chain[i] = chain[k]
      PROVE  i = k
  <2>1. chain[i] \in Nat /\ chain[k] \in Nat
    <3>1. chain[i] \in Address /\ chain[k] \in Address
      BY <1>1
    <3> QED BY <3>1, SizeAssumption DEF Address
  <2>2. ~(i < k) /\ ~(k < i)
    BY <1>1, <1>3, <2>1 DEF ArenaInv, Descending
  <2> QED BY <2>2
<1>4. ASSUME NEW a \in DOMAIN block
      PROVE  Place(a) \in 1 .. Len(chain) /\ chain[Place(a)] = a
  <2>1. \E i \in DOMAIN chain : chain[i] = a
    BY <1>1, <1>4 DEF ToSet
  <2> QED BY <1>1, <2>1 DEF Place
<1>5. \A b \in DOMAIN block : block[b] \in Headers
  BY DEF ArenaInv, TypeOK
<1> QED BY <1>1, <1>2, <1>3, <1>4, <1>5

LEMMA Sizes ==
    ASSUME ArenaInv, NEW i \in 1 .. Len(chain)
    PROVE  /\ Top(i) \in Address /\ chain[i] \in Address
           /\ block[chain[i]].size \in 1 .. HunkSize
           /\ block[chain[i]].size = Top(i) - chain[i]
           /\ chain[i] >= HunkSize - HighMark
<1>1. chain \in Seq(Address) /\ chain[i] \in Address /\ block[chain[i]] \in Headers
  BY Places
<1>2. Top(i) \in Address
  BY <1>1, SizeAssumption DEF Top, Address
<1>3. block[chain[i]].size \in 0 .. HunkSize /\ block[chain[i]].size > 0
  BY <1>1, Places DEF Headers, ArenaInv, Sized
<1>4. chain[i] + block[chain[i]].size = Top(i)
  BY <1>1 DEF ArenaInv, Sound, Tiling
<1>5. chain[i] >= HunkSize - HighMark
  <2>1. HighMark = HunkSize - chain[Len(chain)]
    BY <1>1 DEF ArenaInv, Sound, Tiling, Last
  <2>2. chain[Len(chain)] \in Address /\ chain[i] \in Address
    BY <1>1
  <2>3. i = Len(chain) \/ chain[Len(chain)] < chain[i]
    BY <1>1 DEF ArenaInv, Descending
  <2> QED BY <2>1, <2>2, <2>3, SizeAssumption DEF Address
<1> QED BY <1>1, <1>2, <1>3, <1>4, <1>5, SizeAssumption DEF Address

(* Cache_Free, with the stretch i .. j of the chain that it merges.        *)
LEMMA Stretch ==
    ASSUME ArenaInv, NEW a \in InUse, NEW i, i = MergeUp(Place(a)),
           NEW j, j = MergeDown(Place(a))
    PROVE  /\ i \in 1 .. Len(chain) /\ j \in i .. Len(chain)
           /\ \A k \in i .. j : chain[k] = a \/ ~Used(chain[k])
           /\ i > 1 => Used(chain[i - 1])
           /\ j < Len(chain) => Used(chain[j + 1])
           /\ j = Len(chain) => chain[j] = a
           /\ block[a].size + SizeUnless(chain[i], a) + SizeUnless(chain[j], a)
                 = Top(i) - chain[j]
<1> DEFINE p == Place(a) n == Len(chain)
<1>1. /\ p \in 1 .. n /\ chain[p] = a /\ Used(a) /\ n \in Nat
      /\ \A k, m \in 1 .. n : chain[k] = chain[m] => k = m
  BY Places DEF InUse
<1>2. \A k \in 1 .. n - 1 : Used(chain[k]) \/ Used(chain[k + 1])
  BY DEF ArenaInv, Sound, Coalesced
<1>3. Used(chain[n])
  <2>1. chain # <<>> /\ Last(chain) = chain[n]
    BY <1>1 DEF Last
  <2> QED BY <2>1 DEF ArenaInv, Sound, Coalesced
<1>a. i = IF p > 1 /\ ~Used(chain[p - 1]) THEN p - 1 ELSE p
  BY DEF MergeUp
<1>b. j = IF p < n /\ ~Used(chain[p + 1]) THEN p + 1 ELSE p
  BY DEF MergeDown
<1> HIDE DEF p, n
<1>4. /\ i \in 1 .. n /\ (i = p \/ i = p - 1) /\ (i # p => ~Used(chain[i]))
  BY <1>1, <1>a
<1>5. /\ j \in p .. n /\ (j = p \/ j = p + 1) /\ (j # p => ~Used(chain[j]))
  BY <1>1, <1>b
<1>6. i > 1 => Used(chain[i - 1])
  <2>1. CASE i = p
    BY <1>a, <1>1, <2>1
  <2>2. CASE i = p - 1 /\ i > 1
    <3>1. i - 1 \in 1 .. n - 1 /\ (i - 1) + 1 = i
      BY <1>1, <1>4, <2>2
    <3>2. ~Used(chain[i])
      BY <1>1, <1>4, <2>2
    <3> QED BY <1>2, <3>1, <3>2
  <2> QED BY <1>4, <2>1, <2>2
<1>7. j < n => Used(chain[j + 1])
  <2>1. CASE j = p
    BY <1>b, <1>1, <2>1
  <2>2. CASE j = p + 1 /\ j < n
    <3>1. j \in 1 .. n - 1 /\ ~Used(chain[j])
      BY <1>1, <1>5, <2>2
    <3> QED BY <1>2, <3>1
  <2> QED BY <1>5, <2>1, <2>2
<1>8. j = n => j = p
  BY <1>3, <1>5
<1>9. \A k \in i .. j : chain[k] = a \/ ~Used(chain[k])
  <2> SUFFICES ASSUME NEW k \in i .. j PROVE chain[k] = a \/ ~Used(chain[k])
    OBVIOUS
  <2>1. k = p \/ (k = i /\ i # p) \/ (k = j /\ j # p)
    BY <1>1, <1>4, <1>5
  <2> QED BY <1>1, <1>4, <1>5, <2>1
<1>10. block[a].size + SizeUnless(chain[i], a) + SizeUnless(chain[j], a) = Top(i) - chain[j]
  <2>1. ASSUME NEW k \in 1 .. n
        PROVE  /\ block[chain[k]].size = Top(k) - chain[k] /\ Top(k) \in Int
               /\ chain[k] \in Int
    BY Sizes, SizeAssumption DEF n, Address
  <2>2. block[a].size = Top(p) - chain[p]
    BY <1>1, <2>1
  <2>3. SizeUnless(chain[i], a) = Top(i) - Top(p)
    <3>1. CASE i = p
      BY <1>1, <2>1, <3>1 DEF SizeUnless
    <3>2. CASE i = p - 1
      <4>1. chain[i] # a /\ Top(p) = chain[i]
        BY <1>1, <1>4, <3>2 DEF Top
      <4> QED BY <1>4, <2>1, <4>1 DEF SizeUnless
    <3> QED BY <1>4, <3>1, <3>2
  <2>4. SizeUnless(chain[j], a) = chain[p] - chain[j]
    <3>1. CASE j = p
      BY <1>1, <2>1, <3>1 DEF SizeUnless
    <3>2. CASE j = p + 1
      <4>1. j \in 1 .. n /\ chain[j] # a /\ Top(j) = chain[p]
        BY <1>1, <1>5, <3>2 DEF Top
      <4> QED BY <2>1, <4>1 DEF SizeUnless
    <3> QED BY <1>5, <3>1, <3>2
  <2>5. j \in 1 .. n
    BY <1>1, <1>5
  <2> HIDE DEF Top
  <2> QED BY <1>1, <1>4, <2>1, <2>2, <2>3, <2>4, <2>5
<1> QED BY <1>1, <1>4, <1>5, <1>6, <1>7, <1>8, <1>9, <1>10 DEF n

(* What Cache_Free leaves of the chain: position k now has the block that  *)
(* was at Kept(k, i, j); the merged block, if anything is left below the   *)
(* stretch, is at i.                                                       *)
Kept(k, i, j) == IF k < i THEN k ELSE k + (j - i)
Merged(i, j) == [size |-> Top(i) - chain[j], user |-> NoUser, readlock |-> 0]

LEMMA ChainFreed ==
    ASSUME ArenaInv, NEW c \in Users, data[c] # NoBlock, NEW keep \in BOOLEAN,
           CacheFree(c, keep),
           NEW i, i = MergeUp(Place(data[c])), NEW j, j = MergeDown(Place(data[c]))
    PROVE  /\ chain' \in Seq(Address)
           /\ Len(chain') = IF j = Len(chain) THEN i - 1 ELSE Len(chain) - (j - i)
           /\ \A k \in 1 .. Len(chain') :
                 /\ Kept(k, i, j) \in 1 .. Len(chain)
                 /\ chain'[k] = chain[Kept(k, i, j)]
                 /\ block'[chain'[k]] = IF k = i THEN Merged(i, j) ELSE block[chain'[k]]
           /\ DOMAIN block' = ToSet(chain')
<1> DEFINE a == data[c] n == Len(chain)
<1>1. a \in InUse
  BY NameAssumption DEF ArenaInv, Sound, InUseAgree, InUse, Used
<1>2. /\ i \in 1 .. n /\ j \in i .. n
      /\ block[a].size + SizeUnless(chain[i], a) + SizeUnless(chain[j], a) = Top(i) - chain[j]
  BY <1>1, Stretch
<1>3. chain \in Seq(Address) /\ n \in Nat /\ \A k, m \in 1 .. n : chain[k] = chain[m] => k = m
  BY Places
<1>4. block' = [b \in ToSet(chain') |-> IF b = chain[j] THEN Merged(i, j) ELSE block[b]]
  BY <1>2 DEF CacheFree, Merged
<1>5. chain' \in Seq(Address) => \A k \in 1 .. Len(chain') : chain'[k] \in ToSet(chain')
  BY DEF ToSet
<1> HIDE DEF Merged
<1>6. CASE j = n
  <2>1. chain' = SubSeq(chain, 1, i - 1)
    BY <1>6 DEF CacheFree
  <2>2. chain' \in Seq(Address) /\ Len(chain') = i - 1 /\ \A k \in 1 .. i - 1 : chain'[k] = chain[k]
    BY <1>2, <1>3, <2>1
  <2>3. ASSUME NEW k \in 1 .. i - 1
        PROVE  Kept(k, i, j) = k /\ k \in 1 .. n /\ k # i /\ chain'[k] # chain[j]
    BY <1>2, <1>3, <2>2 DEF Kept
  <2> QED BY <1>2, <1>6, <1>4, <1>5, <2>2, <2>3
<1>7. CASE j # n
  <2>1. chain' = SubSeq(chain, 1, i - 1) \o SubSeq(chain, j, Len(chain))
    BY <1>7 DEF CacheFree
  <2>2. j \in i .. Len(chain) + 1 /\ i \in 1 .. Len(chain)
    BY <1>2, <1>3
  <2>3. /\ chain' \in Seq(Address) /\ Len(chain') = Len(chain) - (j - i)
        /\ \A k \in 1 .. i - 1 : chain'[k] = chain[k]
        /\ \A k \in i .. Len(chain') : chain'[k] = chain[k + (j - i)]
    <3>1. chain' = Spliced(chain, i, j)
      BY <2>1 DEF Spliced
    <3>2. LET t == Spliced(chain, i, j) IN
          /\ t \in Seq(Address) /\ Len(t) = Len(chain) - (j - i)
          /\ \A k \in 1 .. i - 1 : t[k] = chain[k]
          /\ \A k \in i .. Len(t) : t[k] = chain[k + (j - i)]
      <4> HIDE DEF a, n
      <4> QED BY <1>3, <2>2, SplicedFacts
    <3> QED BY <3>1, <3>2, Zenon
  <2>4. ASSUME NEW k \in 1 .. Len(chain')
        PROVE  /\ Kept(k, i, j) \in 1 .. n /\ chain'[k] = chain[Kept(k, i, j)]
               /\ (Kept(k, i, j) = j <=> k = i)
    <3>0. i \in Nat /\ j \in Nat /\ k \in 1 .. n - (j - i)
      BY <1>2, <1>3, <2>3, <2>4
    <3>1. CASE k < i
      <4>1. k \in 1 .. i - 1 /\ Kept(k, i, j) = k /\ k \in 1 .. n /\ k # j /\ k # i
        BY <1>2, <1>3, <3>0, <3>1, SMTT(30) DEF Kept
      <4> QED BY <2>3, <4>1
    <3>2. CASE ~(k < i)
      <4>1. /\ k \in i .. n - (j - i) /\ Kept(k, i, j) = k + (j - i)
            /\ k + (j - i) \in 1 .. n /\ (k + (j - i) = j <=> k = i)
        BY <1>2, <1>3, <3>0, <3>2, SMTT(30) DEF Kept
      <4> QED BY <2>3, <4>1
    <3> QED BY <3>1, <3>2
  <2>5. ASSUME NEW k \in 1 .. Len(chain') PROVE chain'[k] = chain[j] <=> k = i
    <3>1. j \in 1 .. n
      BY <1>2, <1>3
    <3> QED BY <1>3, <2>4, <3>1
  <2> QED BY <1>2, <1>7, <1>4, <1>5, <2>3, <2>4, <2>5
<1> QED BY <1>6, <1>7

LEMMA FreedTiles ==
    ASSUME ArenaInv, NEW c \in Users, data[c] # NoBlock, NEW keep \in BOOLEAN,
           CacheFree(c, keep)
    PROVE  /\ chain' \in Seq(Address) /\ DOMAIN block' = ToSet(chain')
           /\ \A b \in DOMAIN block' : block'[b] \in Headers
           /\ hunk_high_used' \in 0 .. HunkSize /\ hunk_high_used' <= hunk_high_used
           /\ hunk_tempactive' \in BOOLEAN /\ hunk_tempmark' = hunk_tempmark
           /\ hunk_tempactive' => hunk_tempmark' <= hunk_high_used'
           /\ Tiling' /\ Descending' /\ Sized'
<1> DEFINE a == data[c] n == Len(chain) i == MergeUp(Place(a)) j == MergeDown(Place(a))
<1>1. /\ i \in 1 .. n /\ j \in i .. n
      /\ j = n => chain[j] = a
  <2>1. a \in InUse
    BY NameAssumption DEF ArenaInv, Sound, InUseAgree, InUse, Used
  <2> QED BY <2>1, Stretch
<1>2. /\ chain' \in Seq(Address)
      /\ Len(chain') = IF j = n THEN i - 1 ELSE n - (j - i)
      /\ \A k \in 1 .. Len(chain') :
            /\ Kept(k, i, j) \in 1 .. n
            /\ chain'[k] = chain[Kept(k, i, j)]
            /\ block'[chain'[k]] = IF k = i THEN Merged(i, j) ELSE block[chain'[k]]
      /\ DOMAIN block' = ToSet(chain')
  BY ChainFreed
<1>3. n \in Nat /\ chain \in Seq(Address) /\ HunkSize \in Nat
  BY Places, Sums
<1>4. hunk_tempmark' = hunk_tempmark
  BY DEF CacheFree
<1>5. IF j = n
        THEN /\ hunk_high_used' = IF i = 1 THEN 0 ELSE HunkSize - chain[i - 1]
             /\ hunk_tempactive' = FALSE
        ELSE /\ hunk_high_used' = IF keep THEN hunk_high_used ELSE HighMark
             /\ hunk_tempactive' = (keep /\ hunk_tempactive)
  BY DEF CacheFree
<1> HIDE DEF i, j, n, a
<1>6. \A k \in 1 .. n : /\ chain[k] \in 0 .. HunkSize /\ Top(k) \in 0 .. HunkSize
                         /\ block[chain[k]].size = Top(k) - chain[k] /\ chain[k] < Top(k)
                         /\ chain[k] >= HunkSize - HighMark
                         /\ block[chain[k]] \in Headers
  <2> SUFFICES ASSUME NEW k \in 1 .. Len(chain)
               PROVE  /\ chain[k] \in 0 .. HunkSize /\ Top(k) \in 0 .. HunkSize
                      /\ block[chain[k]].size = Top(k) - chain[k] /\ chain[k] < Top(k)
                      /\ chain[k] >= HunkSize - HighMark
                      /\ block[chain[k]] \in Headers
    BY DEF n
  <2>1. block[chain[k]] \in Headers
    BY Places
  <2>2. /\ Top(k) \in Address /\ chain[k] \in Address
        /\ block[chain[k]].size \in 1 .. HunkSize
        /\ block[chain[k]].size = Top(k) - chain[k]
        /\ chain[k] >= HunkSize - HighMark
    BY Sizes
  <2>3. Top(k) \in 0 .. HunkSize /\ chain[k] \in 0 .. HunkSize
    BY <2>2 DEF Address
  <2> HIDE DEF Top
  <2> QED BY <1>3, <2>1, <2>2, <2>3
<1>7. \A k, m \in 1 .. n : k < m => chain[m] < chain[k]
  BY <1>3 DEF ArenaInv, Descending, n
<1>8. j # n => Len(chain') \in i .. n /\ Kept(Len(chain'), i, j) = n
  BY <1>1, <1>2, <1>3 DEF Kept
<1>9. Len(chain') \in Nat /\ i \in Nat /\ j \in Nat /\ j >= i /\ i >= 1
  BY <1>1, <1>2, <1>3
<1>10. Descending'
  <2> SUFFICES ASSUME NEW k \in 1 .. Len(chain'), NEW m \in 1 .. Len(chain'), k < m
               PROVE  chain'[m] < chain'[k]
    BY <1>2 DEF Descending
  <2>1. Kept(k, i, j) < Kept(m, i, j)
    BY <1>9 DEF Kept
  <2> QED BY <1>2, <1>7, <2>1
<1>11. ASSUME NEW k \in 1 .. Len(chain')
       PROVE  /\ block'[chain'[k]] \in Headers /\ block'[chain'[k]].size > 0
              /\ chain'[k] + block'[chain'[k]].size = Top(k)'
  <2>1. CASE k < i
    <3>1. Kept(k, i, j) = k /\ k \in 1 .. n /\ k # i
      BY <1>2, <1>9, <2>1 DEF Kept
    <3>2. chain'[k] = chain[k] /\ block'[chain[k]] = block[chain[k]]
      BY <1>2, <3>1
    <3>3. Top(k)' = Top(k)
      <4>1. k = 1 \/ (k - 1 \in 1 .. Len(chain') /\ k - 1 < i)
        BY <1>9, <2>1
      <4>2. k # 1 => chain'[k - 1] = chain[k - 1]
        BY <1>2, <4>1 DEF Kept
      <4> QED BY <4>2 DEF Top
    <3>4. /\ chain[k] \in 0 .. HunkSize /\ Top(k) \in 0 .. HunkSize
          /\ block[chain[k]].size = Top(k) - chain[k] /\ chain[k] < Top(k)
          /\ block[chain[k]] \in Headers
      BY <1>6, <3>1
    <3> HIDE DEF Top
    <3>5. block[chain[k]].size > 0 /\ chain[k] + block[chain[k]].size = Top(k)
      BY <3>4
    <3> QED BY <3>2, <3>3, <3>4, <3>5
  <2>2. CASE k = i
    <3>1. Kept(k, i, j) = j /\ j \in 1 .. n
      BY <1>1, <1>3, <1>9, <2>2 DEF Kept
    <3>2. chain'[k] = chain[j] /\ block'[chain'[k]] = Merged(i, j)
      BY <1>2, <2>2, <3>1
    <3>3. Top(k)' = Top(i)
      <4>1. k = 1 \/ (k - 1 \in 1 .. Len(chain') /\ k - 1 < i)
        BY <1>9, <2>2
      <4>2. k # 1 => chain'[k - 1] = chain[k - 1]
        BY <1>2, <4>1 DEF Kept
      <4> QED BY <2>2, <4>2 DEF Top
    <3>4. chain[j] < Top(i) /\ chain[j] \in 0 .. HunkSize /\ Top(i) \in 0 .. HunkSize
      <4>1. i = j \/ chain[j] < chain[i]
        BY <1>1, <1>7, <1>9, <3>1
      <4>2. chain[i] < Top(i) /\ chain[i] \in 0 .. HunkSize /\ Top(i) \in 0 .. HunkSize
            /\ chain[j] \in 0 .. HunkSize
        BY <1>1, <1>6, <3>1
      <4> HIDE DEF Top
      <4> QED BY <1>3, <4>1, <4>2
    <3> HIDE DEF Top
    <3>5. /\ Top(i) - chain[j] \in 0 .. HunkSize /\ Top(i) - chain[j] > 0
          /\ chain[j] + (Top(i) - chain[j]) = Top(i)
      BY <1>3, <3>4
    <3>6. Merged(i, j) \in Headers /\ Merged(i, j).size = Top(i) - chain[j]
      BY <3>5, SizeAssumption DEF Merged, Headers
    <3> QED BY <3>2, <3>3, <3>5, <3>6
  <2>3. CASE k > i
    <3> DEFINE m == k + (j - i)
    <3>1. Kept(k, i, j) = m /\ m \in 1 .. n /\ k # i
      BY <1>2, <1>9, <2>3 DEF Kept
    <3>2. chain'[k] = chain[m] /\ block'[chain[m]] = block[chain[m]]
      BY <1>2, <3>1
    <3>3. Top(k)' = Top(m)
      <4>1. k - 1 \in 1 .. Len(chain') /\ Kept(k - 1, i, j) = m - 1 /\ k # 1 /\ m # 1
        BY <1>9, <2>3 DEF Kept
      <4>2. chain'[k - 1] = chain[m - 1]
        BY <1>2, <4>1
      <4> QED BY <4>1, <4>2 DEF Top
    <3> HIDE DEF m
    <3>4. /\ chain[m] \in 0 .. HunkSize /\ Top(m) \in 0 .. HunkSize
          /\ block[chain[m]].size = Top(m) - chain[m] /\ chain[m] < Top(m)
          /\ block[chain[m]] \in Headers
      BY <1>6, <3>1
    <3> HIDE DEF Top
    <3>5. block[chain[m]].size > 0 /\ chain[m] + block[chain[m]].size = Top(m)
      BY <3>4
    <3> QED BY <3>2, <3>3, <3>4, <3>5
  <2> QED BY <1>9, <2>1, <2>2, <2>3
<1>12. \A b \in DOMAIN block' : \E k \in 1 .. Len(chain') : b = chain'[k]
  BY <1>2 DEF ToSet
<1>13. (\A b \in DOMAIN block' : block'[b] \in Headers) /\ Sized'
  BY <1>11, <1>12 DEF Sized
<1>14. HighMark = IF n = 0 THEN 0 ELSE HunkSize - chain[n]
  BY <1>3 DEF ArenaInv, Sound, Tiling, Last, n
<1>15. HighMark' = IF Len(chain') = 0 THEN 0 ELSE HunkSize - chain'[Len(chain')]
  <2>1. CASE j = n
    <3>1. HighMark' = IF i = 1 THEN 0 ELSE HunkSize - chain[i - 1]
      BY <1>5, <2>1 DEF HighMark
    <3>2. Len(chain') = i - 1
      BY <1>2, <2>1
    <3>3. i # 1 => i - 1 \in 1 .. Len(chain') /\ Kept(i - 1, i, j) = i - 1
      BY <1>9, <3>2 DEF Kept
    <3> QED BY <1>2, <1>9, <3>1, <3>2, <3>3
  <2>2. CASE j # n
    <3>1. HighMark' = HighMark
      BY <1>4, <1>5, <2>2 DEF HighMark
    <3>2. Len(chain') \in 1 .. Len(chain') /\ Len(chain') # 0 /\ n # 0
      BY <1>1, <1>3, <1>8, <1>9, <2>2
    <3>3. chain'[Len(chain')] = chain[n]
      BY <1>2, <1>8, <2>2, <3>2
    <3> QED BY <1>14, <3>1, <3>2, <3>3
  <2> QED BY <2>1, <2>2
<1>16. Tiling'
  <2>1. HighMark' = IF chain' = <<>> THEN 0 ELSE HunkSize - Last(chain')
    <3>1. chain' = <<>> <=> Len(chain') = 0
      BY <1>2, EmptySeq
    <3> QED BY <1>15, <3>1 DEF Last
  <2> QED BY <1>2, <1>11, <2>1 DEF Tiling
<1>17. /\ HighMark \in 0 .. HunkSize /\ HighMark <= hunk_high_used
       /\ hunk_high_used \in 0 .. HunkSize /\ hunk_tempactive \in BOOLEAN
       /\ hunk_tempactive => hunk_tempmark <= hunk_high_used
  BY Sums DEF ArenaInv, TypeOK, Sound, HunksApart
<1>18. hunk_high_used' \in 0 .. HunkSize /\ hunk_high_used' <= hunk_high_used
  <2>1. CASE j = n /\ i # 1
    <3>1. i - 1 \in 1 .. n
      BY <1>1, <1>3, <2>1
    <3>2. chain[i - 1] \in 0 .. HunkSize /\ chain[i - 1] >= HunkSize - HighMark
      BY <1>6, <3>1
    <3> QED BY <1>3, <1>5, <1>17, <2>1, <3>2
  <2>2. CASE j = n /\ i = 1
    BY <1>3, <1>5, <1>17, <2>2
  <2>3. CASE j # n
    BY <1>3, <1>5, <1>17, <2>3
  <2> QED BY <2>1, <2>2, <2>3
<1>19. hunk_tempactive' \in BOOLEAN /\ (hunk_tempactive' => hunk_tempmark' <= hunk_high_used')
  <2>1. CASE j = n
    BY <1>5, <2>1
  <2>2. CASE j # n
    BY <1>4, <1>5, <1>17, <2>2
  <2> QED BY <2>1, <2>2
<1> QED BY <1>2, <1>4, <1>10, <1>13, <1>16, <1>18, <1>19

LEMMA FreedLinks ==
    ASSUME ArenaInv, NEW c \in Users, data[c] # NoBlock, NEW keep \in BOOLEAN,
           CacheFree(c, keep)
    PROVE  /\ lru' \in Seq(DOMAIN block') /\ data' = [data EXCEPT ![c] = NoBlock]
           /\ Coalesced' /\ InUseAgree'
           /\ \A b \in InUse \ {data[c]} : b \in DOMAIN block' /\ block'[b] = block[b]
<1> DEFINE a == data[c] n == Len(chain) i == MergeUp(Place(a)) j == MergeDown(Place(a))
<1>1. a \in InUse
  BY NameAssumption DEF ArenaInv, Sound, InUseAgree, InUse, Used
<1>2. /\ i \in 1 .. n /\ j \in i .. n
      /\ \A k \in i .. j : chain[k] = a \/ ~Used(chain[k])
      /\ i > 1 => Used(chain[i - 1])
      /\ j < n => Used(chain[j + 1])
      /\ j = n => chain[j] = a
  BY <1>1, Stretch
<1>3. /\ chain' \in Seq(Address)
      /\ Len(chain') = IF j = n THEN i - 1 ELSE n - (j - i)
      /\ \A k \in 1 .. Len(chain') :
            /\ Kept(k, i, j) \in 1 .. n
            /\ chain'[k] = chain[Kept(k, i, j)]
            /\ block'[chain'[k]] = IF k = i THEN Merged(i, j) ELSE block[chain'[k]]
      /\ DOMAIN block' = ToSet(chain')
  BY ChainFreed
<1>4. /\ n \in Nat /\ chain \in Seq(Address)
      /\ \A k, m \in 1 .. n : chain[k] = chain[m] => k = m
      /\ \A k \in 1 .. n : chain[k] \in DOMAIN block
      /\ \A b \in DOMAIN block : Place(b) \in 1 .. n /\ chain[Place(b)] = b
  BY Places
<1>5. lru' = Without(lru, data[c]) /\ data' = [data EXCEPT ![c] = NoBlock]
  BY DEF CacheFree
<1>6. /\ \A k \in 1 .. n - 1 : Used(chain[k]) \/ Used(chain[k + 1])
      /\ n # 0 => Used(chain[n])
  <2>1. n # 0 => chain # <<>> /\ Last(chain) = chain[n]
    BY <1>4 DEF Last
  <2> QED BY <2>1 DEF ArenaInv, Sound, Coalesced
<1> HIDE DEF i, j, n, a
<1>7. Len(chain') \in Nat /\ i \in Nat /\ j \in Nat /\ j >= i /\ i >= 1
  BY <1>2, <1>3, <1>4
(* A block in use that is not a stays, and stays itself.                   *)
<1>8. ASSUME NEW b \in InUse, b # a
      PROVE  /\ b \in DOMAIN block' /\ block'[b] = block[b]
  <2> DEFINE m == Place(b)
  <2>1. m \in 1 .. n /\ chain[m] = b /\ Used(b)
    BY <1>4, <1>8 DEF InUse
  <2> HIDE DEF m
  <2>2. m < i \/ m > j
    <3>1. m \notin i .. j
      BY <1>2, <1>8, <2>1
    <3> QED BY <1>4, <1>7, <2>1, <3>1
  <2>3. PICK k \in 1 .. Len(chain') : Kept(k, i, j) = m /\ k # i
    <3>1. CASE m < i
      <4>1. m \in 1 .. Len(chain') /\ Kept(m, i, j) = m /\ m # i
        <5>1. m \in Nat /\ m >= 1 /\ (Len(chain') = i - 1 \/ Len(chain') = n - (j - i))
          BY <1>3, <1>4, <2>1
        <5>2. j <= n
          BY <1>2, <1>4
        <5>3. m <= Len(chain')
          BY <1>4, <1>7, <3>1, <5>1, <5>2
        <5> QED BY <1>4, <1>7, <3>1, <5>1, <5>3 DEF Kept
      <4> QED BY <4>1
    <3>2. CASE m > j
      <4>1. j # n
        BY <1>4, <1>7, <2>1, <3>2
      <4>2. m - (j - i) \in 1 .. Len(chain') /\ Kept(m - (j - i), i, j) = m /\ m - (j - i) # i
        BY <1>3, <1>4, <1>7, <2>1, <3>2, <4>1 DEF Kept
      <4> QED BY <4>2
    <3> QED BY <2>2, <3>1, <3>2
  <2>4. chain'[k] = b /\ block'[b] = block[b]
    BY <1>3, <2>1, <2>3
  <2>5. chain'[k] \in ToSet(chain')
    BY <1>3, <2>3 DEF ToSet
  <2> QED BY <1>3, <2>4, <2>5
<1>9. ASSUME NEW k \in 1 .. Len(chain')
      PROVE  chain'[k] \in InUse' <=> chain'[k] \in InUse \ {a}
  <2>0. chain'[k] \in DOMAIN block'
    BY <1>3 DEF ToSet
  <2>1. CASE k = i
    <3>1. Kept(k, i, j) = j /\ j \in i .. j
      BY <1>7, <2>1 DEF Kept
    <3>2. chain'[k] = chain[j] /\ block'[chain'[k]].user = NoUser
      BY <1>3, <2>1, <3>1 DEF Merged
    <3>3. chain[j] = a \/ ~Used(chain[j])
      BY <1>2, <3>1
    <3> QED BY <3>2, <3>3 DEF InUse, Used
  <2>2. CASE k # i
    <3>1. chain'[k] = chain[Kept(k, i, j)] /\ block'[chain'[k]] = block[chain'[k]]
      BY <1>3, <2>2
    <3>2. chain'[k] \in DOMAIN block
      BY <1>3, <1>4
    <3>3. chain'[k] # a
      <4>1. Place(a) \in i .. j /\ chain[Place(a)] = a
        <5>1. i = IF Place(a) > 1 /\ ~Used(chain[Place(a) - 1]) THEN Place(a) - 1 ELSE Place(a)
          BY DEF i, MergeUp
        <5>2. j = IF Place(a) < n /\ ~Used(chain[Place(a) + 1]) THEN Place(a) + 1 ELSE Place(a)
          BY DEF j, n, MergeDown
        <5>3. Place(a) \in 1 .. n /\ chain[Place(a)] = a
          BY <1>1, <1>4 DEF InUse
        <5> QED BY <1>4, <5>1, <5>2, <5>3
      <4>2. Kept(k, i, j) < i \/ Kept(k, i, j) > j
        BY <1>7, <2>2 DEF Kept
      <4>3. Kept(k, i, j) \in 1 .. n /\ Place(a) \in 1 .. n
        BY <1>1, <1>3, <1>4 DEF InUse
      <4>4. Kept(k, i, j) # Place(a)
        BY <1>4, <1>7, <4>1, <4>2, <4>3
      <4> QED BY <1>4, <3>1, <4>1, <4>3, <4>4
    <3> QED BY <2>0, <3>1, <3>2, <3>3 DEF InUse, Used
  <2> QED BY <2>1, <2>2
<1>10. InUse' = InUse \ {a}
  <2>1. InUse \ {a} \subseteq InUse'
    BY <1>8 DEF InUse, Used
  <2>2. ASSUME NEW b \in InUse' PROVE b \in InUse \ {a}
    <3>1. \E k \in 1 .. Len(chain') : b = chain'[k]
      BY <1>3, <2>2 DEF InUse, ToSet
    <3> QED BY <1>9, <2>2, <3>1
  <2> QED BY <2>1, <2>2
<1>11. InUseAgree' /\ lru' \in Seq(DOMAIN block')
  <2>1. \A b \in InUse' : block'[b].user = block[b].user
    BY <1>8, <1>10
  <2> QED BY <1>5, <1>10, <2>1, LinksFreed DEF ArenaInv, Sound, a
<1>12. \A k \in 1 .. Len(chain') : Used(chain[k])' <=> k # i /\ Used(chain[Kept(k, i, j)])
  BY <1>3 DEF Used, Merged
<1>13. ASSUME NEW k \in 1 .. Len(chain') - 1
       PROVE  Used(chain[k])' \/ Used(chain[k + 1])'
  <2>0. k \in 1 .. Len(chain') /\ k + 1 \in 1 .. Len(chain')
    BY <1>7
  <2>1. CASE k = i
    <3>1. j # n /\ j < n /\ Kept(k + 1, i, j) = j + 1 /\ k + 1 # i
      <4>1. j # n
        BY <1>3, <1>7, <2>1
      <4>2. j < n
        BY <1>2, <1>4, <4>1
      <4> QED BY <1>7, <2>1, <4>1, <4>2 DEF Kept
    <3> QED BY <1>2, <1>12, <2>0, <3>1
  <2>2. CASE k + 1 = i
    <3>1. Kept(k, i, j) = i - 1 /\ k # i /\ i > 1
      BY <1>7, <2>2 DEF Kept
    <3> QED BY <1>2, <1>12, <2>0, <3>1
  <2>3. CASE k # i /\ k + 1 # i
    <3>1. Kept(k + 1, i, j) = Kept(k, i, j) + 1
      BY <1>7, <2>3 DEF Kept
    <3>2. Kept(k, i, j) \in 1 .. n - 1
      BY <1>3, <1>4, <2>0, <3>1
    <3> QED BY <1>6, <1>12, <2>0, <2>3, <3>1, <3>2
  <2> QED BY <2>1, <2>2, <2>3
<1>14. (chain # <<>> => Used(Last(chain)))'
  <2> SUFFICES ASSUME Len(chain') # 0 PROVE Used(chain[Len(chain)])'
    <3>1. chain' = <<>> <=> Len(chain') = 0
      BY <1>3, EmptySeq
    <3> QED BY <3>1 DEF Last
  <2>0. Len(chain') \in 1 .. Len(chain')
    BY <1>7
  <2>1. CASE j = n
    <3>1. Len(chain') = i - 1 /\ Len(chain') # i /\ Kept(Len(chain'), i, j) = i - 1 /\ i > 1
      BY <1>3, <1>7, <2>1 DEF Kept
    <3> QED BY <1>2, <1>12, <2>0, <3>1
  <2>2. CASE j # n
    <3>1. j < n
      BY <1>2, <1>4, <2>2
    <3>2. Len(chain') # i /\ Kept(Len(chain'), i, j) = n /\ n # 0
      BY <1>3, <1>4, <1>7, <2>2, <3>1 DEF Kept
    <3> QED BY <1>6, <1>12, <2>0, <3>2
  <2> QED BY <2>1, <2>2
<1>15. Coalesced'
  BY <1>13, <1>14 DEF Coalesced
<1> QED BY <1>5, <1>8, <1>11, <1>15 DEF a

----------------------------------------------------------------------------
(* Cache_Alloc: a block is taken whole, carved, or made at the bottom.     *)

LEMMA Work ==
    ASSUME ArenaInv, running.loop = "alloc"
    PROVE  /\ running.user \in Users /\ data[running.user] = NoBlock
           /\ running.size \in Nat \ {0} /\ running.size >= Header
           /\ running.lock \in BOOLEAN
<1>1. running \in [loop : {"alloc"}, user : Users, size : CacheSizes, lock : BOOLEAN]
  <2>1. running \in Running
    BY DEF ArenaInv, TypeOK
  <2> QED BY <2>1 DEF Running, Idle
<1>2. running.size \in Nat /\ running.size >= Header
  <2>1. running.size \in CacheSizes
    BY <1>1
  <2> QED BY <2>1, SizeAssumption
<1>3. running.size # 0
  BY <1>2, SizeAssumption
<1> QED BY <1>1, <1>2, <1>3 DEF ArenaInv, Wanting

LEMMA InstalledFacts ==
    ASSUME ArenaInv, running.loop = "alloc", NEW n \in 0 .. HunkSize
    PROVE  /\ Installed(n) \in Headers
           /\ Installed(n).size = n /\ Installed(n).user = running.user
           /\ Installed(n).user # NoUser
BY Work, SizeAssumption, NameAssumption DEF Installed, Headers

(* The remainder test of Cache_TryAlloc, which compares what wraps: any    *)
(* block larger than asked for is to be carved, however small the rest.    *)
LEMMA CarvesAll ==
    ASSUME ArenaInv, NEW n \in Nat, NEW have \in 0 .. HunkSize, n <= have
    PROVE  Carves(n, have) <=> n < have
<1>1. SizeMod \in Nat /\ SizeMod > HunkSize + Header /\ HunkSize \in Nat /\ Header \in Nat /\ Header > 0
  BY SizeAssumption
<1>2. CASE n = have
  <2>1. (n - have) % SizeMod = 0
    BY <1>1, <1>2
  <2> QED BY <1>1, <1>2, <2>1 DEF Carves
<1>3. CASE n < have
  <2>1. (n - have) % SizeMod = n - have + SizeMod
    BY <1>1, <1>3
  <2> QED BY <1>1, <1>3, <2>1 DEF Carves
<1> QED BY <1>2, <1>3

LEMMA WholeTaken ==
    ASSUME ArenaInv, AllocWhole
    PROVE  /\ \A b \in DOMAIN block' : block'[b] \in Headers
           /\ DOMAIN block' = ToSet(chain')
           /\ lru' \in Seq(DOMAIN block') /\ data' \in [Users -> Address \cup {NoBlock}]
           /\ Tiling' /\ Coalesced' /\ InUseAgree' /\ Sized'
           /\ \A b \in InUse : b \in DOMAIN block' /\ block'[b] = block[b]
<1>0. running.loop = "alloc"
  BY DEF AllocWhole, Allocating
<1>1. PICK i \in DOMAIN chain :
        /\ FirstFit(i, running.size)
        /\ block' = [block EXCEPT ![chain[i]] = Installed(@.size)]
        /\ Install(chain[i])
  BY DEF AllocWhole
<1> DEFINE a == chain[i] c == running.user
<1>2. /\ chain \in Seq(Address) /\ i \in 1 .. Len(chain)
      /\ a \in Address /\ a \in DOMAIN block /\ ~Used(a) /\ block[a] \in Headers
      /\ block[a].size \in 0 .. HunkSize
  <2>1. i \in 1 .. Len(chain) /\ chain \in Seq(Address)
    BY Places
  <2> QED BY <1>1, <2>1, Places DEF FirstFit, Fits, Headers
<1>3. /\ c \in Users /\ data[c] = NoBlock
      /\ Installed(block[a].size) \in Headers /\ Installed(block[a].size).size = block[a].size
      /\ Installed(block[a].size).user = c /\ c # NoUser
  <2>1. c \in Users /\ data[c] = NoBlock
    BY <1>0, Work
  <2> QED BY <1>0, <1>2, <2>1, InstalledFacts, NameAssumption
<1>4. UNCHANGED <<chain, hunk_high_used, hunk_tempactive, hunk_tempmark>>
  BY <1>1 DEF AllocWhole, Install
<1>5. block' = [block EXCEPT ![a] = Installed(block[a].size)]
  BY <1>1, <1>2
<1> HIDE DEF a, c
<1>6. /\ DOMAIN block' = DOMAIN block /\ block'[a] = Installed(block[a].size)
      /\ \A b \in DOMAIN block : b # a => block'[b] = block[b]
      /\ \A b \in DOMAIN block : block'[b].size = block[b].size /\ block'[b] \in Headers
  BY <1>2, <1>3, <1>5 DEF ArenaInv, TypeOK
<1>7. InUse' = InUse \cup {a} /\ a \notin InUse
  BY <1>2, <1>3, <1>6 DEF InUse, Used
<1>8. InUseAgree' /\ lru' \in Seq(DOMAIN block') /\ data' = [data EXCEPT ![c] = a]
  <2>1. lru' = Recent(a) /\ data' = [data EXCEPT ![c] = a]
    BY <1>1 DEF Install, a, c
  <2>2. block'[a].user = c /\ \A b \in InUse : block'[b].user = block[b].user
    BY <1>3, <1>6, <1>7 DEF InUse
  <2> QED BY <1>2, <1>3, <1>7, <2>1, <2>2, LinksTaken DEF ArenaInv, Sound
<1>9. Tiling' /\ Sized'
  <2>1. \A k \in DOMAIN chain : chain[k] \in DOMAIN block
    BY Places
  <2> QED BY <1>4, <1>6, <2>1 DEF ArenaInv, Sound, Tiling, Sized, Top, HighMark
<1>10. Coalesced'
  <2>1. \A k \in 1 .. Len(chain) : Used(chain[k]) => Used(chain[k])'
    <3> SUFFICES ASSUME NEW k \in 1 .. Len(chain), Used(chain[k]) PROVE Used(chain[k])'
      OBVIOUS
    <3>1. chain[k] \in DOMAIN block /\ chain[k] # a
      BY <1>2, Places
    <3> QED BY <1>4, <1>6, <3>1 DEF Used
  <2>2. \A k \in 1 .. Len(chain) - 1 : Used(chain[k])' \/ Used(chain[k + 1])'
    BY <1>2, <2>1 DEF ArenaInv, Sound, Coalesced
  <2>3. chain # <<>> => Used(Last(chain))'
    BY <1>2, <1>4, <2>1 DEF ArenaInv, Sound, Coalesced, Last
  <2> QED BY <1>4, <2>2, <2>3 DEF Coalesced
<1>11. \A b \in InUse : b \in DOMAIN block' /\ block'[b] = block[b]
  BY <1>6, <1>7 DEF InUse
<1>12. data' \in [Users -> Address \cup {NoBlock}]
  BY <1>2, <1>8 DEF ArenaInv, TypeOK
<1> QED BY <1>4, <1>6, <1>8, <1>9, <1>10, <1>11, <1>12 DEF ArenaInv, TypeOK

LEMMA CarvedTaken ==
    ASSUME ArenaInv, AllocCarved
    PROVE  /\ chain' \in Seq(Address) /\ DOMAIN block' = ToSet(chain')
           /\ \A b \in DOMAIN block' : block'[b] \in Headers
           /\ lru' \in Seq(DOMAIN block') /\ data' \in [Users -> Address \cup {NoBlock}]
           /\ Tiling' /\ Coalesced' /\ InUseAgree' /\ Sized' /\ Descending'
           /\ \A b \in InUse : b \in DOMAIN block' /\ block'[b] = block[b]
<1>0. running.loop = "alloc"
  BY DEF AllocCarved, Allocating
<1>1. PICK i \in DOMAIN chain :
        LET rest == block[chain[i]].size - running.size IN
        /\ FirstFit(i, running.size)
        /\ Carves(running.size, block[chain[i]].size)
        /\ chain' = InsertAt(chain, i, chain[i] + rest)
        /\ block' = [b \in ToSet(chain') |->
                       CASE b = chain[i] + rest -> Installed(running.size)
                         [] b = chain[i] -> [block[chain[i]] EXCEPT !.size = rest]
                         [] OTHER -> block[b]]
        /\ Install(chain[i] + rest)
  BY DEF AllocCarved
<1> DEFINE a == chain[i] c == running.user n == running.size h == block[a].size
           e == a + (h - n)
<1>2. /\ chain \in Seq(Address) /\ i \in 1 .. Len(chain) /\ Len(chain) \in Nat
      /\ a \in DOMAIN block /\ block[a] \in Headers
      /\ HunkSize \in Nat
      /\ \A k, m \in 1 .. Len(chain) : chain[k] = chain[m] => k = m
      /\ \A k \in 1 .. Len(chain) : chain[k] \in DOMAIN block
  BY Places, Sums
<1>3. ~Used(a) /\ n <= h /\ h \in 1 .. HunkSize /\ a \in 0 .. HunkSize
      /\ Top(i) \in 0 .. HunkSize /\ h = Top(i) - a
  <2>1. Top(i) \in Address /\ a \in Address /\ h \in 1 .. HunkSize /\ h = Top(i) - a
    BY <1>2, Sizes
  <2>2. ~Used(a) /\ h >= n
    BY <1>1 DEF FirstFit, Fits
  <2>3. n \in Nat
    BY <1>0, Work
  <2> HIDE DEF h, a, n, Top
  <2> QED BY <2>1, <2>2, <2>3 DEF Address
<1>4. /\ c \in Users /\ data[c] = NoBlock /\ n \in Nat /\ n > 0
  BY <1>0, Work
<1>5. n < h
  BY <1>1, <1>2, <1>3, <1>4, CarvesAll
<1>6. /\ chain' = InsertAt(chain, i, e)
      /\ block' = [b \in ToSet(chain') |->
                     CASE b = e -> Installed(n)
                       [] b = a -> [block[a] EXCEPT !.size = h - n]
                       [] OTHER -> block[b]]
      /\ lru' = Recent(e) /\ data' = [data EXCEPT ![c] = e]
      /\ UNCHANGED <<hunk_tempmark, hunk_high_used, hunk_tempactive>>
  BY <1>1 DEF Install, AllocCarved
<1> HIDE DEF a, c, n, h, Top
<1>7. e \in 0 .. HunkSize /\ a < e /\ e + n = Top(i) /\ e < Top(i) /\ n \in 0 .. HunkSize
      /\ h - n \in 1 .. HunkSize /\ a + (h - n) = e
  <2>1. HunkSize \in Nat /\ a \in Int /\ h \in Int /\ Top(i) \in Int /\ h = Top(i) - a
    BY <1>2, <1>3
  <2>2. 0 <= a /\ Top(i) <= HunkSize /\ h <= HunkSize
    BY <1>2, <1>3
  <2> HIDE DEF e
  <2>3. e = a + (h - n)
    BY DEF e
  <2> QED BY <1>4, <1>5, <2>1, <2>2, <2>3
<1> HIDE DEF e
<1>8. /\ chain' \in Seq(Address) /\ Len(chain') = Len(chain) + 1
      /\ \A k \in 1 .. i - 1 : chain'[k] = chain[k]
      /\ chain'[i] = e
      /\ \A k \in i + 1 .. Len(chain') : chain'[k] = chain[k - 1]
  <2>1. e \in Address
    BY <1>7 DEF Address
  <2>2. chain \in Seq(Address) /\ i \in 1 .. Len(chain)
    BY <1>2
  <2>3. InsertAt(chain, i, e) \in Seq(Address)
    BY <2>1, <2>2, Inserted
  <2>4. Len(InsertAt(chain, i, e)) = Len(chain) + 1
    BY <2>1, <2>2, Inserted
  <2>5. \A k \in 1 .. i - 1 : InsertAt(chain, i, e)[k] = chain[k]
    BY <2>1, <2>2, Inserted
  <2>6. InsertAt(chain, i, e)[i] = e
    BY <2>1, <2>2, Inserted
  <2>7. ASSUME NEW k \in i + 1 .. Len(InsertAt(chain, i, e))
        PROVE  InsertAt(chain, i, e)[k] = chain[k - 1]
    <3>1. k \in i + 1 .. Len(chain) + 1
      BY <1>2, <2>4, <2>7
    <3> QED BY <2>1, <2>2, <3>1, InsertedAbove
  <2> QED BY <1>6, <2>3, <2>4, <2>5, <2>6, <2>7, Zenon
<1>9. /\ chain[i] = a
      /\ \A k \in 1 .. Len(chain) : chain[k] \in 0 .. HunkSize
      /\ \A k \in 1 .. i - 1 : chain[k] >= Top(i)
      /\ \A k \in i .. Len(chain) : chain[k] < e
      /\ \A k, m \in 1 .. Len(chain) : k < m => chain[m] < chain[k]
  <2>1. \A k, m \in 1 .. Len(chain) : k < m => chain[m] < chain[k]
    BY <1>2 DEF ArenaInv, Descending
  <2>2. \A k \in 1 .. Len(chain) : chain[k] \in 0 .. HunkSize
    BY <1>2 DEF Address
  <2>3. chain[i] = a
    BY DEF a
  <2>4. ASSUME NEW k \in 1 .. i - 1 PROVE chain[k] >= Top(i)
    <3>1. i - 1 \in 1 .. Len(chain) /\ k \in 1 .. Len(chain) /\ Top(i) = chain[i - 1]
      BY <1>2, <2>4 DEF Top
    <3>2. k = i - 1 \/ k < i - 1
      BY <1>2, <2>4
    <3> QED BY <1>2, <2>1, <2>2, <3>1, <3>2
  <2>5. ASSUME NEW k \in i .. Len(chain) PROVE chain[k] < e
    <3>1. k \in 1 .. Len(chain) /\ (k = i \/ i < k)
      BY <1>2, <2>5
    <3>2. k = i \/ chain[k] < a
      BY <1>2, <2>1, <2>3, <3>1
    <3>3. chain[k] \in Int /\ a \in Int /\ e \in Int /\ a < e
      BY <1>3, <1>7, <2>2, <3>1, SMTT(30)
    <3>4. k = i => chain[k] = a
      BY <2>3
    <3> QED BY <3>2, <3>3, <3>4
  <2> QED BY <2>1, <2>2, <2>3, <2>4, <2>5
<1>10. \A k \in 1 .. Len(chain) : chain[k] # e
  <2>1. \A k \in 1 .. Len(chain) : k \in 1 .. i - 1 \/ k \in i .. Len(chain)
    BY <1>2
  <2>2. e \in Int /\ Top(i) \in Int /\ e < Top(i)
    BY <1>3, <1>7
  <2> SUFFICES ASSUME NEW k \in 1 .. Len(chain) PROVE chain[k] # e
    OBVIOUS
  <2>3. chain[k] \in Int /\ (chain[k] >= Top(i) \/ chain[k] < e)
    BY <1>9, <2>1
  <2> QED BY <2>2, <2>3
<1>11. DOMAIN block' = ToSet(chain') /\ ToSet(chain') = DOMAIN block \cup {e}
  <2>1. DOMAIN block = ToSet(chain) /\ DOMAIN block' = ToSet(chain')
    BY <1>6 DEF ArenaInv, TypeOK
  <2>2. ASSUME NEW k \in 1 .. Len(chain') PROVE chain'[k] \in ToSet(chain) \cup {e}
    <3>1. k \in 1 .. i - 1 \/ k = i \/ k \in i + 1 .. Len(chain')
      BY <1>2, <1>8
    <3>2. k # i => k \in 1 .. Len(chain) \/ k - 1 \in 1 .. Len(chain)
      BY <1>2, <1>8
    <3>3. k \in 1 .. i - 1 => k \in 1 .. Len(chain)
      BY <1>2
    <3>4. k \in i + 1 .. Len(chain') => k - 1 \in 1 .. Len(chain)
      BY <1>2, <1>8
    <3>5. \A m \in 1 .. Len(chain) : chain[m] \in ToSet(chain)
      BY <1>2, <2>1
    <3> QED BY <1>8, <3>1, <3>3, <3>4, <3>5
  <2>3. ASSUME NEW m \in 1 .. Len(chain) PROVE chain[m] \in ToSet(chain')
    <3>1. CASE m < i
      <4>1. m \in 1 .. i - 1 /\ m \in 1 .. Len(chain')
        BY <1>2, <1>8, <3>1
      <4> QED BY <1>8, <4>1 DEF ToSet
    <3>2. CASE m >= i
      <4>1. m + 1 \in i + 1 .. Len(chain') /\ m + 1 \in 1 .. Len(chain') /\ (m + 1) - 1 = m
        BY <1>2, <1>8, <3>2
      <4>2. chain'[m + 1] = chain[m]
        BY <1>8, <4>1
      <4>3. \A k \in 1 .. Len(chain') : chain'[k] \in ToSet(chain')
        BY <1>8 DEF ToSet
      <4> QED BY <4>1, <4>2, <4>3
    <3> QED BY <1>2, <3>1, <3>2
  <2>4. e \in ToSet(chain')
    <3>1. i \in 1 .. Len(chain')
      BY <1>2, <1>8
    <3> QED BY <1>8, <3>1 DEF ToSet
  <2>5. ToSet(chain') \subseteq ToSet(chain) \cup {e}
    BY <1>8, <2>2 DEF ToSet
  <2>6. ToSet(chain) \subseteq ToSet(chain')
    BY <1>2, <2>3 DEF ToSet
  <2> QED BY <2>1, <2>4, <2>5, <2>6
<1>12. /\ e \notin DOMAIN block /\ a # e
       /\ block'[e] = Installed(n)
       /\ block'[a] = [block[a] EXCEPT !.size = h - n]
       /\ \A b \in DOMAIN block : b # a => block'[b] = block[b]
  <2>1. e \notin DOMAIN block
    BY <1>2, <1>10, Places
  <2> QED BY <1>2, <1>6, <1>11, <2>1
<1>13. /\ Installed(n) \in Headers /\ Installed(n).size = n /\ Installed(n).user = c /\ c # NoUser
  BY <1>0, <1>4, <1>7, InstalledFacts, NameAssumption DEF c
<1>14. block'[a] \in Headers /\ block'[a].size = h - n /\ block'[a].user = block[a].user
  <2>1. h - n \in 0 .. HunkSize
    BY <1>2, <1>7
  <2> QED BY <1>2, <1>12, <2>1 DEF Headers
<1>15. (\A b \in DOMAIN block' : block'[b] \in Headers) /\ Sized'
  <2> SUFFICES ASSUME NEW b \in DOMAIN block' PROVE block'[b] \in Headers /\ block'[b].size > 0
    BY DEF Sized
  <2>1. CASE b = e
    BY <1>4, <1>12, <1>13, <2>1
  <2>2. CASE b = a
    BY <1>7, <1>14, <2>2
  <2>3. CASE b # e /\ b # a
    BY <1>11, <1>12, <2>3 DEF ArenaInv, TypeOK, Sized
  <2> QED BY <2>1, <2>2, <2>3
<1>16. InUse' = InUse \cup {e} /\ e \notin InUse
  <2>1. InUse' \subseteq InUse \cup {e}
    BY <1>3, <1>11, <1>12, <1>14 DEF InUse, Used
  <2>2. InUse \subseteq InUse'
    BY <1>3, <1>11, <1>12 DEF InUse, Used
  <2>3. e \in InUse'
    BY <1>11, <1>12, <1>13 DEF InUse, Used
  <2> QED BY <1>12, <2>1, <2>2, <2>3 DEF InUse
<1>17. \A b \in InUse : b \in DOMAIN block' /\ block'[b] = block[b]
  BY <1>3, <1>11, <1>12 DEF InUse
<1>18. InUseAgree' /\ lru' \in Seq(DOMAIN block')
  <2>1. e \in Address /\ block'[e].user = c
    BY <1>7, <1>12, <1>13 DEF Address
  <2>2. \A b \in InUse : block'[b].user = block[b].user
    BY <1>17
  <2> QED BY <1>4, <1>6, <1>16, <2>1, <2>2, LinksTaken DEF ArenaInv, Sound
<1>19. data' \in [Users -> Address \cup {NoBlock}]
  BY <1>6, <1>7 DEF ArenaInv, TypeOK, Address
<1>20. Descending'
  <2> SUFFICES ASSUME NEW k \in 1 .. Len(chain'), NEW m \in 1 .. Len(chain'), k < m
               PROVE  chain'[m] < chain'[k]
    BY <1>8 DEF Descending
  <2>1. CASE m < i
    <3>1. k \in 1 .. i - 1 /\ m \in 1 .. i - 1 /\ k \in 1 .. Len(chain) /\ m \in 1 .. Len(chain)
      BY <1>2, <1>8, <2>1
    <3> QED BY <1>8, <1>9, <3>1
  <2>2. CASE m = i
    <3>1. k \in 1 .. i - 1 /\ k \in 1 .. Len(chain)
      BY <1>2, <1>8, <2>2
    <3>2. chain[k] >= Top(i) /\ chain[k] \in 0 .. HunkSize
      BY <1>9, <3>1
    <3>3. e \in Int /\ Top(i) \in Int /\ e < Top(i) /\ chain[k] \in Int /\ chain[k] >= Top(i)
      BY <1>3, <1>7, <3>2, SMTT(30)
    <3>4. e < chain[k]
      BY <3>3
    <3> QED BY <1>8, <2>2, <3>1, <3>4
  <2>3. CASE m > i /\ k < i
    <3>1. /\ k \in 1 .. i - 1 /\ m \in i + 1 .. Len(chain')
          /\ k \in 1 .. Len(chain) /\ m - 1 \in 1 .. Len(chain) /\ k < m - 1
      BY <1>2, <1>8, <2>3
    <3> QED BY <1>8, <1>9, <3>1
  <2>4. CASE m > i /\ k = i
    <3>1. m \in i + 1 .. Len(chain') /\ m - 1 \in i .. Len(chain)
      BY <1>2, <1>8, <2>4
    <3> QED BY <1>8, <1>9, <2>4, <3>1
  <2>5. CASE m > i /\ k > i
    <3>1. /\ k \in i + 1 .. Len(chain') /\ m \in i + 1 .. Len(chain')
          /\ k - 1 \in 1 .. Len(chain) /\ m - 1 \in 1 .. Len(chain) /\ k - 1 < m - 1
      BY <1>2, <1>8, <2>5
    <3> QED BY <1>8, <1>9, <3>1
  <2> QED BY <1>2, <1>8, <2>1, <2>2, <2>3, <2>4, <2>5
<1>21. ASSUME NEW k \in 1 .. Len(chain')
       PROVE  chain'[k] + block'[chain'[k]].size = Top(k)'
  <2>0. \A m \in 1 .. Len(chain) : chain[m] + block[chain[m]].size = Top(m)
    BY <1>2 DEF ArenaInv, Sound, Tiling
  <2>1. CASE k < i
    <3>1. k \in 1 .. i - 1 /\ k \in 1 .. Len(chain) /\ (k = 1 \/ k - 1 \in 1 .. i - 1) /\ k # i
      BY <1>2, <1>8, <2>1
    <3>2. chain'[k] = chain[k] /\ Top(k)' = Top(k)
      BY <1>8, <3>1 DEF Top
    <3>3. chain[k] # a /\ chain[k] \in DOMAIN block
      BY <1>2, <1>9, <3>1
    <3> QED BY <1>12, <2>0, <3>1, <3>2, <3>3
  <2>2. CASE k = i
    <3>1. Top(k)' = Top(i)
      <4>1. i = 1 \/ i - 1 \in 1 .. i - 1
        BY <1>2
      <4> QED BY <1>8, <2>2, <4>1 DEF Top
    <3> QED BY <1>7, <1>8, <1>12, <1>13, <2>2, <3>1
  <2>3. CASE k = i + 1
    <3>1. k \in i + 1 .. Len(chain') /\ k - 1 = i /\ k # 1
      BY <1>2, <1>8, <2>3
    <3>2. chain'[k] = a /\ Top(k)' = e
      BY <1>8, <1>9, <3>1 DEF Top
    <3> QED BY <1>7, <1>14, <3>2
  <2>4. CASE k > i + 1
    <3>1. /\ k \in i + 1 .. Len(chain') /\ k - 1 \in i + 1 .. Len(chain') /\ k # 1 /\ k - 1 # 1
          /\ k - 1 \in 1 .. Len(chain) /\ k - 1 # i
      BY <1>2, <1>8, <2>4
    <3>2. chain'[k] = chain[k - 1] /\ Top(k)' = Top(k - 1)
      BY <1>8, <3>1 DEF Top
    <3>3. chain[k - 1] # a /\ chain[k - 1] \in DOMAIN block
      BY <1>2, <1>9, <3>1
    <3> QED BY <1>12, <2>0, <3>1, <3>2, <3>3
  <2> QED BY <1>2, <1>8, <2>1, <2>2, <2>3, <2>4
<1>22. /\ Used(chain[Len(chain)]) /\ i < Len(chain)
       /\ chain # <<>> /\ Last(chain) = chain[Len(chain)]
       /\ chain' # <<>> /\ Last(chain') = chain[Len(chain)]
  <2>1. chain # <<>> /\ Last(chain) = chain[Len(chain)]
    BY <1>2 DEF Last
  <2>2. Used(chain[Len(chain)])
    BY <2>1 DEF ArenaInv, Sound, Coalesced
  <2>3. i < Len(chain)
    BY <1>2, <1>3, <1>9, <2>2
  <2>4. Len(chain') \in i + 1 .. Len(chain') /\ Len(chain') - 1 = Len(chain)
    BY <1>2, <1>8
  <2>5. chain' # <<>> /\ Last(chain') = chain'[Len(chain')]
    BY <1>2, <1>8 DEF Last
  <2> QED BY <1>8, <2>1, <2>2, <2>3, <2>4, <2>5
<1>23. Tiling'
  <2>1. HighMark' = HunkSize - Last(chain')
    BY <1>6, <1>22 DEF ArenaInv, Sound, Tiling, HighMark
  <2> QED BY <1>8, <1>21, <1>22, <2>1 DEF Tiling
<1>24. \A k \in 1 .. Len(chain) : Used(chain[k]) => block'[chain[k]].user # NoUser
  BY <1>2, <1>3, <1>12 DEF Used
<1>25. ASSUME NEW k \in 1 .. Len(chain') - 1
       PROVE  Used(chain[k])' \/ Used(chain[k + 1])'
  <2>1. CASE k = i \/ k + 1 = i
    BY <1>8, <1>12, <1>13, <2>1 DEF Used
  <2>2. CASE k + 1 < i
    <3>1. k \in 1 .. i - 1 /\ k + 1 \in 1 .. i - 1 /\ k \in 1 .. Len(chain) - 1
          /\ k \in 1 .. Len(chain) /\ k + 1 \in 1 .. Len(chain)
      BY <1>2, <1>8, <2>2
    <3>2. Used(chain[k]) \/ Used(chain[k + 1])
      BY <3>1 DEF ArenaInv, Sound, Coalesced
    <3> QED BY <1>8, <1>24, <3>1, <3>2 DEF Used
  <2>3. CASE k > i
    <3>1. k \in i + 1 .. Len(chain') /\ k + 1 \in i + 1 .. Len(chain') /\ k - 1 \in 1 .. Len(chain) - 1
          /\ k \in 1 .. Len(chain) /\ k - 1 \in 1 .. Len(chain) /\ (k + 1) - 1 = k /\ (k - 1) + 1 = k
      BY <1>2, <1>8, <2>3
    <3>2. Used(chain[k - 1]) \/ Used(chain[k])
      BY <3>1 DEF ArenaInv, Sound, Coalesced
    <3>3. chain'[k] = chain[k - 1] /\ chain'[k + 1] = chain[k]
      BY <1>8, <3>1
    <3> QED BY <1>24, <3>1, <3>2, <3>3 DEF Used
  <2> QED BY <1>2, <1>8, <2>1, <2>2, <2>3
<1>26. Coalesced'
  <2>1. Used(Last(chain))'
    BY <1>2, <1>22, <1>24 DEF Used
  <2> QED BY <1>25, <2>1 DEF Coalesced
<1> QED BY <1>8, <1>11, <1>15, <1>17, <1>18, <1>19, <1>20, <1>23, <1>26

LEMMA BottomTaken ==
    ASSUME ArenaInv, AllocBottom
    PROVE  /\ chain' \in Seq(Address) /\ DOMAIN block' = ToSet(chain')
           /\ \A b \in DOMAIN block' : block'[b] \in Headers
           /\ lru' \in Seq(DOMAIN block') /\ data' \in [Users -> Address \cup {NoBlock}]
           /\ hunk_high_used' \in 0 .. HunkSize /\ hunk_tempactive' = FALSE
           /\ hunk_low_used + hunk_high_used' <= HunkSize
           /\ Tiling' /\ Coalesced' /\ InUseAgree' /\ Sized' /\ Descending'
           /\ \A b \in InUse : b \in DOMAIN block' /\ block'[b] = block[b]
<1>0. running.loop = "alloc"
  BY DEF AllocBottom, Allocating
<1> DEFINE c == running.user n == running.size a == HunkSize - HighMark - n l == Len(chain)
<1>1. /\ c \in Users /\ data[c] = NoBlock /\ n \in Nat /\ n > 0
  BY <1>0, Work
<1>2. /\ HunkSize \in Nat /\ HighMark \in 0 .. HunkSize /\ hunk_low_used \in 0 .. HunkSize
      /\ HunkSize - hunk_low_used - HighMark >= n
  BY Sums DEF AllocBottom, Room
<1>3. /\ hunk_high_used' = HighMark + n /\ hunk_tempactive' = FALSE
      /\ chain' = Append(chain, a)
      /\ block' = [b \in ToSet(chain') |-> IF b = a THEN Installed(n) ELSE block[b]]
      /\ lru' = Recent(a) /\ data' = [data EXCEPT ![c] = a]
  BY DEF AllocBottom, Install
<1>4. /\ chain \in Seq(Address) /\ l \in Nat
      /\ \A k \in 1 .. l : chain[k] \in DOMAIN block
      /\ DOMAIN block = ToSet(chain)
  BY Places DEF ArenaInv, TypeOK
<1>5. HighMark = IF l = 0 THEN 0 ELSE HunkSize - chain[l]
  <2>1. (chain = <<>> <=> l = 0) /\ (l # 0 => Last(chain) = chain[l])
    BY <1>4 DEF Last
  <2> QED BY <2>1 DEF ArenaInv, Sound, Tiling
<1>6. l # 0 => Used(chain[l])
  <2>1. (chain = <<>> <=> l = 0) /\ (l # 0 => Last(chain) = chain[l])
    BY <1>4 DEF Last
  <2> QED BY <2>1 DEF ArenaInv, Sound, Coalesced
<1>7. \A k \in 1 .. l : chain[k] >= HunkSize - HighMark /\ chain[k] \in 0 .. HunkSize
  BY Sizes DEF Address
<1> HIDE DEF c, n
<1>8. /\ a \in 0 .. HunkSize /\ a < HunkSize - HighMark /\ n \in 0 .. HunkSize
      /\ a + n = HunkSize - HighMark
  BY <1>1, <1>2
<1> HIDE DEF a, l
<1>9. /\ chain' \in Seq(Address) /\ Len(chain') = l + 1
      /\ \A k \in 1 .. l : chain'[k] = chain[k]
      /\ chain'[l + 1] = a
  <2>1. a \in Address
    BY <1>8 DEF Address
  <2> QED BY <1>3, <1>4, <2>1 DEF l
<1>10. \A k \in 1 .. l : chain[k] # a
  BY <1>2, <1>7, <1>8
<1>11. \A k \in 1 .. Len(chain') : k \in 1 .. l \/ k = l + 1
  BY <1>4, <1>9
<1>12. DOMAIN block' = ToSet(chain') /\ ToSet(chain') = DOMAIN block \cup {a}
  <2>1. DOMAIN block' = ToSet(chain')
    BY <1>3
  <2>2. ToSet(chain') \subseteq ToSet(chain) \cup {a}
    <3>1. \A k \in 1 .. l : chain[k] \in ToSet(chain)
      BY <1>4
    <3> QED BY <1>9, <1>11, <3>1 DEF ToSet
  <2>3. ToSet(chain) \subseteq ToSet(chain') /\ a \in ToSet(chain')
    <3>1. l + 1 \in 1 .. Len(chain') /\ \A k \in 1 .. l : k \in 1 .. Len(chain')
      BY <1>4, <1>9
    <3>2. \A k \in 1 .. Len(chain') : chain'[k] \in ToSet(chain')
      BY <1>9 DEF ToSet
    <3>3. \A k \in 1 .. l : chain[k] \in ToSet(chain')
      BY <1>9, <3>1, <3>2
    <3>4. \A b \in ToSet(chain) : \E k \in 1 .. l : b = chain[k]
      BY <1>4 DEF ToSet, l
    <3> QED BY <1>9, <3>1, <3>2, <3>3, <3>4
  <2> QED BY <1>4, <2>1, <2>2, <2>3
<1>13. a \notin DOMAIN block
  <2>1. \A b \in DOMAIN block : \E k \in 1 .. l : b = chain[k]
    BY <1>4 DEF ToSet, l
  <2> QED BY <1>10, <2>1
<1>14. block'[a] = Installed(n) /\ \A b \in DOMAIN block : block'[b] = block[b]
  BY <1>3, <1>12, <1>13
<1>15. /\ Installed(n) \in Headers /\ Installed(n).size = n /\ Installed(n).user = c /\ c # NoUser
  BY <1>0, <1>1, <1>8, InstalledFacts, NameAssumption DEF c
<1>16. (\A b \in DOMAIN block' : block'[b] \in Headers) /\ Sized'
  <2> SUFFICES ASSUME NEW b \in DOMAIN block' PROVE block'[b] \in Headers /\ block'[b].size > 0
    BY DEF Sized
  <2>1. CASE b = a
    BY <1>1, <1>14, <1>15, <2>1
  <2>2. CASE b # a
    BY <1>12, <1>14, <2>2 DEF ArenaInv, TypeOK, Sized
  <2> QED BY <2>1, <2>2
<1>17. InUse' = InUse \cup {a} /\ a \notin InUse
  BY <1>12, <1>13, <1>14, <1>15 DEF InUse, Used
<1>18. \A b \in InUse : b \in DOMAIN block' /\ block'[b] = block[b]
  BY <1>12, <1>14 DEF InUse
<1>19. InUseAgree' /\ lru' \in Seq(DOMAIN block')
  <2>1. a \in Address /\ block'[a].user = c
    BY <1>8, <1>14, <1>15 DEF Address
  <2>2. \A b \in InUse : block'[b].user = block[b].user
    BY <1>18
  <2> QED BY <1>1, <1>3, <1>17, <2>1, <2>2, LinksTaken DEF ArenaInv, Sound
<1>20. data' \in [Users -> Address \cup {NoBlock}]
  BY <1>3, <1>8 DEF ArenaInv, TypeOK, Address
<1>21. Descending'
  <2> SUFFICES ASSUME NEW k \in 1 .. Len(chain'), NEW m \in 1 .. Len(chain'), k < m
               PROVE  chain'[m] < chain'[k]
    BY <1>9 DEF Descending
  <2>0. k \in 1 .. l
    BY <1>4, <1>9
  <2>1. CASE m \in 1 .. l
    <3>1. chain[m] < chain[k]
      BY <1>4, <2>0, <2>1 DEF ArenaInv, Descending, l
    <3> QED BY <1>9, <2>0, <2>1, <3>1
  <2>2. CASE m = l + 1
    <3>1. a < chain[k]
      BY <1>2, <1>7, <1>8, <2>0
    <3> QED BY <1>9, <2>0, <2>2, <3>1
  <2> QED BY <1>11, <2>1, <2>2
<1>22. ASSUME NEW k \in 1 .. Len(chain')
       PROVE  chain'[k] + block'[chain'[k]].size = Top(k)'
  <2>1. CASE k \in 1 .. l
    <3>1. chain[k] + block[chain[k]].size = Top(k)
      BY <1>4, <2>1 DEF ArenaInv, Sound, Tiling, l
    <3>2. chain'[k] = chain[k] /\ block'[chain[k]] = block[chain[k]]
      BY <1>4, <1>9, <1>14, <2>1
    <3>3. Top(k)' = Top(k)
      <4>1. k = 1 \/ k - 1 \in 1 .. l
        BY <1>4, <2>1
      <4> QED BY <1>9, <4>1 DEF Top
    <3> QED BY <3>1, <3>2, <3>3
  <2>2. CASE k = l + 1
    <3>1. Top(k)' = HunkSize - HighMark
      <4>1. CASE l = 0
        BY <1>2, <1>5, <2>2, <4>1 DEF Top
      <4>2. CASE l # 0
        <5>1. k # 1 /\ k - 1 = l /\ l \in 1 .. l
          BY <1>4, <2>2, <4>2
        <5>2. Top(k)' = chain[l]
          BY <1>9, <5>1 DEF Top
        <5>3. chain[l] \in 0 .. HunkSize
          BY <1>7, <5>1
        <5> QED BY <1>2, <1>5, <4>2, <5>2, <5>3
      <4> QED BY <4>1, <4>2
    <3> QED BY <1>8, <1>9, <1>14, <1>15, <2>2, <3>1
  <2> QED BY <1>11, <2>1, <2>2
<1>23. chain' # <<>> /\ Last(chain') = a
  BY <1>4, <1>9 DEF Last
<1>24. Tiling'
  <2>1. HighMark' = HunkSize - Last(chain')
    <3>1. HighMark' = HighMark + n
      BY <1>3 DEF HighMark
    <3> QED BY <1>1, <1>2, <1>8, <1>23, <3>1
  <2> QED BY <1>9, <1>22, <1>23, <2>1 DEF Tiling
<1>25. ASSUME NEW k \in 1 .. Len(chain') - 1
       PROVE  Used(chain[k])' \/ Used(chain[k + 1])'
  <2>0. k \in 1 .. l
    BY <1>4, <1>9
  <2>1. CASE k = l
    BY <1>9, <1>14, <1>15, <2>1 DEF Used
  <2>2. CASE k # l
    <3>1. k \in 1 .. l - 1 /\ k + 1 \in 1 .. l
      BY <1>4, <2>0, <2>2
    <3>2. Used(chain[k]) \/ Used(chain[k + 1])
      BY <3>1 DEF ArenaInv, Sound, Coalesced, l
    <3> QED BY <1>4, <1>9, <1>14, <2>0, <3>1, <3>2 DEF Used
  <2> QED BY <2>1, <2>2
<1>26. Coalesced'
  <2>1. Used(Last(chain))'
    BY <1>14, <1>15, <1>23 DEF Used
  <2> QED BY <1>25, <2>1 DEF Coalesced
<1>27. /\ hunk_high_used' \in 0 .. HunkSize /\ hunk_tempactive' = FALSE
       /\ hunk_low_used + hunk_high_used' <= HunkSize
  BY <1>1, <1>2, <1>3
<1> QED BY <1>9, <1>12, <1>16, <1>18, <1>19, <1>20, <1>21, <1>24, <1>26, <1>27

----------------------------------------------------------------------------
(* Eviction: the victim is in use, so some user's data points at it.       *)
LEMMA Evicted ==
    ASSUME ArenaInv, NEW keep \in BOOLEAN, FreeLRU(keep)
    PROVE  \E c \in Users : /\ data[c] # NoBlock /\ block[data[c]].readlock = 0
                           /\ CacheFree(c, keep)
<1>1. PICK a \in Unlocked : CacheFree(block[a].user, keep)
  BY DEF FreeLRU
<1>2. a \in InUse /\ block[a].readlock = 0 /\ a \in Address
  BY <1>1, LinksTyped DEF Unlocked, ArenaInv, Sound, InUse
<1>3. block[a].user \in Users /\ data[block[a].user] = a
  BY <1>2 DEF InUse, ArenaInv, Sound, InUseAgree, TypeOK, Headers, Used
<1>4. a # NoBlock
  BY <1>2, SizeAssumption, NameAssumption DEF Address
<1> QED BY <1>1, <1>2, <1>3, <1>4

LEMMA NothingLocked ==
    ASSUME ArenaInv, Unlocked = {}
    PROVE  \A b \in InUse : block[b].readlock > 0
<1> SUFFICES ASSUME NEW b \in InUse PROVE block[b].readlock > 0
  OBVIOUS
<1>1. b \in ToSet(lru) /\ block[b] \in Headers
  BY LinksTyped DEF ArenaInv, Sound, InUse, TypeOK
<1>2. block[b].readlock # 0 /\ block[b].readlock \in 0 .. MaxLocks
  BY <1>1 DEF Unlocked, Headers
<1> QED BY <1>2, SizeAssumption

----------------------------------------------------------------------------
(* Steps that leave the cache alone, touch a block, or free one.           *)

LowTyped ==
    /\ marks \in Seq(Address) /\ marks # <<>> /\ MarksGrow
    /\ hunk_high_used \in 0 .. HunkSize /\ hunk_tempactive \in BOOLEAN
    /\ hunk_tempmark \in 0 .. HunkSize
    /\ HunksApart
    /\ added \subseteq Users /\ running \in Running
    /\ error \in {"", "out of memory", "locked block"}

LEMMA LowOfArena == ASSUME ArenaInv PROVE LowTyped
<1>1. error \in {"", "out of memory", "locked block"}
  BY DEF ArenaInv, TypeOK, NoFault
<1> QED BY <1>1 DEF ArenaInv, TypeOK, Sound, LowTyped

LEMMA CacheKept ==
    ASSUME ArenaInv, UNCHANGED cachevars, HighMark' = HighMark
    PROVE  Tiling' /\ Coalesced' /\ InUseAgree' /\ Descending' /\ Sized'
<1>1. chain' = chain /\ block' = block /\ lru' = lru /\ data' = data
  BY DEF cachevars
<1>2. Tiling'
  BY <1>1 DEF ArenaInv, Sound, Tiling, Top
<1>3. Coalesced' /\ InUseAgree'
  BY <1>1 DEF ArenaInv, Sound, Coalesced, InUseAgree, Used
<1> QED BY <1>1, <1>2, <1>3 DEF ArenaInv, Descending, Sized

LEMMA ArenaKept ==
    ASSUME ArenaInv, UNCHANGED cachevars, HighMark' = HighMark, LowTyped',
           running'.loop = "alloc" => data[running'.user] = NoBlock
    PROVE  ArenaInv'
<1>1. Tiling' /\ Coalesced' /\ InUseAgree' /\ Descending' /\ Sized'
  BY CacheKept
<1>2. TypeOK'
  BY DEF ArenaInv, TypeOK, LowTyped, cachevars
<1>3. Wanting' /\ NoFault'
  BY DEF Wanting, cachevars, LowTyped, NoFault
<1> QED BY <1>1, <1>2, <1>3 DEF ArenaInv, Sound, LowTyped

LEMMA ArenaTouched ==
    ASSUME ArenaInv, UNCHANGED <<hunkvars, chain, data, added, running, error>>,
           DOMAIN block' = DOMAIN block,
           \A b \in DOMAIN block : /\ block'[b] \in Headers
                                  /\ block'[b].size = block[b].size
                                  /\ block'[b].user = block[b].user,
           lru' \in Seq(DOMAIN block'), InUseAgree'
    PROVE  ArenaInv'
<1>1. /\ marks' = marks /\ hunk_high_used' = hunk_high_used /\ hunk_tempactive' = hunk_tempactive
      /\ hunk_tempmark' = hunk_tempmark /\ chain' = chain /\ data' = data /\ added' = added
      /\ running' = running /\ error' = error
  BY DEF hunkvars
<1>2. \A i \in DOMAIN chain : chain[i] \in DOMAIN block
  <2>1. DOMAIN chain = 1 .. Len(chain)
    BY Places
  <2> QED BY <2>1, Places
<1>3. TypeOK'
  BY <1>1 DEF ArenaInv, TypeOK
<1>4. Tiling'
  BY <1>1, <1>2 DEF ArenaInv, Sound, Tiling, Top, HighMark
<1>5. Coalesced'
  <2>1. \A i \in DOMAIN chain : Used(chain[i])' <=> Used(chain[i])
    BY <1>1, <1>2 DEF Used
  <2>2. chain \in Seq(Address) /\ (chain # <<>> => Last(chain) = chain[Len(chain)] /\ Len(chain) \in DOMAIN chain)
    BY Places DEF Last
  <2>3. \A i \in 1 .. Len(chain) - 1 : i \in DOMAIN chain /\ i + 1 \in DOMAIN chain
    BY <2>2
  <2>4. \A i \in 1 .. Len(chain) - 1 : Used(chain[i])' \/ Used(chain[i + 1])'
    BY <2>1, <2>3 DEF ArenaInv, Sound, Coalesced
  <2>5. chain # <<>> => Used(Last(chain))'
    BY <1>1, <2>1, <2>2 DEF ArenaInv, Sound, Coalesced
  <2> QED BY <1>1, <2>4, <2>5 DEF Coalesced
<1>6. HunksApart' /\ Descending' /\ MarksGrow' /\ Wanting' /\ NoFault'
  BY <1>1 DEF ArenaInv, Sound, HunksApart, hunk_low_used, Descending, MarksGrow, Wanting,
              NoFault
<1>7. Sized'
  BY DEF ArenaInv, Sized
<1> QED BY <1>3, <1>4, <1>5, <1>6, <1>7 DEF ArenaInv, Sound

LEMMA ArenaFreed ==
    ASSUME ArenaInv, NEW c \in Users, data[c] # NoBlock, NEW keep \in BOOLEAN,
           CacheFree(c, keep),
           marks' \in Seq(Address), marks' # <<>>, MarksGrow',
           hunk_low_used' + hunk_high_used' <= HunkSize,
           added' \subseteq Users, running' = running,
           error' \in {"", "out of memory", "locked block"}
    PROVE  ArenaInv'
<1>1. /\ chain' \in Seq(Address) /\ DOMAIN block' = ToSet(chain')
      /\ \A b \in DOMAIN block' : block'[b] \in Headers
      /\ hunk_high_used' \in 0 .. HunkSize /\ hunk_high_used' <= hunk_high_used
      /\ hunk_tempactive' \in BOOLEAN /\ hunk_tempmark' = hunk_tempmark
      /\ hunk_tempactive' => hunk_tempmark' <= hunk_high_used'
      /\ Tiling' /\ Descending' /\ Sized'
  BY FreedTiles
<1>2. /\ lru' \in Seq(DOMAIN block') /\ data' = [data EXCEPT ![c] = NoBlock]
      /\ Coalesced' /\ InUseAgree'
  BY FreedLinks
<1>3. data' \in [Users -> Address \cup {NoBlock}]
  BY <1>2 DEF ArenaInv, TypeOK
<1>4. TypeOK'
  BY <1>1, <1>2, <1>3 DEF ArenaInv, TypeOK
<1>5. HunksApart'
  BY <1>1 DEF HunksApart
<1>6. Wanting'
  <2>1. running'.loop = "alloc" => running'.user \in Users /\ data[running'.user] = NoBlock
    BY Work
  <2> QED BY <1>2, <2>1 DEF ArenaInv, TypeOK, Wanting
<1>7. NoFault'
  BY DEF NoFault
<1> QED BY <1>1, <1>2, <1>4, <1>5, <1>6, <1>7 DEF ArenaInv, Sound

LEMMA ArenaTaken ==
    ASSUME ArenaInv, AllocWhole \/ AllocCarved \/ AllocBottom
    PROVE  ArenaInv'
<1>1. /\ chain' \in Seq(Address) /\ DOMAIN block' = ToSet(chain')
      /\ \A b \in DOMAIN block' : block'[b] \in Headers
      /\ lru' \in Seq(DOMAIN block') /\ data' \in [Users -> Address \cup {NoBlock}]
      /\ Tiling' /\ Coalesced' /\ InUseAgree' /\ Sized' /\ Descending'
  <2>1. CASE AllocWhole
    <3>1. chain' = chain
      BY <2>1 DEF AllocWhole
    <3>2. chain' \in Seq(Address) /\ Descending'
      BY <3>1 DEF ArenaInv, TypeOK, Descending
    <3> QED BY <2>1, <3>2, WholeTaken
  <2>2. CASE AllocCarved
    BY <2>2, CarvedTaken
  <2>3. CASE AllocBottom
    BY <2>3, BottomTaken
  <2> QED BY <2>1, <2>2, <2>3
<1>2. /\ marks' = marks /\ hunk_tempmark' = hunk_tempmark /\ added' = added /\ error' = error
      /\ running' = Idle
  BY DEF AllocWhole, AllocCarved, AllocBottom, Install
<1>3. /\ hunk_high_used' \in 0 .. HunkSize /\ hunk_tempactive' \in BOOLEAN
      /\ hunk_low_used' + hunk_high_used' <= HunkSize
      /\ hunk_tempactive' => hunk_tempmark' <= hunk_high_used'
  <2>1. CASE AllocWhole \/ AllocCarved
    <3>1. hunk_high_used' = hunk_high_used /\ hunk_tempactive' = hunk_tempactive
      BY <2>1 DEF AllocWhole, AllocCarved
    <3> QED BY <1>2, <3>1 DEF ArenaInv, TypeOK, Sound, HunksApart, hunk_low_used
  <2>2. CASE AllocBottom
    <3>1. hunk_low_used' = hunk_low_used
      BY <1>2 DEF hunk_low_used
    <3> QED BY <2>2, <3>1, BottomTaken
  <2> QED BY <2>1, <2>2
<1>4. TypeOK'
  BY <1>1, <1>2, <1>3 DEF ArenaInv, TypeOK, Running
<1>5. HunksApart' /\ MarksGrow' /\ Wanting' /\ NoFault'
  BY <1>2, <1>3 DEF ArenaInv, HunksApart, MarksGrow, Wanting, NoFault, Idle
<1> QED BY <1>1, <1>4, <1>5 DEF ArenaInv, Sound

(* The low hunk grows into the room that was made for it.                  *)
LEMMA Grown ==
    ASSUME ArenaInv, NEW n \in LowSizes, Grow(n),
           hunk_high_used' \in 0 .. HunkSize,
           HunkSize - hunk_low_used - hunk_high_used' >= n
    PROVE  /\ marks' \in Seq(Address) /\ marks' # <<>> /\ MarksGrow'
           /\ hunk_low_used' = hunk_low_used + n
           /\ hunk_low_used' + hunk_high_used' <= HunkSize
<1>1. n \in Nat
  BY SizeAssumption
<1>2. /\ HunkSize \in Nat /\ hunk_low_used \in 0 .. HunkSize
      /\ marks \in Seq(Address) /\ marks # <<>>
  BY Sums DEF ArenaInv, TypeOK
<1> DEFINE u == hunk_low_used + n l == Len(marks)
<1>3. u \in Address /\ u >= hunk_low_used /\ u + hunk_high_used' <= HunkSize
  <2>1. PICK low \in 0 .. HunkSize, high \in 0 .. HunkSize :
           low = hunk_low_used /\ high = hunk_high_used'
    BY <1>2
  <2>2. HunkSize - low - high >= n
    BY <2>1
  <2>3. low + n \in 0 .. HunkSize /\ low + n >= low /\ low + n + high <= HunkSize
    BY <1>1, <1>2, <2>2
  <2> QED BY <2>1, <2>3 DEF Address
<1>4. marks' = Append(marks, u)
  BY DEF Grow
<1>5. \A i \in 1 .. l : marks[i] <= hunk_low_used /\ marks[i] \in Int
  <2> SUFFICES ASSUME NEW i \in 1 .. l PROVE marks[i] <= hunk_low_used /\ marks[i] \in Int
    OBVIOUS
  <2>1. i \in DOMAIN marks /\ l \in DOMAIN marks /\ i <= l /\ marks[i] \in Address
    BY <1>2
  <2> QED BY <1>2, <2>1 DEF ArenaInv, MarksGrow, hunk_low_used, Address
<1> HIDE DEF u
<1>6. /\ marks' \in Seq(Address) /\ marks' # <<>> /\ Len(marks') = l + 1
      /\ marks'[l + 1] = u /\ \A i \in 1 .. l : marks'[i] = marks[i]
  BY <1>2, <1>3, <1>4
<1>7. hunk_low_used' = u
  BY <1>6 DEF hunk_low_used
<1>8. MarksGrow'
  <2> SUFFICES ASSUME NEW i \in 1 .. l + 1, NEW k \in 1 .. l + 1, i <= k
               PROVE  marks'[i] <= marks'[k]
    BY <1>6 DEF MarksGrow
  <2>0. l \in Nat /\ u \in Int
    BY <1>2, <1>3 DEF Address
  <2>1. CASE k \in 1 .. l
    <3>1. i \in 1 .. l /\ marks[i] <= marks[k]
      BY <1>2, <2>0, <2>1 DEF ArenaInv, MarksGrow
    <3> QED BY <1>6, <2>1, <3>1
  <2>2. CASE k = l + 1 /\ i \in 1 .. l
    <3>1. marks[i] <= u
      BY <1>2, <1>3, <1>5, <2>0, <2>2
    <3> QED BY <1>6, <2>2, <3>1
  <2>3. CASE k = l + 1 /\ i = l + 1
    BY <1>6, <2>0, <2>3
  <2> QED BY <2>0, <2>1, <2>2, <2>3
<1> QED BY <1>3, <1>6, <1>7, <1>8 DEF u

LEMMA GrowsClear ==
    ASSUME ArenaInv, NEW n \in LowSizes, Grow(n),
           chain' \in Seq(Address), Tiling',
           hunk_high_used' \in 0 .. HunkSize, hunk_tempmark' \in 0 .. HunkSize,
           hunk_tempactive' => hunk_tempmark' <= hunk_high_used',
           HunkSize - hunk_low_used - hunk_high_used' >= n
    PROVE  error' = ""
<1>1. SUFFICES ASSUME chain' # <<>> PROVE ~(Last(chain') < hunk_low_used + n)
  BY DEF Grow
<1>2. HighMark' = HunkSize - Last(chain')
  BY <1>1 DEF Tiling
<1>3. Last(chain') \in Address
  <2>1. Len(chain') \in 1 .. Len(chain')
    BY <1>1
  <2> QED BY <2>1 DEF Last
<1>4. PICK low \in 0 .. HunkSize, high \in 0 .. HunkSize, last \in Address :
         low = hunk_low_used /\ high = hunk_high_used' /\ last = Last(chain')
  BY <1>3, Sums
<1>5. HighMark' \in Int /\ HighMark' <= high
  BY <1>4, Sums DEF HighMark
<1>6. HunkSize - low - high >= n /\ HighMark' = HunkSize - last
  BY <1>2, <1>4
<1>7. n \in Nat /\ HunkSize \in Nat
  BY SizeAssumption
<1>8. ~(last < low + n)
  BY <1>5, <1>6, <1>7 DEF Address
<1> QED BY <1>4, <1>8

LEMMA HunkAllocStep ==
    ASSUME ArenaInv, NEW n \in LowSizes, HunkAlloc(n)
    PROVE  ArenaInv'
<1> DEFINE room == HunkSize - hunk_low_used - hunk_high_used' >= n
<1>1. LowTyped /\ error = "" /\ running = Idle
  BY LowOfArena DEF HunkAlloc, Ready
<1>2. /\ HunkSize \in Nat /\ HighMark \in 0 .. HunkSize /\ HighMark <= hunk_high_used
      /\ hunk_low_used \in 0 .. HunkSize /\ hunk_high_used \in 0 .. HunkSize
      /\ hunk_low_used + hunk_high_used <= HunkSize
  BY Sums
<1>3. \/ room /\ Grow(n)
      \/ error' = "out of memory" /\ UNCHANGED <<marks, added, running>>
  <2>1. CASE FitsLow(n) /\ hunk_high_used' = hunk_high_used /\ Grow(n)
    BY <2>1 DEF FitsLow
  <2>2. CASE IF room THEN Grow(n) ELSE error' = "out of memory" /\ UNCHANGED <<marks, added, running>>
    BY <2>2, Zenon
  <2> QED BY <2>1, <2>2, Zenon DEF HunkAlloc
<1>4. added' = added /\ running' = running
  BY <1>3 DEF Grow
<1>5. \/ /\ UNCHANGED cachevars /\ hunk_tempmark' = hunk_tempmark
         /\ \/ hunk_high_used' = hunk_high_used /\ hunk_tempactive' = hunk_tempactive
            \/ hunk_high_used' = HighMark /\ hunk_tempactive' = FALSE
      \/ FreeLRU(FALSE)
  BY DEF HunkAlloc
<1>6. CASE /\ UNCHANGED cachevars /\ hunk_tempmark' = hunk_tempmark
           /\ \/ hunk_high_used' = hunk_high_used /\ hunk_tempactive' = hunk_tempactive
              \/ hunk_high_used' = HighMark /\ hunk_tempactive' = FALSE
  <2>1. HighMark' = HighMark
    BY <1>6 DEF HighMark
  <2>2. /\ hunk_high_used' \in 0 .. HunkSize /\ hunk_tempactive' \in BOOLEAN
        /\ hunk_high_used' <= hunk_high_used
        /\ hunk_tempmark' \in 0 .. HunkSize
        /\ hunk_tempactive' => hunk_tempmark' <= hunk_high_used'
    <3>1. /\ hunk_tempactive \in BOOLEAN /\ hunk_tempmark \in 0 .. HunkSize
          /\ hunk_tempactive => hunk_tempmark <= hunk_high_used
      BY <1>1 DEF LowTyped, HunksApart
    <3>2. CASE hunk_high_used' = hunk_high_used /\ hunk_tempactive' = hunk_tempactive
      BY <1>2, <1>6, <3>1, <3>2
    <3>3. CASE hunk_high_used' = HighMark /\ hunk_tempactive' = FALSE
      BY <1>2, <1>6, <3>1, <3>3
    <3> QED BY <1>6, <3>2, <3>3
  <2>3. chain' \in Seq(Address) /\ Tiling'
    <3>1. chain' = chain
      BY <1>6 DEF cachevars
    <3> QED BY <1>6, <2>1, <3>1, CacheKept DEF ArenaInv, TypeOK
  <2>4. /\ marks' \in Seq(Address) /\ marks' # <<>> /\ MarksGrow'
        /\ hunk_low_used' + hunk_high_used' <= HunkSize
        /\ error' \in {"", "out of memory"}
    <3>1. CASE room /\ Grow(n)
      BY <2>2, <2>3, <3>1, Grown, GrowsClear
    <3>2. CASE error' = "out of memory" /\ UNCHANGED <<marks, added, running>>
      <4>1. hunk_low_used' = hunk_low_used
        BY <3>2 DEF hunk_low_used
      <4>2. PICK low \in Int, high \in Int, before \in Int :
               /\ low = hunk_low_used /\ high = hunk_high_used' /\ before = hunk_high_used
        BY <1>2, <2>2
      <4>3. high <= before /\ low + before <= HunkSize /\ HunkSize \in Nat
        BY <1>2, <2>2, <4>2
      <4>4. low + high <= HunkSize
        BY <4>3
      <4> QED BY <1>1, <3>2, <4>1, <4>2, <4>4 DEF LowTyped, MarksGrow
    <3> QED BY <1>3, <3>1, <3>2
  <2>5. LowTyped'
    BY <1>1, <1>4, <2>2, <2>4 DEF LowTyped, HunksApart
  <2>6. running'.loop # "alloc"
    BY <1>1, <1>4 DEF Idle
  <2> QED BY <1>6, <2>1, <2>5, <2>6, ArenaKept
<1>7. CASE FreeLRU(FALSE)
  <2>1. PICK c \in Users : data[c] # NoBlock /\ CacheFree(c, FALSE)
    BY <1>7, Evicted
  <2>2. /\ chain' \in Seq(Address) /\ Tiling'
        /\ hunk_high_used' \in 0 .. HunkSize /\ hunk_high_used' <= hunk_high_used
        /\ hunk_tempmark' = hunk_tempmark
        /\ hunk_tempactive' => hunk_tempmark' <= hunk_high_used'
    BY <2>1, FreedTiles
  <2>3. hunk_tempmark' \in 0 .. HunkSize
    BY <1>1, <2>2 DEF LowTyped
  <2>4. /\ marks' \in Seq(Address) /\ marks' # <<>> /\ MarksGrow'
        /\ hunk_low_used' + hunk_high_used' <= HunkSize
        /\ error' \in {"", "out of memory"}
    <3>1. CASE room /\ Grow(n)
      BY <2>2, <2>3, <3>1, Grown, GrowsClear
    <3>2. CASE error' = "out of memory" /\ UNCHANGED <<marks, added, running>>
      <4>1. hunk_low_used' = hunk_low_used
        BY <3>2 DEF hunk_low_used
      <4>2. PICK low \in Int, high \in Int, before \in Int :
               /\ low = hunk_low_used /\ high = hunk_high_used' /\ before = hunk_high_used
        BY <1>2, <2>2
      <4>3. high <= before /\ low + before <= HunkSize /\ HunkSize \in Nat
        BY <1>2, <2>2, <4>2
      <4>4. low + high <= HunkSize
        BY <4>3
      <4> QED BY <1>1, <3>2, <4>1, <4>2, <4>4 DEF LowTyped, MarksGrow
    <3> QED BY <1>3, <3>1, <3>2
  <2>5. added' \subseteq Users
    BY <1>1, <1>4 DEF LowTyped
  <2>6. error' \in {"", "out of memory", "locked block"}
    BY <2>4
  <2> HIDE DEF room
  <2> QED BY <1>4, <2>1, <2>4, <2>5, <2>6, ArenaFreed
<1> QED BY <1>5, <1>6, <1>7

LEMMA MarkStep ==
    ASSUME ArenaInv, HunkFreeToLowMark
    PROVE  ArenaInv'
<1>1. LowTyped
  BY LowOfArena
<1>2. PICK i \in DOMAIN marks : marks' = SubSeq(marks, 1, i)
  BY DEF HunkFreeToLowMark
<1>3. marks \in Seq(Address) /\ Len(marks) \in Nat /\ i \in 1 .. Len(marks)
  <2>1. marks \in Seq(Address)
    BY <1>1 DEF LowTyped
  <2> QED BY <1>2, <2>1
<1>4. /\ marks' \in Seq(Address) /\ Len(marks') = i /\ marks' # <<>>
      /\ \A k \in 1 .. i : marks'[k] = marks[k] /\ k \in 1 .. Len(marks)
  BY <1>2, <1>3
<1>5. MarksGrow'
  <2>1. MarksGrow
    BY <1>1 DEF LowTyped
  <2> QED BY <1>3, <1>4, <2>1 DEF MarksGrow
<1>6. hunk_low_used' <= hunk_low_used /\ hunk_low_used' \in Int
  <2>1. hunk_low_used' = marks[i] /\ i \in DOMAIN marks /\ Len(marks) \in DOMAIN marks /\ i <= Len(marks)
    BY <1>3, <1>4 DEF hunk_low_used
  <2>2. marks[i] <= marks[Len(marks)] /\ marks[i] \in Address
    <3>1. MarksGrow
      BY <1>1 DEF LowTyped
    <3> QED BY <1>3, <2>1, <3>1 DEF MarksGrow
  <2> QED BY <2>1, <2>2, SizeAssumption DEF hunk_low_used, Address
<1>7. /\ UNCHANGED <<hunk_high_used, hunk_tempactive, hunk_tempmark, added, running, error>>
      /\ UNCHANGED cachevars
  BY DEF HunkFreeToLowMark
<1>8. HunksApart'
  <2>1. PICK low \in Int : low = hunk_low_used' /\ low <= hunk_low_used
    BY <1>6
  <2>2. low + hunk_high_used <= HunkSize
    BY <2>1, Sums
  <2> QED BY <1>1, <1>7, <2>1, <2>2 DEF LowTyped, HunksApart
<1>9. LowTyped' /\ HighMark' = HighMark
  BY <1>1, <1>4, <1>5, <1>7, <1>8 DEF LowTyped, HighMark
<1>10. running'.loop # "alloc"
  <2>1. running = Idle
    BY DEF HunkFreeToLowMark, Ready
  <2> QED BY <1>7, <2>1 DEF Idle
<1> QED BY <1>7, <1>9, <1>10, ArenaKept

LEMMA TempStep ==
    ASSUME ArenaInv, NEW n \in TempSizes, HunkTempAlloc(n)
    PROVE  ArenaInv'
<1>1. LowTyped
  BY LowOfArena
<1>2. /\ UNCHANGED <<marks, added, running, error>> /\ UNCHANGED cachevars
      /\ hunk_tempmark' = HighMark /\ hunk_tempactive' = TRUE
      /\ hunk_high_used' = IF Room >= n THEN HighMark + n ELSE HighMark
  BY DEF HunkTempAlloc
<1>3. n \in Nat
  BY SizeAssumption
<1>4. /\ hunk_high_used' \in 0 .. HunkSize /\ HighMark <= hunk_high_used'
      /\ hunk_low_used + hunk_high_used' <= HunkSize
  BY <1>2, <1>3, Sums DEF Room
<1>5. hunk_low_used' = hunk_low_used
  BY <1>2 DEF hunk_low_used
<1>6. HunksApart' /\ hunk_tempmark' \in 0 .. HunkSize
  BY <1>2, <1>4, <1>5, Sums DEF HunksApart
<1>7. LowTyped' /\ HighMark' = HighMark
  BY <1>1, <1>2, <1>4, <1>6 DEF LowTyped, HighMark, MarksGrow
<1>8. running'.loop # "alloc"
  <2>1. running = Idle
    BY DEF HunkTempAlloc, Ready
  <2> QED BY <1>2, <2>1 DEF Idle
<1> QED BY <1>2, <1>7, <1>8, ArenaKept

LEMMA TouchStep ==
    ASSUME ArenaInv, NEW c \in Users, CacheCheck(c) \/ CacheGet(c) \/ CacheRelease(c)
    PROVE  ArenaInv'
<1>1. /\ data[c] # NoBlock
      /\ UNCHANGED <<hunkvars, chain, data, added, running, error>>
  BY DEF CacheCheck, CacheGet, CacheRelease
<1>2. data[c] \in DOMAIN block /\ block[data[c]] \in Headers
  BY <1>1 DEF ArenaInv, Sound, InUseAgree, TypeOK
<1>3. /\ DOMAIN block' = DOMAIN block
      /\ \A b \in DOMAIN block : /\ block'[b] \in Headers
                                /\ block'[b].size = block[b].size
                                /\ block'[b].user = block[b].user
  <2>0. \A b \in DOMAIN block : block[b] \in Headers
    BY DEF ArenaInv, TypeOK
  <2>1. CASE block' = block
    BY <2>0, <2>1
  <2>2. CASE \E r \in 0 .. MaxLocks : block' = [block EXCEPT ![data[c]].readlock = r]
    <3>1. PICK r \in 0 .. MaxLocks : block' = [block EXCEPT ![data[c]].readlock = r]
      BY <2>2
    <3> QED BY <1>2, <2>0, <3>1 DEF Headers
  <2>3. block' = block \/ \E r \in 0 .. MaxLocks : block' = [block EXCEPT ![data[c]].readlock = r]
    <3>0. block[data[c]].readlock \in 0 .. MaxLocks /\ MaxLocks \in Nat
      BY <1>2, SizeAssumption DEF Headers
    <3>1. CASE CacheCheck(c)
      BY <3>1 DEF CacheCheck
    <3>2. CASE CacheGet(c)
      <4> DEFINE r == block[data[c]].readlock + 1
      <4>1. r \in 0 .. MaxLocks
        BY <3>0, <3>2 DEF CacheGet
      <4>2. block' = [block EXCEPT ![data[c]].readlock = r]
        BY <3>2 DEF CacheGet
      <4> HIDE DEF r
      <4> QED BY <4>1, <4>2
    <3>3. CASE CacheRelease(c)
      <4> DEFINE r == block[data[c]].readlock - 1
      <4>1. r \in 0 .. MaxLocks
        BY <3>0, <3>3 DEF CacheRelease
      <4>2. block' = [block EXCEPT ![data[c]].readlock = r]
        BY <3>3 DEF CacheRelease
      <4> HIDE DEF r
      <4> QED BY <4>1, <4>2
    <3> QED BY <3>1, <3>2, <3>3
  <2> QED BY <2>1, <2>2, <2>3
<1>4. InUseAgree' /\ lru' \in Seq(DOMAIN block')
  <2>1. CASE lru' = Recent(data[c])
    BY <1>1, <1>3, <2>1, LinksTouched DEF ArenaInv, Sound
  <2>2. CASE lru' = lru
    <3>1. InUse' = InUse
      BY <1>3 DEF InUse, Used
    <3>2. lru' \in Seq(DOMAIN block') /\ ToSet(lru') = InUse'
      BY <1>3, <2>2, <3>1 DEF ArenaInv, Sound, InUseAgree, TypeOK, InUse
    <3>3. \A b \in DOMAIN block : block'[b].user = block[b].user
      BY <1>3
    <3> QED BY <1>1, <1>3, <2>2, <3>1, <3>2, <3>3 DEF ArenaInv, Sound, InUseAgree, InUse, Used
  <2> QED BY <2>1, <2>2 DEF CacheCheck, CacheGet, CacheRelease
<1> QED BY <1>1, <1>3, <1>4, ArenaTouched

(* Cache_Free outside Hunk_AllocName.                                      *)
LEMMA FreeStep ==
    ASSUME ArenaInv, NEW c \in Users, data[c] # NoBlock, NEW keep \in BOOLEAN,
           CacheFree(c, keep), UNCHANGED <<marks, running, error>>, added' \subseteq Users
    PROVE  ArenaInv'
<1>1. LowTyped
  BY LowOfArena
<1>2. hunk_high_used' \in 0 .. HunkSize /\ hunk_high_used' <= hunk_high_used
  BY FreedTiles
<1>3. hunk_low_used' + hunk_high_used' <= HunkSize
  <2>1. hunk_low_used' = hunk_low_used
    BY DEF hunk_low_used
  <2>2. PICK low \in Int, high \in Int, before \in Int :
           low = hunk_low_used /\ high = hunk_high_used' /\ before = hunk_high_used
    BY <1>2, Sums
  <2>3. high <= before /\ low + before <= HunkSize /\ HunkSize \in Nat
    BY <1>2, <2>2, Sums
  <2>4. low + high <= HunkSize
    BY <2>3
  <2> QED BY <2>1, <2>2, <2>4
<1>4. marks' \in Seq(Address) /\ marks' # <<>> /\ MarksGrow'
  BY <1>1 DEF LowTyped, MarksGrow
<1>5. error' \in {"", "out of memory", "locked block"} /\ running' = running
  BY <1>1 DEF LowTyped
<1> QED BY <1>3, <1>4, <1>5, ArenaFreed

(* Steps after which the cache and the hunks are as they were.             *)
LEMMA PlainStep ==
    ASSUME ArenaInv, UNCHANGED <<hunkvars, cachevars>>, added' \subseteq Users,
           running' \in Running, running'.loop = "alloc" => data[running'.user] = NoBlock,
           error' \in {"", "out of memory", "locked block"}
    PROVE  ArenaInv'
<1>1. LowTyped
  BY LowOfArena
<1>2. UNCHANGED cachevars /\ HighMark' = HighMark
  BY DEF hunkvars, HighMark
<1>3. LowTyped'
  BY <1>1 DEF LowTyped, hunkvars, MarksGrow, HunksApart, hunk_low_used
<1> QED BY <1>2, <1>3, ArenaKept

(* Cache_Flush: the bottom block is in use, so it has a user to free it.   *)
LEMMA Bottom ==
    ASSUME ArenaInv, chain # <<>>
    PROVE  /\ Last(chain) \in InUse /\ block[Last(chain)].user \in Users
           /\ data[block[Last(chain)].user] = Last(chain) /\ Last(chain) # NoBlock
<1>1. chain \in Seq(Address) /\ Last(chain) = chain[Len(chain)] /\ Len(chain) \in 1 .. Len(chain)
  BY Places DEF Last
<1>2. Last(chain) \in InUse
  BY <1>1, Places DEF ArenaInv, Sound, Coalesced, InUse
<1>3. block[Last(chain)].user \in Users /\ data[block[Last(chain)].user] = Last(chain)
  BY <1>2 DEF InUse, ArenaInv, Sound, InUseAgree, TypeOK, Headers, Used
<1>4. Last(chain) # NoBlock
  <2>1. Last(chain) \in Address
    BY <1>1
  <2> QED BY <2>1, SizeAssumption, NameAssumption DEF Address
<1> QED BY <1>2, <1>3, <1>4

LEMMA FlushSteps ==
    ASSUME ArenaInv, FlushStep
    PROVE  ArenaInv'
<1>1. LowTyped
  BY LowOfArena
<1>2. CASE /\ chain = <<>> /\ running' = Idle
           /\ UNCHANGED <<hunkvars, cachevars, added, error>>
  <2>1. running' \in Running /\ running'.loop # "alloc"
    BY <1>2 DEF Running, Idle
  <2> QED BY <1>1, <1>2, <2>1, PlainStep DEF LowTyped
<1>3. CASE SysError("locked block")
  <2>1. running.loop = "alloc" => data[running.user] = NoBlock
    BY Work
  <2> QED BY <1>1, <1>3, <2>1, PlainStep DEF LowTyped, SysError
<1>4. CASE /\ chain # <<>> /\ CacheFree(block[Last(chain)].user, TRUE)
           /\ UNCHANGED <<marks, added, running, error>>
  BY <1>1, <1>4, Bottom, FreeStep DEF LowTyped
<1> QED BY <1>2, <1>3, <1>4 DEF FlushStep

LEMMA EvictStep ==
    ASSUME ArenaInv, AllocEvicts
    PROVE  ArenaInv'
<1>1. LowTyped
  BY LowOfArena
<1>2. CASE SysError("out of memory")
  <2>1. running.loop = "alloc" => data[running.user] = NoBlock
    BY Work
  <2> QED BY <1>1, <1>2, <2>1, PlainStep DEF LowTyped, SysError
<1>3. CASE FreeLRU(FALSE) /\ UNCHANGED <<marks, added, running, error>>
  <2>1. PICK c \in Users : data[c] # NoBlock /\ CacheFree(c, FALSE)
    BY <1>3, Evicted
  <2> QED BY <1>1, <1>3, <2>1, FreeStep DEF LowTyped
<1> QED BY <1>2, <1>3 DEF AllocEvicts

LEMMA UserStep ==
    ASSUME ArenaInv, NEW c \in Users,
           \/ \E n \in CacheSizes : CacheAlloc(c, n) \/ CacheLoad(c, n)
           \/ CacheCheck(c) \/ CacheGet(c) \/ CacheRelease(c)
           \/ CacheFreed(c) \/ CacheAdd(c) \/ CacheRemove(c)
    PROVE  ArenaInv'
<1>1. LowTyped
  BY LowOfArena
<1>2. CASE \E n \in CacheSizes : CacheAlloc(c, n) \/ CacheLoad(c, n)
  <2>1. PICK n \in CacheSizes : CacheAlloc(c, n) \/ CacheLoad(c, n)
    BY <1>2
  <2>2. PICK lock \in BOOLEAN :
           running' = [loop |-> "alloc", user |-> c, size |-> n, lock |-> lock]
    BY <2>1 DEF CacheAlloc, CacheLoad
  <2>3. running' \in Running /\ running'.user = c
    BY <2>2 DEF Running
  <2>4. data[c] = NoBlock /\ UNCHANGED <<hunkvars, cachevars, added, error>>
    BY <2>1 DEF CacheAlloc, CacheLoad
  <2> QED BY <1>1, <2>3, <2>4, PlainStep DEF LowTyped
<1>3. CASE CacheCheck(c) \/ CacheGet(c) \/ CacheRelease(c)
  BY <1>3, TouchStep
<1>4. CASE CacheFreed(c)
  BY <1>1, <1>4, FreeStep DEF CacheFreed, Freeable, LowTyped
<1>5. CASE CacheAdd(c)
  <2>1. running.loop = "alloc" => data[running.user] = NoBlock
    BY Work
  <2> QED BY <1>1, <1>5, <2>1, PlainStep DEF CacheAdd, LowTyped
<1>6. CASE CacheRemove(c)
  <2>1. CASE data[c] = NoBlock
    <3>1. running.loop = "alloc" => data[running.user] = NoBlock
      BY Work
    <3>2. UNCHANGED <<hunkvars, cachevars>>
      BY <1>6, <2>1 DEF CacheRemove, hunkvars
    <3> QED BY <1>1, <1>6, <3>1, <3>2, PlainStep DEF CacheRemove, LowTyped
  <2>2. CASE data[c] # NoBlock
    BY <1>1, <1>6, <2>2, FreeStep DEF CacheRemove, LowTyped
  <2> QED BY <2>1, <2>2
<1> QED BY <1>2, <1>3, <1>4, <1>5, <1>6

LEMMA ArenaInit == Init => ArenaInv
<1> SUFFICES ASSUME Init PROVE ArenaInv
  OBVIOUS
<1>1. HunkSize \in Nat /\ 0 \in Address
  BY SizeAssumption DEF Address
<1>2. marks \in Seq(Address) /\ marks # <<>> /\ hunk_low_used = 0 /\ MarksGrow
  <2>1. marks = <<0>>
    BY DEF Init
  <2>2. marks \in Seq(Address) /\ Len(marks) = 1 /\ marks[1] = 0
    BY <1>1, <2>1
  <2> QED BY <2>2 DEF hunk_low_used, MarksGrow
<1>3. chain \in Seq(Address) /\ Len(chain) = 0 /\ DOMAIN chain = {} /\ ToSet(chain) = {}
  <2>1. chain = <<>>
    BY DEF Init
  <2> QED BY <2>1 DEF ToSet
<1>4. DOMAIN block = {}
  <2>1. block = <<>>
    BY DEF Init
  <2> QED BY <2>1
<1>5. lru \in Seq(DOMAIN block) /\ DOMAIN lru = {} /\ ToSet(lru) = {}
  <2>1. lru = <<>>
    BY DEF Init
  <2> QED BY <2>1 DEF ToSet
<1>6. /\ hunk_high_used = 0 /\ hunk_tempactive = FALSE /\ hunk_tempmark = 0 /\ HighMark = 0
      /\ chain = <<>> /\ data = [c \in Users |-> NoBlock]
      /\ added = {} /\ running = Idle /\ error = ""
  BY DEF Init, HighMark
<1>7. TypeOK
  <2>1. Idle \in Running
    BY DEF Running
  <2>2. 0 \in 0 .. HunkSize
    BY <1>1
  <2>3. \A a \in DOMAIN block : block[a] \in Headers
    BY <1>4
  <2> HIDE DEF Headers
  <2> QED BY <1>2, <1>3, <1>4, <1>5, <1>6, <2>1, <2>2, <2>3 DEF TypeOK
<1>8. Tiling
  <2>1. HighMark = 0 /\ chain = <<>>
    BY <1>6
  <2>2. \A i \in DOMAIN chain : chain[i] + block[chain[i]].size = Top(i)
    BY <1>3
  <2> QED BY <2>1, <2>2, Zenon DEF Tiling
<1>9. Coalesced
  <2>1. chain = <<>>
    BY <1>6
  <2>2. ASSUME NEW i \in 1 .. Len(chain) - 1 PROVE FALSE
    BY <1>3, <2>2
  <2> QED BY <2>1, <2>2, Zenon DEF Coalesced
<1>10. HunksApart
  <2>1. hunk_low_used = 0 /\ hunk_high_used = 0 /\ hunk_tempactive = FALSE
    BY <1>2, <1>6
  <2> QED BY <1>1, <2>1 DEF HunksApart
<1>11. InUseAgree
  BY <1>4, <1>5, <1>6 DEF InUseAgree
<1>12. Descending /\ Sized /\ Wanting /\ NoFault
  BY <1>3, <1>4, <1>6 DEF Descending, Sized, Wanting, Idle, NoFault
<1> QED BY <1>2, <1>7, <1>8, <1>9, <1>10, <1>11, <1>12 DEF ArenaInv, Sound

(* A torn header costs the block that is free, and the program.            *)
LEMMA TornStep ==
    ASSUME TypeOK, AllocTorn
    PROVE  Stopped'
<1>1. PICK i \in DOMAIN chain, h \in Headers :
         block' = [block EXCEPT ![chain[i]] = h]
  BY DEF AllocTorn
<1>2. /\ DOMAIN block' = DOMAIN block
      /\ \A a \in DOMAIN block' : block'[a] \in Headers
  BY <1>1 DEF TypeOK
<1>3. /\ UNCHANGED <<marks, hunk_high_used, hunk_tempactive, hunk_tempmark, chain, lru, data,
                     added, running>>
      /\ error' = "torn header"
  BY DEF AllocTorn, hunkvars
<1> HIDE DEF Headers
<1> QED BY <1>2, <1>3 DEF TypeOK, Stopped

LEMMA StoppedStep == Stopped /\ [Next]_vars => UNCHANGED vars
<1> SUFFICES ASSUME Stopped, Next PROVE FALSE
  OBVIOUS
<1>1. error # ""
  BY DEF Stopped
<1> QED BY <1>1 DEF Next, HunkAlloc, HunkFreeToLowMark, HunkTempAlloc, CacheAlloc, CacheLoad,
                    CacheCheck, CacheGet, CacheRelease, CacheFreed, CacheAdd, CacheRemove,
                    AllocStep, AllocWhole, AllocCarved, AllocTorn, AllocBottom, AllocEvicts,
                    CacheFlush, FlushStep, Ready, Allocating

LEMMA ArenaStep == ArenaInv /\ [Next]_vars => ArenaInv' \/ AllocTorn
<1> SUFFICES ASSUME ArenaInv, [Next]_vars, ~AllocTorn PROVE ArenaInv'
  OBVIOUS
<1>1. LowTyped
  BY LowOfArena
<1>2. ASSUME NEW n \in LowSizes, HunkAlloc(n) PROVE ArenaInv'
  BY <1>2, HunkAllocStep
<1>3. CASE HunkFreeToLowMark
  BY <1>3, MarkStep
<1>4. ASSUME NEW n \in TempSizes, HunkTempAlloc(n) PROVE ArenaInv'
  BY <1>4, TempStep
<1>5. ASSUME NEW c \in Users,
             \/ \E n \in CacheSizes : CacheAlloc(c, n) \/ CacheLoad(c, n)
             \/ CacheCheck(c) \/ CacheGet(c) \/ CacheRelease(c)
             \/ CacheFreed(c) \/ CacheAdd(c) \/ CacheRemove(c)
      PROVE  ArenaInv'
  BY <1>5, UserStep
<1>6. CASE AllocStep
  BY <1>6, ArenaTaken, EvictStep DEF AllocStep
<1>7. CASE CacheFlush
  <2>1. /\ running' = [loop |-> "flush"]
        /\ UNCHANGED <<hunkvars, cachevars, added, error>>
    BY <1>7 DEF CacheFlush
  <2>2. running' \in Running /\ running'.loop # "alloc"
    BY <2>1 DEF Running
  <2> QED BY <1>1, <2>1, <2>2, PlainStep DEF LowTyped
<1>8. CASE FlushStep
  BY <1>8, FlushSteps
<1>9. CASE UNCHANGED vars
  <2>1. running.loop = "alloc" => data[running.user] = NoBlock
    BY Work
  <2>2. /\ UNCHANGED <<hunkvars, cachevars>> /\ added' = added /\ running' = running
        /\ error' = error
    BY <1>9 DEF vars
  <2> QED BY <1>1, <2>1, <2>2, PlainStep DEF LowTyped
<1> QED BY <1>2, <1>3, <1>4, <1>5, <1>6, <1>7, <1>8, <1>9 DEF Next

LEMMA StoreStep == StoreInv /\ [Next]_vars => StoreInv'
<1>1. Stopped /\ UNCHANGED vars => Stopped'
  <2> SUFFICES ASSUME Stopped, UNCHANGED vars PROVE Stopped'
    OBVIOUS
  <2>1. /\ UNCHANGED <<marks, hunk_high_used, hunk_tempactive, hunk_tempmark, chain, block, lru,
                       data, added, running, error>>
    BY DEF vars, hunkvars, cachevars
  <2> HIDE DEF Headers
  <2> QED BY <2>1 DEF Stopped, TypeOK
<1>2. ArenaInv => TypeOK
  BY DEF ArenaInv
<1> QED BY <1>1, <1>2, ArenaStep, TornStep, StoppedStep DEF StoreInv

(* The arena is sound as long as no header was torn, and typed in any case.*)
THEOREM StoreInvariant == Spec => []StoreInv
<1>1. Init => StoreInv
  BY ArenaInit DEF StoreInv
<1> QED BY <1>1, StoreStep, PTL DEF Spec

(* The arena is typed, at every moment.                                    *)
THEOREM TypeCorrect == Spec => []TypeOK
<1>1. StoreInv => TypeOK
  BY DEF StoreInv, ArenaInv, Stopped
<1> QED BY <1>1, StoreInvariant, PTL

(* Until a rest of less than a header is carved off, check_cache never     *)
(* finds a fault: the blocks tile the high hunk down to the high mark, the *)
(* hunks do not meet, free space is never split, and headers, the LRU list *)
(* and the users' pointers agree.                                          *)
THEOREM CacheSound == Spec => []CacheInv
<1>1. StoreInv => CacheInv
  BY DEF StoreInv, ArenaInv, Stopped, CacheInv
<1> QED BY <1>1, StoreInvariant, PTL

(* Cache_FreeLow finds every cache block above the low hunk's new end.     *)
THEOREM LowMissesCache == Spec => []LowNeverMeetsCache
<1>1. StoreInv => LowNeverMeetsCache
  BY DEF StoreInv, ArenaInv, NoFault, Stopped, LowNeverMeetsCache
<1> QED BY <1>1, StoreInvariant, PTL

----------------------------------------------------------------------------
(* Locked blocks                                                           *)

(* Blocks in use stay where and what they are, but for the one that is     *)
(* freed and the one whose lock changes.                                   *)
StaysLocked(c) ==
    data[c] # NoBlock /\ block[data[c]].readlock > 0 =>
        /\ data'[c] = data[c]
        /\ block'[data[c]].user = c
        /\ block'[data[c]].size = block[data[c]].size

LEMMA FreeSparesLocked ==
    ASSUME ArenaInv, NEW d \in Users, data[d] # NoBlock, block[data[d]].readlock = 0,
           NEW keep \in BOOLEAN, CacheFree(d, keep), NEW c \in Users
    PROVE  StaysLocked(c)
<1> SUFFICES ASSUME data[c] # NoBlock, block[data[c]].readlock > 0
             PROVE  /\ data'[c] = data[c]
                    /\ block'[data[c]].user = c
                    /\ block'[data[c]].size = block[data[c]].size
  BY DEF StaysLocked
<1>1. /\ data[c] \in InUse /\ block[data[c]].user = c
      /\ data[d] \in InUse /\ block[data[d]].user = d
  BY NameAssumption DEF ArenaInv, Sound, InUseAgree, InUse, Used
<1>2. data[c] # data[d] /\ c # d
  BY <1>1
<1>3. data' = [data EXCEPT ![d] = NoBlock] /\ block'[data[c]] = block[data[c]]
  BY <1>1, <1>2, FreedLinks
<1> QED BY <1>1, <1>2, <1>3 DEF ArenaInv, TypeOK

LEMMA TakeSparesLocked ==
    ASSUME ArenaInv, AllocWhole \/ AllocCarved \/ AllocBottom, NEW c \in Users
    PROVE  StaysLocked(c)
<1> SUFFICES ASSUME data[c] # NoBlock, block[data[c]].readlock > 0
             PROVE  /\ data'[c] = data[c]
                    /\ block'[data[c]].user = c
                    /\ block'[data[c]].size = block[data[c]].size
  BY DEF StaysLocked
<1>1. data[c] \in InUse /\ block[data[c]].user = c
  BY NameAssumption DEF ArenaInv, Sound, InUseAgree, InUse, Used
<1>2. block'[data[c]] = block[data[c]]
  BY <1>1, WholeTaken, CarvedTaken, BottomTaken
<1>3. c # running.user
  <2>1. running.loop = "alloc"
    BY DEF AllocWhole, AllocCarved, AllocBottom, Allocating
  <2> QED BY <2>1, Work
<1>4. data'[c] = data[c]
  <2>1. \E a : data' = [data EXCEPT ![running.user] = a]
    BY DEF AllocWhole, AllocCarved, AllocBottom, Install
  <2> QED BY <1>3, <2>1 DEF ArenaInv, TypeOK
<1> QED BY <1>1, <1>2, <1>4

(* Only a free block's header is torn.                                     *)
LEMMA TornSparesLocked ==
    ASSUME ArenaInv, AllocTorn, NEW c \in Users
    PROVE  StaysLocked(c)
<1> SUFFICES ASSUME data[c] # NoBlock, block[data[c]].readlock > 0
             PROVE  /\ data'[c] = data[c]
                    /\ block'[data[c]].user = c
                    /\ block'[data[c]].size = block[data[c]].size
  BY DEF StaysLocked
<1>1. data[c] \in InUse /\ block[data[c]].user = c
  BY NameAssumption DEF ArenaInv, Sound, InUseAgree, InUse, Used
<1>2. PICK i \in DOMAIN chain, h \in Headers :
         ~Used(chain[i]) /\ block' = [block EXCEPT ![chain[i]] = h]
  BY DEF AllocTorn, FirstFit, Fits
<1>3. data[c] # chain[i] /\ data[c] \in DOMAIN block
  BY <1>1, <1>2 DEF InUse
<1>4. data' = data /\ block'[data[c]] = block[data[c]]
  BY <1>2, <1>3 DEF AllocTorn
<1> QED BY <1>1, <1>4

LEMMA LockedStep ==
    ASSUME ArenaInv, [Next]_vars, NEW c \in Users
    PROVE  StaysLocked(c)
<1>1. CASE UNCHANGED <<data, block>>
  BY <1>1 DEF ArenaInv, Sound, InUseAgree, StaysLocked
<1>2. ASSUME NEW n \in LowSizes, HunkAlloc(n) PROVE StaysLocked(c)
  <2>1. CASE UNCHANGED cachevars
    BY <1>1, <2>1 DEF cachevars
  <2>2. CASE FreeLRU(FALSE)
    BY <2>2, Evicted, FreeSparesLocked
  <2> QED BY <1>2, <2>1, <2>2 DEF HunkAlloc
<1>3. ASSUME NEW d \in Users, CacheFreed(d) PROVE StaysLocked(c)
  BY <1>3, FreeSparesLocked DEF CacheFreed, Freeable
<1>4. ASSUME NEW d \in Users, CacheRemove(d) PROVE StaysLocked(c)
  <2>1. CASE data[d] = NoBlock
    BY <1>1, <1>4, <2>1 DEF CacheRemove, cachevars
  <2>2. CASE data[d] # NoBlock
    BY <1>4, <2>2, FreeSparesLocked DEF CacheRemove, Freeable
  <2> QED BY <2>1, <2>2
<1>5. ASSUME NEW d \in Users, CacheGet(d) \/ CacheRelease(d) PROVE StaysLocked(c)
  <2>1. data' = data /\ data[d] \in DOMAIN block
    BY <1>5 DEF CacheGet, CacheRelease, ArenaInv, Sound, InUseAgree
  <2>2. \A b \in DOMAIN block : block'[b].user = block[b].user /\ block'[b].size = block[b].size
    <3>1. \E r : block' = [block EXCEPT ![data[d]].readlock = r]
      BY <1>5 DEF CacheGet, CacheRelease
    <3>2. block[data[d]] \in Headers
      BY <2>1 DEF ArenaInv, TypeOK
    <3> QED BY <2>1, <3>1, <3>2 DEF Headers
  <2> QED BY <2>1, <2>2 DEF ArenaInv, Sound, InUseAgree, StaysLocked
<1>6. CASE AllocStep
  <2>1. CASE AllocEvicts
    <3>1. CASE SysError("out of memory")
      BY <1>1, <3>1 DEF SysError, cachevars
    <3>2. CASE FreeLRU(FALSE)
      BY <3>2, Evicted, FreeSparesLocked
    <3> QED BY <2>1, <3>1, <3>2 DEF AllocEvicts
  <2>2. CASE AllocWhole \/ AllocCarved \/ AllocBottom
    BY <2>2, TakeSparesLocked
  <2>3. CASE AllocTorn
    BY <2>3, TornSparesLocked
  <2> QED BY <1>6, <2>1, <2>2, <2>3 DEF AllocStep
<1>7. CASE FlushStep
  <2>1. CASE UNCHANGED cachevars
    BY <1>1, <2>1 DEF cachevars
  <2>2. CASE /\ chain # <<>> /\ ~(block[Last(chain)].readlock > 0)
             /\ CacheFree(block[Last(chain)].user, TRUE)
    <3>1. block[Last(chain)].readlock = 0
      <4>1. Last(chain) \in InUse
        BY <2>2, Bottom
      <4>2. block[Last(chain)].readlock \in 0 .. MaxLocks
        BY <4>1 DEF InUse, ArenaInv, TypeOK, Headers
      <4> QED BY <2>2, <4>2, SizeAssumption
    <3> QED BY <2>2, <3>1, Bottom, FreeSparesLocked
  <2> QED BY <1>7, <2>1, <2>2 DEF FlushStep, SysError
<1>8. CASE HunkFreeToLowMark \/ CacheFlush \/ UNCHANGED vars
  BY <1>1, <1>8 DEF HunkFreeToLowMark, CacheFlush, vars, cachevars
<1>9. ASSUME NEW n \in TempSizes, HunkTempAlloc(n) PROVE StaysLocked(c)
  BY <1>1, <1>9 DEF HunkTempAlloc, cachevars
<1>10. ASSUME NEW d \in Users,
              \/ \E n \in CacheSizes : CacheAlloc(d, n) \/ CacheLoad(d, n)
              \/ CacheCheck(d) \/ CacheAdd(d)
       PROVE  StaysLocked(c)
  BY <1>1, <1>10 DEF CacheAlloc, CacheLoad, CacheCheck, CacheAdd, cachevars
<1> QED BY <1>2, <1>3, <1>4, <1>5, <1>6, <1>7, <1>8, <1>9, <1>10 DEF Next

(* A read-locked block stays where it is, whoever allocates, frees or      *)
(* flushes what around it, to the end of the program or a torn header.     *)
THEOREM LockedBlocksStay == Spec => LockedStay
<1>1. StoreInv /\ [Next]_vars => [\A c \in Users : StaysLocked(c)]_vars
  BY LockedStep, StoppedStep DEF StoreInv
<1> QED BY <1>1, StoreInvariant, PTL DEF Spec, LockedStay, StaysLocked

----------------------------------------------------------------------------
(* Running out of memory                                                   *)

(* Every place above the high mark is in some block: the first, from the   *)
(* top, that starts at or below it.                                        *)
LEMMA BlockAt ==
    ASSUME ArenaInv, NEW x \in Int, HunkSize - HighMark <= x, x < HunkSize
    PROVE  \E i \in 1 .. Len(chain) : chain[i] <= x /\ x < Top(i)
<1> DEFINE below == {i \in 1 .. Len(chain) : chain[i] <= x}
<1>1. /\ chain \in Seq(Address) /\ Len(chain) \in Nat
      /\ HighMark \in 0 .. HunkSize /\ HunkSize \in Nat
  BY Places, Sums
<1>2. below # {}
  <2>1. HighMark = IF chain = <<>> THEN 0 ELSE HunkSize - Last(chain)
    BY DEF ArenaInv, Sound, Tiling
  <2>2. chain # <<>>
    BY <1>1, <2>1
  <2>3. Len(chain) \in 1 .. Len(chain) /\ Last(chain) = chain[Len(chain)]
    BY <1>1, <2>2 DEF Last
  <2>4. chain[Len(chain)] \in Int
    BY <1>1, <2>3 DEF Address
  <2>5. chain[Len(chain)] <= x
    BY <1>1, <2>1, <2>2, <2>3, <2>4
  <2> QED BY <2>3, <2>5
<1>3. below \subseteq Nat
  OBVIOUS
<1> HIDE DEF below
<1>4. PICK i \in below : \A k \in below : ~(<<k, i>> \in OpToRel(<, Nat))
  BY <1>2, <1>3, WFMin, NatLessThanWellFounded, Zenon
<1>5. \A k \in below : <<k, i>> \in Nat \X Nat
  BY <1>3
<1>6. \A k \in below : ~(k < i)
  BY <1>4, <1>5, Zenon DEF OpToRel
<1>7. i \in 1 .. Len(chain) /\ chain[i] <= x
  BY DEF below
<1>8. x < Top(i)
  <2>1. CASE i = 1
    BY <2>1 DEF Top
  <2>2. CASE i # 1
    <3>1. i - 1 \in 1 .. Len(chain) /\ i - 1 < i /\ Top(i) = chain[i - 1]
      BY <1>1, <1>7, <2>2 DEF Top
    <3>2. ~(chain[i - 1] <= x)
      BY <1>6, <3>1 DEF below
    <3>3. chain[i - 1] \in Int
      BY <1>1, <3>1 DEF Address
    <3> QED BY <3>1, <3>2, <3>3
  <2> QED BY <2>1, <2>2
<1> QED BY <1>7, <1>8

LEMMA NoRoomLeft ==
    ASSUME ArenaInv, NEW n \in Nat \ {0}, NoFit(n), Room < n, Unlocked = {},
           NEW a \in hunk_low_used .. HunkSize - n
    PROVE  \E b \in Locked : Overlaps(a, n, b)
<1>1. /\ hunk_low_used \in 0 .. HunkSize /\ HighMark \in 0 .. HunkSize /\ HunkSize \in Nat
      /\ a \in Int /\ hunk_low_used <= a /\ a + n <= HunkSize
  BY Sums
<1>2. \A i \in 1 .. Len(chain) :
         /\ chain[i] \in Int /\ Top(i) \in Int /\ block[chain[i]].size \in Int
         /\ chain[i] + block[chain[i]].size = Top(i) /\ chain[i] < Top(i)
         /\ chain[i] \in DOMAIN block
  <2> SUFFICES ASSUME NEW i \in 1 .. Len(chain)
               PROVE  /\ chain[i] \in Int /\ Top(i) \in Int /\ block[chain[i]].size \in Int
                      /\ chain[i] + block[chain[i]].size = Top(i) /\ chain[i] < Top(i)
                      /\ chain[i] \in DOMAIN block
    OBVIOUS
  <2>1. /\ Top(i) \in Int /\ chain[i] \in Int /\ block[chain[i]].size \in 1 .. HunkSize
        /\ block[chain[i]].size = Top(i) - chain[i]
    BY Sizes, <1>1 DEF Address
  <2>2. chain[i] \in DOMAIN block
    BY Places
  <2> HIDE DEF Top
  <2> QED BY <1>1, <2>1, <2>2
<1>3. \A i \in 1 .. Len(chain) : Used(chain[i]) => chain[i] \in Locked
  BY <1>2, NothingLocked DEF InUse, Locked
<1>4. PICK i \in 1 .. Len(chain) : chain[i] <= a + n - 1 /\ a + n - 1 < Top(i)
  <2> DEFINE x == a + n - 1
  <2>1. x \in Int /\ HunkSize - HighMark <= x /\ x < HunkSize
    BY <1>1 DEF Room
  <2> HIDE DEF x
  <2>2. \E i \in 1 .. Len(chain) : chain[i] <= x /\ x < Top(i)
    BY <2>1, BlockAt
  <2> QED BY <2>2 DEF x
<1>5. CASE Used(chain[i])
  <2>1. Overlaps(a, n, chain[i])
    BY <1>1, <1>2, <1>4 DEF Overlaps
  <2> QED BY <1>3, <1>5, <2>1
<1>6. CASE ~Used(chain[i])
  <2>1. block[chain[i]].size < n
    <3>1. i \in DOMAIN chain /\ ~Fits(i, n)
      BY Places DEF NoFit
    <3> QED BY <1>2, <1>6, <3>1 DEF Fits
  <2>2. /\ i + 1 \in 1 .. Len(chain) /\ Used(chain[i + 1]) /\ Top(i + 1) = chain[i]
    <3>1. chain \in Seq(Address) /\ Len(chain) \in Nat
      BY Places
    <3>2. i # Len(chain)
      <4>1. i = Len(chain) => chain # <<>> /\ Last(chain) = chain[i]
        BY <3>1 DEF Last
      <4> QED BY <1>6, <4>1 DEF ArenaInv, Sound, Coalesced
    <3>3. i \in 1 .. Len(chain) - 1 /\ i + 1 \in 1 .. Len(chain)
      BY <3>1, <3>2
    <3>4. Used(chain[i + 1])
      BY <1>6, <3>3 DEF ArenaInv, Sound, Coalesced
    <3>5. Top(i + 1) = chain[i]
      BY <3>3 DEF Top
    <3> QED BY <3>3, <3>4, <3>5
  <2> HIDE DEF Top
  <2>3. chain[i] > a
    BY <1>1, <1>2, <1>4, <2>1
  <2>4. /\ chain[i + 1] \in Int /\ block[chain[i + 1]].size \in Int
        /\ chain[i + 1] + block[chain[i + 1]].size = chain[i]
        /\ chain[i + 1] < chain[i] /\ chain[i] \in Int
    BY <1>2, <2>2
  <2>5. Overlaps(a, n, chain[i + 1])
    BY <1>1, <1>4, <2>3, <2>4 DEF Overlaps
  <2> QED BY <1>3, <2>2, <2>5
<1> QED BY <1>5, <1>6

NoPlace(n) == \A a \in hunk_low_used .. HunkSize - n : \E b \in Locked : Overlaps(a, n, b)

(* Only Cache_Alloc says so in the middle of an allocation, and it stops   *)
(* the program there.                                                      *)
LEMMA OnlyEvictionFails ==
    ASSUME ArenaInv, Next, error' = "out of memory", running'.loop = "alloc"
    PROVE  AllocEvicts /\ Unlocked = {} /\ SysError("out of memory")
<1>1. ASSUME NEW n \in LowSizes, HunkAlloc(n) PROVE FALSE
  <2>1. running' = running
    BY <1>1 DEF HunkAlloc, Grow
  <2> QED BY <1>1, <2>1 DEF HunkAlloc, Ready, Idle
<1>2. ASSUME error = "", UNCHANGED error PROVE FALSE
  BY <1>2
<1>3. CASE HunkFreeToLowMark \/ CacheFlush
  BY <1>2, <1>3 DEF HunkFreeToLowMark, CacheFlush, Ready
<1>4. ASSUME NEW n \in TempSizes, HunkTempAlloc(n) PROVE FALSE
  BY <1>2, <1>4 DEF HunkTempAlloc, Ready
<1>5. ASSUME NEW c \in Users,
             \/ \E n \in CacheSizes : CacheAlloc(c, n) \/ CacheLoad(c, n)
             \/ CacheCheck(c) \/ CacheGet(c) \/ CacheRelease(c)
             \/ CacheFreed(c) \/ CacheAdd(c) \/ CacheRemove(c)
      PROVE  FALSE
  BY <1>2, <1>5 DEF CacheAlloc, CacheLoad, CacheCheck, CacheGet, CacheRelease, CacheFreed,
                    CacheAdd, CacheRemove, Ready
<1>6. CASE AllocWhole \/ AllocCarved \/ AllocBottom
  BY <1>2, <1>6 DEF AllocWhole, AllocCarved, AllocBottom, Allocating, Install
<1>7. CASE FlushStep
  BY <1>2, <1>7 DEF FlushStep, SysError
<1>8. CASE AllocEvicts
  BY <1>2, <1>8 DEF AllocEvicts, Allocating
<1>9. CASE AllocTorn
  BY <1>9 DEF AllocTorn
<1> QED BY <1>1, <1>3, <1>4, <1>5, <1>6, <1>7, <1>8, <1>9 DEF Next, AllocStep

LEMMA HonestStep == ArenaInv /\ OutOfMemoryHonest /\ [Next]_vars => OutOfMemoryHonest'
<1> SUFFICES ASSUME ArenaInv, OutOfMemoryHonest, [Next]_vars,
                    error' = "out of memory", running'.loop = "alloc"
             PROVE  NoPlace(running.size)'
  BY DEF OutOfMemoryHonest, NoPlace
<1>1. UNCHANGED <<marks, block, running>> /\ NoPlace(running.size)
  <2>1. CASE UNCHANGED vars
    BY <2>1 DEF vars, hunkvars, cachevars, OutOfMemoryHonest, NoPlace
  <2>2. CASE Next
    <3>1. AllocEvicts /\ Unlocked = {} /\ SysError("out of memory")
      BY <2>2, OnlyEvictionFails
    <3>2. UNCHANGED <<marks, block, running>>
      BY <3>1 DEF SysError, hunkvars, cachevars
    <3>3. /\ running.size \in Nat \ {0} /\ NoFit(running.size) /\ Room < running.size
      BY <3>1, Work DEF AllocEvicts, Allocating
    <3>4. \A a \in hunk_low_used .. HunkSize - running.size :
             \E b \in Locked : Overlaps(a, running.size, b)
      <4> DEFINE n == running.size
      <4>1. n \in Nat \ {0} /\ NoFit(n) /\ Room < n
        BY <3>3
      <4> HIDE DEF n
      <4>2. ASSUME NEW a \in hunk_low_used .. HunkSize - n
            PROVE  \E b \in Locked : Overlaps(a, n, b)
        BY <3>1, <4>1, NoRoomLeft
      <4> QED BY <4>2 DEF n
    <3> QED BY <3>2, <3>4 DEF NoPlace
  <2> QED BY <2>1, <2>2
<1>2. NoPlace(running.size)' <=> NoPlace(running.size)
  BY <1>1 DEF NoPlace, hunk_low_used, Locked, Overlaps
<1> QED BY <1>1, <1>2

(* In a program that has torn no header Cache_Alloc gives up only when     *)
(* locked blocks break up all of the arena above the low hunk: no place of *)
(* the size asked for is free of them.                                     *)
THEOREM MemoryReallyOut == Spec => []OutOfMemoryHonest
<1>1. Init => OutOfMemoryHonest
  BY DEF Init, OutOfMemoryHonest
<1>2. StoreInv /\ OutOfMemoryHonest /\ [Next]_vars => OutOfMemoryHonest'
  <2>1. Stopped /\ UNCHANGED vars => OutOfMemoryHonest'
    <3> SUFFICES ASSUME Stopped, UNCHANGED vars PROVE error' # "out of memory"
      BY DEF OutOfMemoryHonest
    <3> QED BY DEF Stopped, vars
  <2> QED BY <2>1, HonestStep, StoppedStep DEF StoreInv
<1> QED BY <1>1, <1>2, StoreInvariant, PTL DEF Spec
=============================================================================
