--------------------------- MODULE BackbufProofs ---------------------------
(***************************************************************************)
(* What holds of the backup buffers for rings, buffers and blocks of any   *)
(* size: what is written for the client is sent, once and in order.  What  *)
(* waits is put together by FlattenSeq, so its properties come first.      *)
(***************************************************************************)
EXTENDS Backbuf, SequenceTheorems, WellFoundedInduction, TLAPS

(* Two ways to reason by induction with sets instead of operators.         *)
LEMMA LeastNumber ==
    ASSUME NEW S, S \subseteq Nat, S # {}
    PROVE  \E i \in S : \A k \in S : ~(k < i)
<1>1. PICK i \in S : \A k \in S : ~(<<k, i>> \in OpToRel(<, Nat))
  BY WFMin, NatLessThanWellFounded, Zenon
<1>2. \A k \in S : <<k, i>> \in Nat \X Nat
  OBVIOUS
<1>3. \A k \in S : ~(k < i)
  BY <1>1, <1>2, Zenon DEF OpToRel
<1> QED BY <1>3

LEMMA EverySequence ==
    ASSUME NEW S, NEW good, <<>> \in good,
           \A s \in Seq(S), e \in S : s \in good => Append(s, e) \in good
    PROVE  Seq(S) \subseteq good
<1> SUFFICES ASSUME NEW bad \in Seq(S), bad \notin good PROVE FALSE
  OBVIOUS
<1> DEFINE lengths == {n \in Nat : \E s \in Seq(S) : s \notin good /\ Len(s) = n}
<1>1. lengths \subseteq Nat /\ Len(bad) \in lengths
  BY LenProperties
<1>2. PICK n \in lengths : \A k \in lengths : ~(k < n)
  <2> HIDE DEF lengths
  <2> QED BY <1>1, LeastNumber
<1>3. PICK s \in Seq(S) : s \notin good /\ Len(s) = n
  BY <1>2
<1>4. PICK t \in Seq(S), e \in S : s = Append(t, e)
  BY <1>3, SequenceEmptyOrAppend
<1>5. Len(t) \in Nat /\ n = Len(t) + 1
  BY <1>3, <1>4, LenProperties, AppendProperties
<1>6. t \in good
  BY <1>2, <1>5
<1> QED BY <1>3, <1>4, <1>6

----------------------------------------------------------------------------
(* FlattenSeq *)

(* f is the function FlattenSeq(ss) is the last value of.                  *)
Flattens(ss, f) == f = [i \in 1..Len(ss) |-> IF i = 1 THEN ss[i] ELSE f[i - 1] \o ss[i]]

LEMMA FlattensShorter ==
    ASSUME NEW S, NEW ss \in Seq(S), NEW t \in S, NEW g, Flattens(Append(ss, t), g)
    PROVE  Flattens(ss, [i \in 1..Len(ss) |-> g[i]])
<1> DEFINE f == [i \in 1..Len(ss) |-> g[i]]
<1>1. Len(ss) \in Nat /\ Len(Append(ss, t)) = Len(ss) + 1
      /\ \A i \in 1..Len(ss) : Append(ss, t)[i] = ss[i]
  BY LenProperties, AppendProperties
<1>2. ASSUME NEW i \in 1..Len(ss)
      PROVE  f[i] = IF i = 1 THEN ss[i] ELSE f[i - 1] \o ss[i]
  <2>1. i \in 1..Len(Append(ss, t)) /\ f[i] = g[i] /\ Append(ss, t)[i] = ss[i]
    BY <1>1
  <2>2. g[i] = IF i = 1 THEN Append(ss, t)[i] ELSE g[i - 1] \o Append(ss, t)[i]
    BY <2>1 DEF Flattens
  <2>3. CASE i # 1
    <3>1. i - 1 \in 1..Len(ss)
      BY <1>1, <2>3
    <3>2. f[i - 1] = g[i - 1]
      BY <3>1
    <3> QED BY <2>1, <2>2, <2>3, <3>2
  <2> QED BY <2>1, <2>2, <2>3
<1> QED BY <1>2 DEF Flattens

LEMMA FlattensOnce ==
    ASSUME NEW S, NEW ss \in Seq(S)
    PROVE  /\ \E f : Flattens(ss, f)
           /\ \A f, g : Flattens(ss, f) /\ Flattens(ss, g) => f = g
<1> DEFINE good == {s \in Seq(S) : /\ \E f : Flattens(s, f)
                                   /\ \A f, g : Flattens(s, f) /\ Flattens(s, g) => f = g}
<1>1. <<>> \in good
  <2>1. <<>> \in Seq(S) /\ Len(<<>>) = 0 /\ 1..0 = {}
    BY EmptySeq
  <2>2. Flattens(<<>>, [i \in {} |-> 0])
    BY <2>1 DEF Flattens
  <2>3. ASSUME NEW f, Flattens(<<>>, f) PROVE f = [i \in {} |-> 0]
    BY <2>1, <2>3 DEF Flattens
  <2> QED BY <2>1, <2>2, <2>3
<1>2. ASSUME NEW s \in Seq(S), NEW e \in S, s \in good
      PROVE  Append(s, e) \in good
  <2> DEFINE a == Append(s, e)
             n == Len(s)
  <2>1. a \in Seq(S) /\ n \in Nat /\ Len(a) = n + 1
        /\ a[n + 1] = e /\ \A i \in 1..n : a[i] = s[i]
    BY LenProperties, AppendProperties
  <2> HIDE DEF a
  <2>2. \E g : Flattens(a, g)
    <3>1. PICK f : Flattens(s, f)
      BY <1>2
    <3> DEFINE g == [i \in 1..(n + 1) |-> IF i <= n THEN f[i]
                                          ELSE IF i = 1 THEN e ELSE f[n] \o e]
    <3>2. ASSUME NEW i \in 1..(n + 1)
          PROVE  g[i] = IF i = 1 THEN a[i] ELSE g[i - 1] \o a[i]
      <4>1. CASE i <= n
        <5>1. i \in 1..n
          BY <2>1, <4>1
        <5>2. g[i] = f[i] /\ a[i] = s[i]
          BY <2>1, <5>1, <4>1
        <5>3. f[i] = IF i = 1 THEN s[i] ELSE f[i - 1] \o s[i]
          BY <3>1, <5>1 DEF Flattens
        <5>4. i # 1 => g[i - 1] = f[i - 1]
          <6>1. i # 1 => i - 1 \in 1..(n + 1) /\ i - 1 <= n
            BY <2>1, <5>1
          <6> QED BY <6>1
        <5> HIDE DEF g
        <5> QED BY <5>2, <5>3, <5>4
      <4>2. CASE ~(i <= n)
        <5>1. i = n + 1 /\ a[i] = e
          BY <2>1, <4>2
        <5>2. g[i] = IF i = 1 THEN e ELSE f[n] \o e
          BY <4>2
        <5>3. i # 1 => g[i - 1] = f[n]
          <6>1. i # 1 => i - 1 = n /\ n \in 1..(n + 1) /\ n <= n
            BY <2>1, <5>1
          <6> QED BY <6>1
        <5> HIDE DEF g
        <5> QED BY <5>1, <5>2, <5>3
      <4> QED BY <4>1, <4>2
    <3>3. Flattens(a, g)
      BY <2>1, <3>2 DEF Flattens
    <3> QED BY <3>3
  <2>3. ASSUME NEW f, NEW g, Flattens(a, f), Flattens(a, g) PROVE f = g
    <3>1. [i \in 1..n |-> f[i]] = [i \in 1..n |-> g[i]]
      <4>1. Flattens(s, [i \in 1..n |-> f[i]]) /\ Flattens(s, [i \in 1..n |-> g[i]])
        BY <2>3, FlattensShorter DEF a
      <4> QED BY <1>2, <4>1
    <3>2. \A i \in 1..n : f[i] = g[i]
      BY <3>1
    <3>3. /\ f = [i \in 1..(n + 1) |-> IF i = 1 THEN a[i] ELSE f[i - 1] \o a[i]]
          /\ g = [i \in 1..(n + 1) |-> IF i = 1 THEN a[i] ELSE g[i - 1] \o a[i]]
      BY <2>1, <2>3 DEF Flattens
    <3>4. ASSUME NEW i \in 1..(n + 1) PROVE f[i] = g[i]
      <4>1. i = 1 \/ i - 1 \in 1..n
        BY <2>1
      <4> QED BY <3>2, <3>3, <4>1
    <3> QED BY <3>3, <3>4
  <2> QED BY <2>1, <2>2, <2>3 DEF a
<1>3. Seq(S) \subseteq good
  <2> HIDE DEF good
  <2> QED BY <1>1, <1>2, EverySequence
<1> QED BY <1>3

LEMMA FlattenIs ==
    ASSUME NEW S, NEW ss \in Seq(S), ss # <<>>, NEW f, Flattens(ss, f)
    PROVE  FlattenSeq(ss) = f[Len(ss)]
<1>1. Len(ss) # 0
  BY EmptySeq
<1> DEFINE chosen == CHOOSE g : g = [i \in 1..Len(ss) |->
                                        IF i = 1 THEN ss[i] ELSE g[i - 1] \o ss[i]]
<1>2. FlattenSeq(ss) = chosen[Len(ss)]
  BY <1>1 DEF FlattenSeq
<1>3. Flattens(ss, chosen)
  <2>1. \E g : g = [i \in 1..Len(ss) |-> IF i = 1 THEN ss[i] ELSE g[i - 1] \o ss[i]]
    BY DEF Flattens
  <2> QED BY <2>1 DEF Flattens
<1> HIDE DEF chosen
<1>4. chosen = f
  BY <1>3, FlattensOnce
<1> QED BY <1>2, <1>4

LEMMA FlattenNone == FlattenSeq(<<>>) = <<>>
BY EmptySeq DEF FlattenSeq

LEMMA FlattenAppend ==
    ASSUME NEW S, NEW ss \in Seq(Seq(S)), NEW t \in Seq(S)
    PROVE  FlattenSeq(Append(ss, t)) = FlattenSeq(ss) \o t
<1> DEFINE a == Append(ss, t)
           n == Len(ss)
<1>1. /\ a \in Seq(Seq(S)) /\ a # <<>> /\ n \in Nat /\ Len(a) = n + 1 /\ a[n + 1] = t
      /\ \A i \in 1..n : a[i] = ss[i]
  BY LenProperties, AppendProperties
<1>2. PICK g : Flattens(a, g)
  <2> HIDE DEF a
  <2> QED BY <1>1, FlattensOnce
<1> DEFINE f == [i \in 1..n |-> g[i]]
<1>3. Flattens(ss, f)
  BY <1>2, FlattensShorter
<1> HIDE DEF a
<1>4. FlattenSeq(a) = g[n + 1]
  BY <1>1, <1>2, FlattenIs
<1>5. g[n + 1] = IF n + 1 = 1 THEN t ELSE g[n] \o t
  <2>1. g = [i \in 1..(n + 1) |-> IF i = 1 THEN a[i] ELSE g[i - 1] \o a[i]]
    BY <1>1, <1>2 DEF Flattens
  <2>2. n + 1 \in 1..(n + 1) /\ (n + 1) - 1 = n
    BY <1>1
  <2> HIDE DEF n
  <2> QED BY <1>1, <2>1, <2>2
<1>6. CASE ss = <<>>
  <2>1. n = 0 /\ FlattenSeq(ss) = <<>>
    BY <1>6, FlattenNone, EmptySeq
  <2>2. FlattenSeq(a) = t
    BY <1>4, <1>5, <2>1
  <2> QED BY <2>1, <2>2, ConcatEmptySeq DEF a
<1>7. CASE ss # <<>>
  <2>0. n \in 1..n
    BY <1>1, <1>7, EmptySeq
  <2>1. FlattenSeq(ss) = f[n]
    <3> HIDE DEF f
    <3> QED BY <1>3, <1>7, FlattenIs
  <2>2. FlattenSeq(ss) = g[n]
    BY <2>0, <2>1
  <2>3. FlattenSeq(a) = g[n] \o t
    BY <1>4, <1>5, <2>0
  <2> QED BY <2>2, <2>3 DEF a
<1> QED BY <1>6, <1>7

LEMMA FlattenTyped ==
    ASSUME NEW S, NEW ss \in Seq(Seq(S))
    PROVE  FlattenSeq(ss) \in Seq(S)
<1> DEFINE good == {u \in Seq(Seq(S)) : FlattenSeq(u) \in Seq(S)}
<1>1. <<>> \in good
  BY FlattenNone, EmptySeq
<1>2. ASSUME NEW u \in Seq(Seq(S)), NEW t \in Seq(S), u \in good
      PROVE  Append(u, t) \in good
  BY <1>2, FlattenAppend, ConcatProperties, AppendProperties
<1>3. Seq(Seq(S)) \subseteq good
  <2> HIDE DEF good
  <2> QED BY <1>1, <1>2, EverySequence
<1> QED BY <1>3

LEMMA FlattenConcat ==
    ASSUME NEW S, NEW ss \in Seq(Seq(S)), NEW tt \in Seq(Seq(S))
    PROVE  FlattenSeq(ss \o tt) = FlattenSeq(ss) \o FlattenSeq(tt)
<1> DEFINE good == {u \in Seq(Seq(S)) : FlattenSeq(ss \o u) = FlattenSeq(ss) \o FlattenSeq(u)}
<1>1. <<>> \in good
  BY FlattenNone, FlattenTyped, EmptySeq, ConcatEmptySeq
<1>2. ASSUME NEW u \in Seq(Seq(S)), NEW t \in Seq(S), u \in good
      PROVE  Append(u, t) \in good
  <2>1. ss \o Append(u, t) = Append(ss \o u, t)
    <3>1. /\ <<t>> \in Seq(Seq(S)) /\ ss \o u \in Seq(Seq(S)) /\ Append(u, t) = u \o <<t>>
          /\ Append(ss \o u, t) = (ss \o u) \o <<t>>
      BY AppendIsConcat, ConcatProperties
    <3> QED BY <3>1, ConcatAssociative
  <2>2. /\ ss \o u \in Seq(Seq(S)) /\ Append(u, t) \in Seq(Seq(S))
        /\ FlattenSeq(ss) \in Seq(S) /\ FlattenSeq(u) \in Seq(S)
    BY ConcatProperties, AppendProperties, FlattenTyped
  <2>3. FlattenSeq(Append(ss \o u, t)) = (FlattenSeq(ss) \o FlattenSeq(u)) \o t
    BY <1>2, <2>2, FlattenAppend
  <2>4. FlattenSeq(Append(u, t)) = FlattenSeq(u) \o t
    BY FlattenAppend
  <2>5. (FlattenSeq(ss) \o FlattenSeq(u)) \o t = FlattenSeq(ss) \o (FlattenSeq(u) \o t)
    BY <2>2, ConcatAssociative
  <2> QED BY <2>1, <2>2, <2>3, <2>4, <2>5
<1>3. Seq(Seq(S)) \subseteq good
  <2> HIDE DEF good
  <2> QED BY <1>1, <1>2, EverySequence
<1> QED BY <1>3

LEMMA FlattenOne ==
    ASSUME NEW S, NEW t \in Seq(S)
    PROVE  FlattenSeq(<<t>>) = t
<1>1. <<>> \in Seq(Seq(S)) /\ <<t>> = Append(<<>>, t)
  BY EmptySeq
<1>2. FlattenSeq(Append(<<>>, t)) = FlattenSeq(<<>>) \o t
  BY <1>1, FlattenAppend
<1> QED BY <1>1, <1>2, FlattenNone, ConcatEmptySeq

----------------------------------------------------------------------------
(* Stream: bytes that other writers put in the message do not count.       *)
Part(b) == IF b = Other THEN <<>> ELSE <<b>>
Parts(s) == [i \in 1..Len(s) |-> Part(s[i])]

LEMMA PartsTyped ==
    ASSUME NEW s \in Seq(Bytes \cup {Other})
    PROVE  /\ Parts(s) \in Seq(Seq(Bytes)) /\ Len(Parts(s)) = Len(s)
           /\ \A i \in 1..Len(s) : Parts(s)[i] = Part(s[i])
           /\ Stream(s) = FlattenSeq(Parts(s))
<1>1. Len(s) \in Nat /\ \A i \in 1..Len(s) : s[i] \in Bytes \cup {Other}
  BY LenProperties, ElementOfSeq
<1>2. \A b \in Bytes \cup {Other} : Part(b) \in Seq(Bytes)
  BY EmptySeq DEF Part
<1>3. Parts(s) \in [1..Len(s) -> Seq(Bytes)]
  BY <1>1, <1>2 DEF Parts
<1>4. Parts(s) \in Seq(Seq(Bytes))
  BY <1>1, <1>3
<1>5. Stream(s) = FlattenSeq(Parts(s))
  BY DEF Stream, Parts, Part
<1> QED BY <1>1, <1>3, <1>4, <1>5, LenProperties DEF Parts

LEMMA StreamAppend ==
    ASSUME NEW s \in Seq(Bytes \cup {Other}), NEW b \in Bytes \cup {Other}
    PROVE  Stream(Append(s, b)) = Stream(s) \o Part(b)
<1> DEFINE a == Append(s, b)
<1>1. /\ a \in Seq(Bytes \cup {Other}) /\ Len(s) \in Nat /\ Len(a) = Len(s) + 1
      /\ a[Len(s) + 1] = b /\ \A i \in 1..Len(s) : a[i] = s[i]
  BY LenProperties, AppendProperties
<1> HIDE DEF a
<1>2. Part(b) \in Seq(Bytes)
  BY EmptySeq DEF Part
<1> DEFINE p == Append(Parts(s), Part(b))
<1>3. /\ p \in Seq(Seq(Bytes)) /\ Len(p) = Len(s) + 1 /\ p[Len(s) + 1] = Part(b)
      /\ \A i \in 1..Len(s) : p[i] = Parts(s)[i]
  BY <1>2, PartsTyped, AppendProperties
<1> HIDE DEF p
<1>4. Parts(a) = p
  <2>1. Parts(a) \in Seq(Seq(Bytes)) /\ Len(Parts(a)) = Len(p)
        /\ \A i \in 1..Len(a) : Parts(a)[i] = Part(a[i])
    BY <1>1, <1>3, PartsTyped
  <2>2. ASSUME NEW i \in 1..Len(Parts(a)) PROVE Parts(a)[i] = p[i]
    <3>1. CASE i \in 1..Len(s)
      <4>1. p[i] = Part(s[i])
        BY <1>3, <3>1, PartsTyped
      <4> QED BY <1>1, <1>3, <2>1, <3>1, <4>1
    <3>2. CASE i = Len(s) + 1
      BY <1>1, <1>3, <2>1, <3>2
    <3> QED BY <1>1, <1>3, <2>1, <3>1, <3>2
  <2> QED BY <1>3, <2>1, <2>2, SeqEqual
<1>5. Stream(a) = FlattenSeq(p)
  BY <1>1, <1>4, PartsTyped
<1> QED BY <1>2, <1>5, PartsTyped, FlattenAppend DEF a, p

LEMMA StreamTyped ==
    ASSUME NEW s \in Seq(Bytes \cup {Other})
    PROVE  Stream(s) \in Seq(Bytes)
BY PartsTyped, FlattenTyped

LEMMA StreamNone == Stream(<<>>) = <<>>
<1>1. <<>> \in Seq(Bytes \cup {Other}) /\ Len(<<>>) = 0
  BY EmptySeq
<1>2. Parts(<<>>) = <<>>
  BY <1>1, PartsTyped, EmptySeq
<1> QED BY <1>1, <1>2, PartsTyped, FlattenNone

LEMMA StreamConcat ==
    ASSUME NEW s \in Seq(Bytes \cup {Other}), NEW t \in Seq(Bytes \cup {Other})
    PROVE  Stream(s \o t) = Stream(s) \o Stream(t)
<1> DEFINE S == Bytes \cup {Other}
           good == {u \in Seq(S) : Stream(s \o u) = Stream(s) \o Stream(u)}
<1>1. <<>> \in good
  BY StreamNone, StreamTyped, EmptySeq, ConcatEmptySeq
<1>2. ASSUME NEW u \in Seq(S), NEW b \in S, u \in good
      PROVE  Append(u, b) \in good
  <2>1. s \o Append(u, b) = Append(s \o u, b)
    <3>1. /\ <<b>> \in Seq(S) /\ s \o u \in Seq(S) /\ Append(u, b) = u \o <<b>>
          /\ Append(s \o u, b) = (s \o u) \o <<b>>
      BY AppendIsConcat, ConcatProperties
    <3> QED BY <3>1, ConcatAssociative
  <2>2. /\ s \o u \in Seq(S) /\ Append(u, b) \in Seq(S)
        /\ Stream(s) \in Seq(Bytes) /\ Stream(u) \in Seq(Bytes) /\ Part(b) \in Seq(Bytes)
    BY ConcatProperties, AppendProperties, StreamTyped, EmptySeq DEF Part
  <2>3. Stream(Append(s \o u, b)) = (Stream(s) \o Stream(u)) \o Part(b)
    BY <1>2, <2>2, StreamAppend
  <2>4. Stream(Append(u, b)) = Stream(u) \o Part(b)
    BY StreamAppend
  <2>5. (Stream(s) \o Stream(u)) \o Part(b) = Stream(s) \o (Stream(u) \o Part(b))
    BY <2>2, ConcatAssociative
  <2> QED BY <2>1, <2>2, <2>3, <2>4, <2>5
<1>3. Seq(S) \subseteq good
  <2> HIDE DEF good, S
  <2> QED BY <1>1, <1>2, EverySequence
<1> QED BY <1>3

LEMMA OtherIsNoByte == Other \notin Bytes
BY SizesAssumption DEF Other, Bytes

LEMMA StreamOfBytes ==
    ASSUME NEW s \in Seq(Bytes)
    PROVE  Stream(s) = s
<1> DEFINE good == {u \in Seq(Bytes) : Stream(u) = u}
<1>1. <<>> \in good
  BY StreamNone, EmptySeq
<1>2. ASSUME NEW u \in Seq(Bytes), NEW b \in Bytes, u \in good
      PROVE  Append(u, b) \in good
  <2>1. u \in Seq(Bytes \cup {Other}) /\ b \in Bytes \cup {Other}
    BY SeqMonotonic
  <2>2. Part(b) = <<b>>
    BY OtherIsNoByte DEF Part
  <2>3. Stream(Append(u, b)) = Stream(u) \o <<b>>
    BY <2>1, <2>2, StreamAppend
  <2>4. Append(u, b) = u \o <<b>> /\ Append(u, b) \in Seq(Bytes)
    BY AppendIsConcat, AppendProperties
  <2> QED BY <1>2, <2>3, <2>4
<1>3. Seq(Bytes) \subseteq good
  <2> HIDE DEF good
  <2> QED BY <1>1, <1>2, EverySequence
<1> QED BY <1>3

LEMMA StreamOfOthers ==
    ASSUME NEW s \in Seq({Other})
    PROVE  Stream(s) = <<>>
<1> DEFINE good == {u \in Seq({Other}) : Stream(u) = <<>>}
<1>1. <<>> \in good
  BY StreamNone, EmptySeq
<1>2. ASSUME NEW u \in Seq({Other}), NEW b \in {Other}, u \in good
      PROVE  Append(u, b) \in good
  <2>1. u \in Seq(Bytes \cup {Other}) /\ b \in Bytes \cup {Other}
    BY SeqMonotonic
  <2>2. Part(b) = <<>>
    BY DEF Part
  <2>3. <<>> \o <<>> = <<>>
    BY EmptySeq, ConcatEmptySeq
  <2> QED BY <1>2, <2>1, <2>2, <2>3, StreamAppend, AppendProperties
<1>3. Seq({Other}) \subseteq good
  <2> HIDE DEF good
  <2> QED BY <1>1, <1>2, EverySequence
<1> QED BY <1>3
----------------------------------------------------------------------------
(* The ring.  Every slot has its size recorded, so that Waiting is what    *)
(* the slots in use hold.                                                  *)
Sized(r) == \A s \in Slots : r.size[s] = Len(r.data[s])
Held(r) == [i \in 1..r.num_backbuf |-> r.data[Slot(r, i - 1)]]
Joined(r) == Stream(r.message) \o FlattenSeq(Held(r))

LEMMA SlotFacts ==
    ASSUME NEW r \in Buffers
    PROVE  /\ Slot(r, 0) = r.head_backbuf
           /\ \A i \in 0..MaxBackBuffers : Slot(r, i) \in Slots
           /\ \A i, j \in 0..(MaxBackBuffers - 1) : Slot(r, i) = Slot(r, j) => i = j
<1> DEFINE h == r.head_backbuf
           N == MaxBackBuffers
<1>1. N \in Nat \ {0} /\ h \in 0..(N - 1)
  BY SizesAssumption DEF Buffers, Slots
<1> HIDE DEF h, N
<1>2. ASSUME NEW i \in 0..N PROVE (h + i) % N = IF h + i < N THEN h + i ELSE h + i - N
  BY <1>1
<1>3. \A i \in 0..N : (h + i) % N \in 0..(N - 1)
  BY <1>1, <1>2
<1>4. \A i, j \in 0..(N - 1) : (h + i) % N = (h + j) % N => i = j
  <2> TAKE i, j \in 0..(N - 1)
  <2>1. i \in 0..N /\ j \in 0..N
    BY <1>1
  <2> QED BY <1>1, <1>2, <2>1
<1>5. (h + 0) % N = h
  BY <1>1
<1>6. \A i : Slot(r, i) = (h + i) % N
  BY DEF Slot, h, N
<1> QED BY <1>3, <1>4, <1>5, <1>6 DEF h, N, Slots

LEMMA TailFacts ==
    ASSUME NEW r \in Buffers, r.num_backbuf # 0
    PROVE  Tail_(r) \in Slots /\ Tail_(r) = Slot(r, r.num_backbuf - 1)
<1>1. r.num_backbuf - 1 \in 0..MaxBackBuffers
  BY SizesAssumption DEF Buffers
<1> QED BY <1>1, SlotFacts DEF Tail_

LEMMA HeldFacts ==
    ASSUME NEW r \in Buffers
    PROVE  /\ Held(r) \in Seq(Seq(Bytes)) /\ Len(Held(r)) = r.num_backbuf
           /\ r.num_backbuf \in Nat
           /\ \A i \in 1..r.num_backbuf : Held(r)[i] = r.data[Slot(r, i - 1)]
           /\ FlattenSeq(Held(r)) \in Seq(Bytes)
           /\ Stream(r.message) \in Seq(Bytes) /\ Joined(r) \in Seq(Bytes)
<1>1. r.num_backbuf \in 0..MaxBackBuffers /\ MaxBackBuffers \in Nat
  BY SizesAssumption DEF Buffers
<1>2. \A s \in Slots : r.data[s] \in Seq(Bytes)
  BY DEF Buffers, Contents
<1>3. ASSUME NEW i \in 1..r.num_backbuf PROVE r.data[Slot(r, i - 1)] \in Seq(Bytes)
  <2>1. i - 1 \in 0..MaxBackBuffers
    BY <1>1
  <2> QED BY <1>2, <2>1, SlotFacts
<1>4. Held(r) \in [1..r.num_backbuf -> Seq(Bytes)]
  BY <1>3 DEF Held
<1>5. Held(r) \in Seq(Seq(Bytes)) /\ Len(Held(r)) = r.num_backbuf
  BY <1>1, <1>4
<1>6. r.message \in Seq(Bytes \cup {Other})
  BY DEF Buffers, Contents
<1>7. FlattenSeq(Held(r)) \in Seq(Bytes) /\ Stream(r.message) \in Seq(Bytes)
  BY <1>5, <1>6, FlattenTyped, StreamTyped
<1>8. Joined(r) \in Seq(Bytes)
  BY <1>7, ConcatProperties DEF Joined
<1> QED BY <1>1, <1>5, <1>7, <1>8 DEF Held

LEMMA WaitingIs ==
    ASSUME NEW r \in Buffers, Sized(r)
    PROVE  Waiting(r) = FlattenSeq(Held(r))
<1>1. r.num_backbuf \in 0..MaxBackBuffers /\ MaxBackBuffers \in Nat
  BY SizesAssumption DEF Buffers
<1>2. ASSUME NEW i \in 1..r.num_backbuf PROVE Kept(r, i) = r.data[Slot(r, i - 1)]
  <2>1. i - 1 \in 0..MaxBackBuffers
    BY <1>1
  <2>2. Slot(r, i - 1) \in Slots
    BY <2>1, SlotFacts
  <2> DEFINE d == r.data[Slot(r, i - 1)]
  <2>3. d \in Seq(Bytes) /\ r.size[Slot(r, i - 1)] = Len(d)
    BY <2>2 DEF Buffers, Contents, Sized
  <2>4. SubSeq(d, 1, Len(d)) = d
    <3> HIDE DEF d
    <3> QED BY <2>3, SubSeqFull
  <2> QED BY <2>3, <2>4 DEF Kept
<1>3. [i \in 1..r.num_backbuf |-> Kept(r, i)] = Held(r)
  BY <1>2 DEF Held
<1> QED BY <1>3 DEF Waiting

(* A new buffer holds nothing yet.                                         *)
LEMMA PushFacts ==
    ASSUME NEW r \in Buffers, Sized(r), r.num_backbuf < MaxBackBuffers
    PROVE  LET p == PushBackbuf(r) IN
           /\ p \in Buffers /\ Sized(p) /\ p.num_backbuf = r.num_backbuf + 1
           /\ p.message = r.message /\ p.overflowed = r.overflowed
           /\ p.data[Tail_(p)] = <<>> /\ Joined(p) = Joined(r)
<1> DEFINE p == PushBackbuf(r)
           n == r.num_backbuf
           t == Slot(r, n)
<1>1. n \in 0..(MaxBackBuffers - 1) /\ MaxBackBuffers \in Nat
  BY SizesAssumption DEF Buffers
<1>2. t \in Slots
  BY <1>1, SlotFacts
<1>3. <<>> \in Contents(Bytes) /\ 0 \in 0..MaxSize /\ Len(<<>>) = 0
  BY SizesAssumption, EmptySeq DEF Contents
<1>4. /\ p.message = r.message /\ p.overflowed = r.overflowed
      /\ p.num_backbuf = n + 1 /\ p.head_backbuf = r.head_backbuf
      /\ p.data = [r.data EXCEPT ![t] = <<>>] /\ p.size = [r.size EXCEPT ![t] = 0]
  BY DEF PushBackbuf, Buffers
<1>5. p \in Buffers
  <2>1. /\ [r.data EXCEPT ![t] = <<>>] \in [Slots -> Contents(Bytes)]
        /\ [r.size EXCEPT ![t] = 0] \in [Slots -> 0..MaxSize]
    BY <1>2, <1>3 DEF Buffers
  <2>2. n + 1 \in 0..MaxBackBuffers
    BY <1>1
  <2>3. p = [r EXCEPT !.data = [r.data EXCEPT ![t] = <<>>],
                      !.size = [r.size EXCEPT ![t] = 0], !.num_backbuf = n + 1]
    BY DEF PushBackbuf, Buffers
  <2> QED BY <2>1, <2>2, <2>3 DEF Buffers
<1>6. \A i : Slot(p, i) = Slot(r, i)
  BY <1>4 DEF Slot
<1>7. Tail_(p) = t
  BY <1>1, <1>4, <1>6 DEF Tail_
<1>8. r.data \in [Slots -> Contents(Bytes)] /\ r.size \in [Slots -> 0..MaxSize]
  BY DEF Buffers
<1>9. p.data[t] = <<>> /\ \A s \in Slots : s # t => p.data[s] = r.data[s]
  BY <1>2, <1>4, <1>8
<1>10. p.size[t] = 0 /\ \A s \in Slots : s # t => p.size[s] = r.size[s]
  BY <1>2, <1>4, <1>8
<1> HIDE DEF p, n, t
<1>11. Sized(p)
  BY <1>3, <1>9, <1>10 DEF Sized
<1>12. Held(p) = Append(Held(r), <<>>)
  <2>1. Held(p) \in Seq(Seq(Bytes)) /\ Len(Held(p)) = n + 1
        /\ \A i \in 1..(n + 1) : Held(p)[i] = p.data[Slot(p, i - 1)]
    BY <1>4, <1>5, HeldFacts
  <2>2. Held(r) \in Seq(Seq(Bytes)) /\ Len(Held(r)) = n
        /\ \A i \in 1..n : Held(r)[i] = r.data[Slot(r, i - 1)]
    BY HeldFacts DEF n
  <2> DEFINE a == Append(Held(r), <<>>)
  <2>3. a \in Seq(Seq(Bytes)) /\ Len(a) = n + 1 /\ a[n + 1] = <<>>
        /\ \A i \in 1..n : a[i] = Held(r)[i]
    BY <2>2, EmptySeq, AppendProperties
  <2> HIDE DEF a
  <2>4. ASSUME NEW i \in 1..Len(Held(p)) PROVE Held(p)[i] = a[i]
    <3>1. CASE i = n + 1
      <4>1. Slot(p, i - 1) = t
        BY <1>1, <1>6, <3>1 DEF t
      <4> QED BY <1>1, <1>9, <2>1, <2>3, <3>1, <4>1
    <3>2. CASE i \in 1..n
      <4>1. i - 1 \in 0..(MaxBackBuffers - 1) /\ i - 1 # n /\ i - 1 \in 0..MaxBackBuffers
            /\ i \in 1..(n + 1)
        BY <1>1, <3>2
      <4>2. Slot(r, i - 1) \in Slots /\ Slot(r, i - 1) # t
        BY <1>1, <4>1, SlotFacts DEF t
      <4> QED BY <1>6, <1>9, <2>1, <2>2, <2>3, <3>2, <4>1, <4>2
    <3> QED BY <1>1, <2>1, <3>1, <3>2
  <2> QED BY <2>1, <2>3, <2>4, SeqEqual DEF a
<1>13. FlattenSeq(Held(p)) = FlattenSeq(Held(r))
  <2>1. /\ Held(r) \in Seq(Seq(Bytes)) /\ <<>> \in Seq(Bytes)
        /\ FlattenSeq(Held(r)) \in Seq(Bytes)
    BY HeldFacts, EmptySeq
  <2>2. FlattenSeq(Append(Held(r), <<>>)) = FlattenSeq(Held(r)) \o <<>>
    BY <2>1, FlattenAppend
  <2> QED BY <1>12, <2>1, <2>2, ConcatEmptySeq
<1> QED BY <1>4, <1>5, <1>7, <1>9, <1>11, <1>13 DEF p, n, Joined
(* MSG_ReliableCheckBlock leaves room for the block, in the message buffer *)
(* if nothing waits, or else in the newest buffer, or drops the client.    *)
Makes(r, n, c) ==
    \/ c = r /\ r.num_backbuf = 0 /\ HasRoom(Len(r.message), n)
    \/ /\ c.num_backbuf # 0 /\ Sized(c) /\ HasRoom(Len(c.data[Tail_(c)]), n)
       /\ c.overflowed = r.overflowed /\ Joined(c) = Joined(r)
    \/ /\ c.num_backbuf # 0 /\ c.overflowed /\ c.data[Tail_(c)] = <<>>
       /\ \A s \in Slots : s # Tail_(c) => c.size[s] = Len(c.data[s])

LEMMA CheckFacts ==
    ASSUME NEW r \in Buffers, Sized(r), NEW n \in 0..(MaxSize - 1)
    PROVE  LET c == ReliableCheckBlock(r, n) IN
           /\ c \in Buffers /\ c.message = r.message
           /\ r.overflowed => c.overflowed
           /\ Makes(r, n, c)
<1> DEFINE c == ReliableCheckBlock(r, n)
           o == Opened(r)
           t == Tail_(o)
<1>0. /\ MaxBackBuffers \in Nat \ {0, 1} /\ MaxSize \in Nat \ {0}
      /\ r.num_backbuf \in 0..MaxBackBuffers
  BY SizesAssumption DEF Buffers
<1>1. CASE ~Waits(r, n)
  <2>1. c = r
    BY <1>1 DEF ReliableCheckBlock
  <2>2. r.num_backbuf = 0 /\ HasRoom(Len(r.message), n)
    BY <1>0, <1>1 DEF Waits
  <2> QED BY <2>1, <2>2 DEF Makes
<1>2. CASE Waits(r, n)
  <2>1. /\ o \in Buffers /\ Sized(o) /\ o.num_backbuf # 0
        /\ o.message = r.message /\ o.overflowed = r.overflowed /\ Joined(o) = Joined(r)
    BY <1>0, PushFacts DEF Opened
  <2>2. t \in Slots
    BY <2>1, TailFacts
  <2>3. CASE HasRoom(Len(o.data[t]), n)
    <3>1. c = o
      BY <1>2, <2>3 DEF ReliableCheckBlock
    <3> QED BY <2>1, <2>3, <3>1 DEF Makes
  <2>4. CASE ~HasRoom(Len(o.data[t]), n) /\ o.num_backbuf < MaxBackBuffers
    <3>1. c = PushBackbuf(o)
      BY <1>2, <2>4 DEF ReliableCheckBlock
    <3>2. /\ c \in Buffers /\ Sized(c) /\ c.num_backbuf = o.num_backbuf + 1
          /\ c.message = o.message /\ c.overflowed = o.overflowed
          /\ c.data[Tail_(c)] = <<>> /\ Joined(c) = Joined(o)
      BY <2>1, <2>4, <3>1, PushFacts
    <3>3. HasRoom(Len(<<>>), n)
      BY <1>0, EmptySeq DEF HasRoom
    <3>4. c.num_backbuf # 0
      BY <2>1, <3>2 DEF Buffers
    <3> HIDE DEF c, o, t
    <3> QED BY <2>1, <3>2, <3>3, <3>4 DEF Makes, c
  <2>5. CASE ~HasRoom(Len(o.data[t]), n) /\ ~(o.num_backbuf < MaxBackBuffers)
    <3>1. c = [o EXCEPT !.data[t] = <<>>, !.overflowed = TRUE]
      BY <1>2, <2>5 DEF ReliableCheckBlock
    <3> HIDE DEF c, o, t
    <3>2. <<>> \in Contents(Bytes)
      BY <1>0, EmptySeq DEF Contents
    <3>3. /\ c.data = [o.data EXCEPT ![t] = <<>>] /\ c.size = o.size /\ c.overflowed = TRUE
          /\ c.num_backbuf = o.num_backbuf /\ c.head_backbuf = o.head_backbuf
          /\ c.message = o.message
      BY <2>1, <3>1 DEF Buffers
    <3>4. o.data \in [Slots -> Contents(Bytes)]
      BY <2>1 DEF Buffers
    <3>5. [o.data EXCEPT ![t] = <<>>] \in [Slots -> Contents(Bytes)]
      BY <3>2, <3>4
    <3>6. c \in Buffers
      <4>1. c = [o EXCEPT !.data = [o.data EXCEPT ![t] = <<>>], !.overflowed = TRUE]
        BY <2>1, <3>1 DEF Buffers
      <4> QED BY <2>1, <3>5, <4>1 DEF Buffers
    <3>7. Tail_(c) = t
      BY <3>3 DEF Tail_, Slot, t
    <3>8. c.data[t] = <<>> /\ \A s \in Slots : s # t => c.size[s] = Len(c.data[s])
      BY <2>1, <2>2, <3>3, <3>4 DEF Sized
    <3> QED BY <2>1, <3>3, <3>6, <3>7, <3>8 DEF Makes, c
  <2> QED BY <2>3, <2>4, <2>5
<1> QED BY <1>1, <1>2

(* A block written to the newest buffer is the last that waits.            *)
LEMMA TailWritten ==
    ASSUME NEW c \in Buffers, c.num_backbuf # 0, NEW s \in Seq(Bytes),
           Len(c.data[Tail_(c)]) + Len(s) <= MaxSize,
           \A k \in Slots : k # Tail_(c) => c.size[k] = Len(c.data[k])
    PROVE  LET w == FinishWrite([c EXCEPT !.data[Tail_(c)] = Appended(@, s)]) IN
           /\ w \in Buffers /\ Sized(w)
           /\ w.message = c.message /\ w.overflowed = c.overflowed
           /\ FlattenSeq(Held(w)) = FlattenSeq(Held(c)) \o s
<1> DEFINE t == Tail_(c)
           d == c.data[t]
           n == c.num_backbuf
           b == [c EXCEPT !.data[t] = Appended(@, s)]
           w == FinishWrite(b)
<1>1. n \in 1..MaxBackBuffers /\ MaxBackBuffers \in Nat /\ MaxSize \in Nat
  BY SizesAssumption DEF Buffers
<1>2. t \in Slots /\ t = Slot(c, n - 1)
  BY TailFacts
<1>3. c.data \in [Slots -> Contents(Bytes)] /\ c.size \in [Slots -> 0..MaxSize]
  BY DEF Buffers
<1>4. d \in Seq(Bytes) /\ Len(d) + Len(s) <= MaxSize
  BY <1>2, <1>3 DEF Contents
<1>5. /\ Appended(d, s) = d \o s /\ d \o s \in Seq(Bytes) /\ Len(d \o s) = Len(d) + Len(s)
  BY <1>4, ConcatProperties DEF Appended
<1>6. d \o s \in Contents(Bytes) /\ Len(d \o s) \in 0..MaxSize
  BY <1>1, <1>4, <1>5, LenProperties DEF Contents
<1>7. /\ b.data = [c.data EXCEPT ![t] = d \o s] /\ b.size = c.size
      /\ b.num_backbuf = n /\ b.head_backbuf = c.head_backbuf
      /\ b.message = c.message /\ b.overflowed = c.overflowed
      /\ b = [c EXCEPT !.data = [c.data EXCEPT ![t] = d \o s]]
  BY <1>5 DEF Buffers
<1> HIDE DEF t, d, n, b, w
<1>8. [c.data EXCEPT ![t] = d \o s] \in [Slots -> Contents(Bytes)]
  BY <1>3, <1>6
<1>9. b \in Buffers
  BY <1>7, <1>8 DEF Buffers
<1>10. Tail_(b) = t /\ b.data[t] = d \o s
  BY <1>2, <1>3, <1>7 DEF Tail_, Slot, t, n
<1>11. w = [b EXCEPT !.size[t] = Len(d \o s)]
  BY <1>10 DEF w, FinishWrite
<1>12. /\ w.size = [c.size EXCEPT ![t] = Len(d \o s)] /\ w.data = [c.data EXCEPT ![t] = d \o s]
       /\ w.num_backbuf = n /\ w.head_backbuf = c.head_backbuf
       /\ w.message = c.message /\ w.overflowed = c.overflowed
       /\ w = [b EXCEPT !.size = [c.size EXCEPT ![t] = Len(d \o s)]]
  BY <1>7, <1>9, <1>11 DEF Buffers
<1>13. [c.size EXCEPT ![t] = Len(d \o s)] \in [Slots -> 0..MaxSize]
  BY <1>3, <1>6
<1>14. w \in Buffers
  BY <1>9, <1>12, <1>13 DEF Buffers
<1>15. Sized(w)
  BY <1>2, <1>3, <1>12 DEF Sized, t
<1>16. \A i : Slot(w, i) = Slot(c, i)
  BY <1>12 DEF Slot
<1> DEFINE front == [i \in 1..(n - 1) |-> Held(c)[i]]
<1>17. /\ Held(c) \in Seq(Seq(Bytes)) /\ Len(Held(c)) = n
       /\ \A i \in 1..n : Held(c)[i] = c.data[Slot(c, i - 1)]
  BY HeldFacts DEF n
<1>18. /\ Held(w) \in Seq(Seq(Bytes)) /\ Len(Held(w)) = n
       /\ \A i \in 1..n : Held(w)[i] = w.data[Slot(c, i - 1)]
  <2>1. \A i \in 1..n : Held(w)[i] = w.data[Slot(w, i - 1)]
    BY <1>12, <1>14, HeldFacts
  <2> QED BY <1>12, <1>14, <1>16, <2>1, HeldFacts
<1>19. /\ front \in Seq(Seq(Bytes)) /\ Len(front) = n - 1
       /\ \A i \in 1..(n - 1) : front[i] = Held(c)[i]
  <2>1. \A i \in 1..(n - 1) : Held(c)[i] \in Seq(Bytes)
    BY <1>1, <1>17, ElementOfSeq
  <2>2. front \in [1..(n - 1) -> Seq(Bytes)] /\ n - 1 \in Nat
    BY <1>1, <2>1
  <2>3. front \in Seq(Seq(Bytes)) /\ Len(front) = n - 1
    <3> HIDE DEF front
    <3> QED BY <2>2
  <2> QED BY <2>3
<1> HIDE DEF front
<1>20. ASSUME NEW x \in Seq(Bytes)
       PROVE  LET a == Append(front, x) IN
              /\ a \in Seq(Seq(Bytes)) /\ Len(a) = n /\ a[n] = x
              /\ \A i \in 1..(n - 1) : a[i] = Held(c)[i]
  BY <1>1, <1>19, AppendProperties
<1>21. Held(c) = Append(front, d)
  <2>1. ASSUME NEW i \in 1..Len(Held(c)) PROVE Held(c)[i] = Append(front, d)[i]
    <3>1. CASE i = n
      <4>1. Held(c)[n] = d
        BY <1>1, <1>2, <1>17 DEF d
      <4> QED BY <1>4, <1>20, <3>1, <4>1
    <3>2. CASE i \in 1..(n - 1)
      BY <1>4, <1>20, <3>2
    <3>3. i = n \/ i \in 1..(n - 1)
      BY <1>1, <1>17
    <3> QED BY <3>1, <3>2, <3>3
  <2> QED BY <1>4, <1>17, <1>20, <2>1, SeqEqual
<1>22. Held(w) = Append(front, d \o s)
  <2>1. ASSUME NEW i \in 1..Len(Held(w)) PROVE Held(w)[i] = Append(front, d \o s)[i]
    <3>1. CASE i = n
      <4>1. Held(w)[n] = d \o s
        <5>1. n \in 1..n
          BY <1>1
        <5>2. Held(w)[n] = w.data[t]
          BY <1>2, <1>18, <5>1
        <5>3. w.data[t] = d \o s
          BY <1>2, <1>3, <1>12
        <5> QED BY <5>2, <5>3
      <4> QED BY <1>5, <1>20, <3>1, <4>1
    <3>2. CASE i \in 1..(n - 1)
      <4>1. i - 1 \in 0..(MaxBackBuffers - 1) /\ n - 1 \in 0..(MaxBackBuffers - 1)
            /\ i - 1 # n - 1 /\ i - 1 \in 0..MaxBackBuffers /\ i \in 1..n
        BY <1>1, <3>2
      <4>2. Slot(c, i - 1) \in Slots /\ Slot(c, i - 1) # t
        BY <1>2, <4>1, SlotFacts
      <4>3. w.data[Slot(c, i - 1)] = c.data[Slot(c, i - 1)]
        BY <1>3, <1>12, <4>2
      <4> QED BY <1>5, <1>17, <1>18, <1>20, <3>2, <4>1, <4>3
    <3>3. i = n \/ i \in 1..(n - 1)
      BY <1>1, <1>18
    <3> QED BY <3>1, <3>2, <3>3
  <2> QED BY <1>5, <1>18, <1>20, <2>1, SeqEqual
<1>23. FlattenSeq(Held(w)) = FlattenSeq(Held(c)) \o s
  <2>1. FlattenSeq(Held(c)) = FlattenSeq(front) \o d
    BY <1>4, <1>19, <1>21, FlattenAppend
  <2>2. FlattenSeq(Held(w)) = FlattenSeq(front) \o (d \o s)
    BY <1>5, <1>19, <1>22, FlattenAppend
  <2>3. FlattenSeq(front) \in Seq(Bytes)
    BY <1>19, FlattenTyped
  <2>4. (FlattenSeq(front) \o d) \o s = FlattenSeq(front) \o (d \o s)
    BY <1>4, <2>3, ConcatAssociative
  <2> QED BY <2>1, <2>2, <2>4
<1> QED BY <1>12, <1>14, <1>15, <1>23 DEF w, b, t
(* SZ_Write: all or nothing, and what waits does not matter to it.         *)
LEMMA MessageWritten ==
    ASSUME NEW r \in Buffers, NEW s \in Seq(Bytes \cup {Other}), Len(s) <= MaxSize
    PROVE  LET w == WriteMessage(r, s) IN
           /\ w \in Buffers /\ (Sized(r) => Sized(w)) /\ Held(w) = Held(r)
           /\ w.num_backbuf = r.num_backbuf /\ w.head_backbuf = r.head_backbuf
           /\ w.data = r.data /\ w.size = r.size
           /\ w.overflowed <=> r.overflowed \/ Len(r.message) + Len(s) > MaxSize
           /\ ~(Len(r.message) + Len(s) > MaxSize) => w.message = r.message \o s
<1> DEFINE w == WriteMessage(r, s)
           m == Appended(r.message, s)
<1>0. MaxSize \in Nat /\ Len(s) \in Nat /\ Len(r.message) \in Nat
      /\ r.message \in Seq(Bytes \cup {Other}) /\ r.overflowed \in BOOLEAN
  BY SizesAssumption, LenProperties DEF Buffers, Contents
<1>1. m \in Contents(Bytes \cup {Other})
  <2>1. CASE Len(r.message) + Len(s) <= MaxSize
    BY <1>0, <2>1, ConcatProperties DEF Appended, Contents
  <2>2. CASE ~(Len(r.message) + Len(s) <= MaxSize)
    BY <2>2 DEF Appended, Contents
  <2> QED BY <2>1, <2>2
<1>2. ~(Len(r.message) + Len(s) > MaxSize) => m = r.message \o s
  BY <1>0 DEF Appended
<1> DEFINE o == r.overflowed \/ Len(r.message) + Len(s) > MaxSize
<1>3. o \in BOOLEAN
  OBVIOUS
<1>4. w = [r EXCEPT !.message = m, !.overflowed = o]
  BY DEF WriteMessage, Buffers
<1> HIDE DEF m, o, w
<1>5. /\ w.message = m /\ w.overflowed = o /\ w.data = r.data /\ w.size = r.size
      /\ w.num_backbuf = r.num_backbuf /\ w.head_backbuf = r.head_backbuf
      /\ w \in Buffers
  BY <1>1, <1>3, <1>4 DEF Buffers
<1>6. (Sized(r) => Sized(w)) /\ Held(w) = Held(r)
  BY <1>5 DEF Sized, Held, Slot
<1> QED BY <1>2, <1>5, <1>6 DEF w, o

(* MSG_ReliableWrite_*: the block follows all that was there, or the       *)
(* client is marked to be dropped.                                         *)
LEMMA BlockWritten ==
    ASSUME NEW r \in Buffers, Sized(r), NEW s \in Seq(Bytes), Len(s) <= MaxSize - 1
    PROVE  LET w == ReliableWrite(r, s) IN
           /\ w \in Buffers /\ Sized(w) /\ (r.overflowed => w.overflowed)
           /\ ~w.overflowed => Joined(w) = Joined(r) \o s
<1> DEFINE c == ReliableCheckBlock(r, Len(s))
           w == ReliableWrite(r, s)
<1>0. MaxSize \in Nat \ {0} /\ Len(s) \in 0..(MaxSize - 1) /\ s \in Seq(Bytes \cup {Other})
  <2>1. MaxSize \in Nat \ {0} /\ Len(s) \in Nat
    BY SizesAssumption, LenProperties
  <2> QED BY <2>1, SeqMonotonic
<1>1. /\ c \in Buffers /\ c.message = r.message /\ (r.overflowed => c.overflowed)
      /\ Makes(r, Len(s), c)
  BY <1>0, CheckFacts
<1>2. /\ c.num_backbuf = 0 => w = WriteMessage(c, s)
      /\ c.num_backbuf # 0 =>
            w = FinishWrite([c EXCEPT !.data[Tail_(c)] = Appended(@, s)])
  BY DEF ReliableWrite
<1>3. r.message \in Seq(Bytes \cup {Other}) /\ Len(r.message) \in Nat
  BY LenProperties DEF Buffers, Contents
<1>4. FlattenSeq(Held(r)) \in Seq(Bytes) /\ Stream(r.message) \in Seq(Bytes)
  BY HeldFacts
<1> HIDE DEF c, w
<1>5. CASE c = r /\ r.num_backbuf = 0 /\ HasRoom(Len(r.message), Len(s))
  <2>1. w = WriteMessage(r, s) /\ Len(s) <= MaxSize /\ ~(Len(r.message) + Len(s) > MaxSize)
    BY <1>0, <1>2, <1>3, <1>5 DEF HasRoom
  <2>2. /\ w \in Buffers /\ Sized(w) /\ Held(w) = Held(r) /\ (w.overflowed <=> r.overflowed)
        /\ w.message = r.message \o s
    BY <1>0, <2>1, MessageWritten
  <2>3. FlattenSeq(Held(r)) = <<>>
    <3>1. Held(r) = <<>>
      BY <1>5, HeldFacts, EmptySeq
    <3> QED BY <3>1, FlattenNone
  <2>4. Stream(w.message) = Stream(r.message) \o s
    <3>1. Stream(r.message \o s) = Stream(r.message) \o Stream(s)
      BY <1>0, <1>3, StreamConcat
    <3> QED BY <2>2, <3>1, StreamOfBytes
  <2>5. Joined(r) = Stream(r.message)
    BY <1>4, <2>3, ConcatEmptySeq DEF Joined
  <2>6. Joined(w) = Stream(r.message) \o s
    <3>1. Stream(r.message) \o s \in Seq(Bytes)
      BY <1>4, ConcatProperties
    <3> QED BY <2>2, <2>3, <2>4, <3>1, ConcatEmptySeq DEF Joined
  <2> QED BY <2>2, <2>5, <2>6 DEF w
<1>6. CASE /\ c.num_backbuf # 0 /\ Sized(c) /\ HasRoom(Len(c.data[Tail_(c)]), Len(s))
           /\ c.overflowed = r.overflowed /\ Joined(c) = Joined(r)
  <2>1. Tail_(c) \in Slots
    BY <1>1, <1>6, TailFacts
  <2>2. Len(c.data[Tail_(c)]) \in Nat
    <3>1. c.data[Tail_(c)] \in Seq(Bytes)
      BY <1>1, <2>1 DEF Buffers, Contents
    <3> QED BY <3>1, LenProperties
  <2>3. Len(c.data[Tail_(c)]) + Len(s) <= MaxSize
    BY <1>0, <1>6, <2>2 DEF HasRoom
  <2>4. \A k \in Slots : k # Tail_(c) => c.size[k] = Len(c.data[k])
    BY <1>6 DEF Sized
  <2>5. /\ w \in Buffers /\ Sized(w) /\ w.message = c.message /\ w.overflowed = c.overflowed
        /\ FlattenSeq(Held(w)) = FlattenSeq(Held(c)) \o s
    BY <1>1, <1>2, <1>6, <2>3, <2>4, TailWritten
  <2>6. Joined(w) = Joined(c) \o s
    <3>1. Stream(c.message) \in Seq(Bytes) /\ FlattenSeq(Held(c)) \in Seq(Bytes)
      BY <1>1, HeldFacts
    <3>2. (Stream(c.message) \o FlattenSeq(Held(c))) \o s
          = Stream(c.message) \o (FlattenSeq(Held(c)) \o s)
      BY <3>1, ConcatAssociative
    <3> QED BY <2>5, <3>2 DEF Joined
  <2> QED BY <1>6, <2>5, <2>6 DEF w
<1>7. CASE /\ c.num_backbuf # 0 /\ c.overflowed /\ c.data[Tail_(c)] = <<>>
           /\ \A k \in Slots : k # Tail_(c) => c.size[k] = Len(c.data[k])
  <2>1. Len(c.data[Tail_(c)]) + Len(s) <= MaxSize
    BY <1>0, <1>7, EmptySeq
  <2>2. w \in Buffers /\ Sized(w) /\ w.overflowed = c.overflowed
    BY <1>1, <1>2, <1>7, <2>1, TailWritten
  <2> QED BY <1>7, <2>2 DEF w
<1> QED BY <1>1, <1>5, <1>6, <1>7 DEF Makes

(* The head moves to the next slot in use.                                 *)
LEMMA HeadFreed ==
    ASSUME NEW r \in Buffers, Sized(r), r.num_backbuf # 0
    PROVE  LET w == Sent(r) IN
           /\ w \in Buffers /\ Sized(w)
           /\ w.message = r.message /\ w.overflowed = r.overflowed
           /\ r.data[r.head_backbuf] \in Seq(Bytes)
           /\ FlattenSeq(Held(r)) = r.data[r.head_backbuf] \o FlattenSeq(Held(w))
<1> DEFINE h == r.head_backbuf
           n == r.num_backbuf
           x == IF n > 1 THEN Slot(r, 1) ELSE h
           w == Sent(r)
<1>1. /\ n \in 1..MaxBackBuffers /\ MaxBackBuffers \in Nat \ {0, 1} /\ h \in Slots
      /\ 0 \in 0..MaxSize /\ <<>> \in Contents(Bytes) /\ Len(<<>>) = 0
  BY SizesAssumption, EmptySeq DEF Buffers, Contents
<1>2. x \in Slots
  <2>1. 1 \in 0..MaxBackBuffers
    BY <1>1
  <2> QED BY <1>1, <2>1, SlotFacts
<1>3. r.data \in [Slots -> Contents(Bytes)] /\ r.size \in [Slots -> 0..MaxSize]
  BY DEF Buffers
<1> DEFINE d == [r.data EXCEPT ![h] = <<>>]
           z == [r.size EXCEPT ![h] = 0]
<1>4. d \in [Slots -> Contents(Bytes)] /\ z \in [Slots -> 0..MaxSize]
  BY <1>1, <1>3
<1>5. n - 1 \in 0..MaxBackBuffers
  BY <1>1
<1>6. w = [r EXCEPT !.data = d, !.size = z, !.num_backbuf = n - 1, !.head_backbuf = x]
  BY DEF Sent, Freed, Buffers
<1>7. /\ d[h] = <<>> /\ z[h] = 0
      /\ \A s \in Slots : s # h => d[s] = r.data[s] /\ z[s] = r.size[s]
  BY <1>1, <1>3
<1> HIDE DEF d, z, x, w, n, h
<1>8. /\ w \in Buffers /\ w.data = d /\ w.size = z /\ w.num_backbuf = n - 1
      /\ w.head_backbuf = x /\ w.message = r.message /\ w.overflowed = r.overflowed
  BY <1>2, <1>4, <1>5, <1>6 DEF Buffers
<1>9. Sized(w)
  BY <1>1, <1>7, <1>8 DEF Sized
<1>10. ASSUME NEW i \in 1..(n - 1)
       PROVE  Slot(w, i - 1) = Slot(r, i)
  <2>1. x = Slot(r, 1)
    BY <1>1, <1>10 DEF x
  <2>2. Slot(w, i - 1) = (x + (i - 1)) % MaxBackBuffers
    BY <1>8 DEF Slot
  <2>3. x = (h + 1) % MaxBackBuffers /\ Slot(r, i) = (h + i) % MaxBackBuffers
    BY <2>1 DEF Slot, h
  <2>4. h \in 0..(MaxBackBuffers - 1)
    BY <1>1 DEF Slots
  <2>5. x = IF h + 1 < MaxBackBuffers THEN h + 1 ELSE 0
    BY <1>1, <2>3, <2>4
  <2>6. i \in 1..(MaxBackBuffers - 1)
    BY <1>1
  <2>7. CASE h + 1 < MaxBackBuffers
    <3>1. x + (i - 1) = h + i
      BY <1>1, <2>4, <2>5, <2>6, <2>7
    <3> QED BY <2>2, <2>3, <3>1
  <2>8. CASE ~(h + 1 < MaxBackBuffers)
    <3>1. x = 0 /\ h = MaxBackBuffers - 1
      BY <1>1, <2>4, <2>5, <2>8
    <3>2. (0 + (i - 1)) % MaxBackBuffers = i - 1
      BY <1>1, <2>6
    <3>3. (MaxBackBuffers - 1 + i) % MaxBackBuffers = i - 1
      BY <1>1, <2>6
    <3> QED BY <2>2, <2>3, <3>1, <3>2, <3>3
  <2> QED BY <2>7, <2>8
<1>11. /\ Held(r) \in Seq(Seq(Bytes)) /\ Len(Held(r)) = n
       /\ \A i \in 1..n : Held(r)[i] = r.data[Slot(r, i - 1)]
  BY HeldFacts DEF n
<1>12. /\ Held(w) \in Seq(Seq(Bytes)) /\ Len(Held(w)) = n - 1
       /\ \A i \in 1..(n - 1) : Held(w)[i] = w.data[Slot(w, i - 1)]
  BY <1>8, HeldFacts
<1>13. r.data[h] \in Seq(Bytes)
  BY <1>1, <1>3 DEF Contents
<1> DEFINE one == <<r.data[h]>>
<1>14. one \in Seq(Seq(Bytes)) /\ Len(one) = 1 /\ one[1] = r.data[h]
       /\ FlattenSeq(one) = r.data[h]
  BY <1>13, FlattenOne
<1> HIDE DEF one
<1> DEFINE a == one \o Held(w)
<1>15. /\ a \in Seq(Seq(Bytes)) /\ Len(a) = 1 + (n - 1)
       /\ \A i \in 1..1 + (n - 1) : a[i] = IF i <= 1 THEN one[i] ELSE Held(w)[i - 1]
  <2>1. /\ a \in Seq(Seq(Bytes)) /\ Len(a) = Len(one) + Len(Held(w))
        /\ \A i \in 1..Len(one) + Len(Held(w)) :
              a[i] = IF i <= Len(one) THEN one[i] ELSE Held(w)[i - Len(one)]
    BY <1>12, <1>14, ConcatProperties
  <2> HIDE DEF a
  <2> QED BY <1>12, <1>14, <2>1
<1> HIDE DEF a
<1>16. Held(r) = a
  <2>1. Len(a) = n
    BY <1>1, <1>15
  <2>2. ASSUME NEW i \in 1..Len(Held(r)) PROVE Held(r)[i] = a[i]
    <3>1. i \in 1..n /\ i \in 1..1 + (n - 1)
      BY <1>1, <1>11
    <3>2. CASE i = 1
      <4>1. Held(r)[1] = r.data[h]
        <5>1. 1 - 1 = 0 /\ Slot(r, 0) = h
          BY SlotFacts DEF h
        <5> QED BY <1>11, <3>1, <3>2, <5>1
      <4> QED BY <1>14, <1>15, <3>1, <3>2, <4>1
    <3>3. CASE i # 1
      <4>1. i - 1 \in 1..(n - 1) /\ ~(i <= 1) /\ i - 1 \in 0..(MaxBackBuffers - 1)
            /\ 0 \in 0..(MaxBackBuffers - 1) /\ i - 1 \in 0..MaxBackBuffers
        BY <1>1, <3>1, <3>3
      <4>2. a[i] = Held(w)[i - 1]
        BY <1>15, <3>1, <4>1
      <4>3. Held(w)[i - 1] = w.data[Slot(r, i - 1)]
        BY <1>10, <1>12, <4>1
      <4>4. Slot(r, i - 1) \in Slots /\ Slot(r, i - 1) # h
        BY <3>3, <4>1, SlotFacts DEF h
      <4>5. w.data[Slot(r, i - 1)] = r.data[Slot(r, i - 1)]
        BY <1>7, <1>8, <4>4
      <4> QED BY <1>11, <3>1, <4>2, <4>3, <4>5
    <3> QED BY <3>2, <3>3
  <2> QED BY <1>11, <1>15, <2>1, <2>2, SeqEqual
<1>17. FlattenSeq(Held(r)) = r.data[h] \o FlattenSeq(Held(w))
  BY <1>12, <1>14, <1>16, FlattenConcat DEF a
<1> QED BY <1>8, <1>9, <1>13, <1>17 DEF w, h
(* MSG_Reliable_Send: the oldest buffer goes whole to the message, or      *)
(* nothing happens.                                                        *)
LEMMA OldestSent ==
    ASSUME NEW r \in Buffers, Sized(r)
    PROVE  LET w == ReliableSend(r) IN
           /\ w \in Buffers /\ Sized(w) /\ w.overflowed = r.overflowed
           /\ Joined(w) = Joined(r)
<1> DEFINE o == Oldest(r)
           m == WriteMessage(r, o)
           w == ReliableSend(r)
           h == r.head_backbuf
<1>1. CASE ~HeadFits(r)
  BY <1>1 DEF ReliableSend
<1>2. CASE HeadFits(r)
  <2>0. MaxSize \in Nat \ {0} /\ h \in Slots /\ r.num_backbuf # 0
        /\ r.message \in Seq(Bytes \cup {Other}) /\ Len(r.message) \in Nat
    BY <1>2, SizesAssumption, LenProperties DEF Buffers, Contents, HeadFits
  <2>1. /\ r.data[h] \in Seq(Bytes) /\ r.size[h] = Len(r.data[h])
        /\ Len(r.data[h]) \in Nat /\ Len(r.data[h]) <= MaxSize
    <3>1. r.data[h] \in Contents(Bytes) /\ r.size[h] = Len(r.data[h])
      BY <2>0 DEF Buffers, Sized
    <3> QED BY <3>1, LenProperties DEF Contents
  <2>2. o = r.data[h] /\ o \in Seq(Bytes \cup {Other})
    <3>1. SubSeq(r.data[h], 1, Len(r.data[h])) = r.data[h]
      BY <2>1, SubSeqFull
    <3>2. o = r.data[h]
      BY <2>1, <3>1 DEF Oldest
    <3> QED BY <2>1, <3>2, SeqMonotonic
  <2>3. w = Sent(m)
    BY <1>2 DEF ReliableSend
  <2>4. ~(Len(r.message) + Len(o) > MaxSize) /\ Len(o) <= MaxSize
    <3>1. Len(r.message) + r.size[h] < MaxSize
      BY <1>2 DEF HeadFits, HasRoom
    <3>2. Len(r.message) + Len(o) < MaxSize /\ Len(o) \in Nat /\ Len(o) <= MaxSize
      BY <2>1, <2>2, <3>1
    <3> HIDE DEF o
    <3> QED BY <2>0, <3>2
  <2> HIDE DEF o, m, w
  <2>5. /\ m \in Buffers /\ Sized(m) /\ Held(m) = Held(r) /\ m.num_backbuf # 0
        /\ m.head_backbuf = h /\ m.data = r.data /\ m.overflowed = r.overflowed
        /\ m.message = r.message \o o
    <3>1. m.overflowed = r.overflowed
      <4>1. m.overflowed <=> r.overflowed
        BY <2>2, <2>4, MessageWritten DEF m
      <4>2. m \in Buffers
        BY <2>2, <2>4, MessageWritten DEF m
      <4> QED BY <4>1, <4>2 DEF Buffers
    <3> QED BY <2>0, <2>2, <2>4, <3>1, MessageWritten DEF m
  <2>6. /\ w \in Buffers /\ Sized(w) /\ w.message = m.message /\ w.overflowed = m.overflowed
        /\ FlattenSeq(Held(m)) = m.data[h] \o FlattenSeq(Held(w))
    BY <2>3, <2>5, HeadFreed
  <2>7. Stream(w.message) = Stream(r.message) \o r.data[h]
    <3>1. Stream(r.message \o o) = Stream(r.message) \o Stream(o)
      BY <2>0, <2>2, StreamConcat
    <3>2. Stream(o) = r.data[h]
      BY <2>1, <2>2, StreamOfBytes
    <3> QED BY <2>5, <2>6, <3>1, <3>2
  <2>8. FlattenSeq(Held(r)) = r.data[h] \o FlattenSeq(Held(w))
    BY <2>5, <2>6
  <2>9. Stream(r.message) \in Seq(Bytes) /\ FlattenSeq(Held(w)) \in Seq(Bytes)
    BY <2>6, HeldFacts
  <2>10. Joined(w) = Joined(r)
    <3>1. /\ Joined(w) = (Stream(r.message) \o r.data[h]) \o FlattenSeq(Held(w))
          /\ Joined(r) = Stream(r.message) \o (r.data[h] \o FlattenSeq(Held(w)))
      BY <2>7, <2>8 DEF Joined
    <3>2. (Stream(r.message) \o r.data[h]) \o FlattenSeq(Held(w))
          = Stream(r.message) \o (r.data[h] \o FlattenSeq(Held(w)))
      <4> DEFINE front == Stream(r.message)
                 d == r.data[h]
                 rest == FlattenSeq(Held(w))
      <4>1. front \in Seq(Bytes) /\ d \in Seq(Bytes) /\ rest \in Seq(Bytes)
        BY <2>1, <2>9
      <4> HIDE DEF front, d, rest
      <4>2. (front \o d) \o rest = front \o (d \o rest)
        BY <4>1, ConcatAssociative
      <4> QED BY <4>2 DEF front, d, rest
    <3> QED BY <3>1, <3>2
  <2> QED BY <2>5, <2>6, <2>10 DEF w
<1> QED BY <1>1, <1>2

----------------------------------------------------------------------------
(* The server *)

BackbufInv == TypeOK /\ Sized(rel) /\ (~rel.overflowed /\ ~forgotten => Joined(rel) = pending)

LEMMA BlocksFit ==
    /\ MaxSize \in Nat \ {0} /\ Numbers \in Nat \ {0}
    /\ \A n \in Blocks \cup {0} : n \in 0..(MaxSize - 1) /\ n <= MaxSize
BY SizesAssumption

LEMMA NumberedTyped ==
    ASSUME NEW n \in Blocks \cup {0}, last \in Bytes
    PROVE  /\ Numbered(last, n) \in Seq(Bytes) /\ Len(Numbered(last, n)) = n
           /\ (last + n) % Numbers \in Bytes
<1>1. n \in Nat /\ Numbers \in Nat \ {0} /\ last \in Nat
  BY BlocksFit DEF Bytes
<1>2. \A i \in 0..n : (last + i) % Numbers \in 0..(Numbers - 1)
  BY <1>1
<1>3. Numbered(last, n) \in [1..n -> Bytes]
  BY <1>1, <1>2 DEF Numbered, Bytes
<1>4. n \in 0..n
  BY <1>1
<1> QED BY <1>1, <1>2, <1>3, <1>4 DEF Bytes, Numbered

LEMMA OthersTyped ==
    ASSUME NEW n \in Blocks
    PROVE  /\ Others(n) \in Seq({Other}) /\ Others(n) \in Seq(Bytes \cup {Other})
           /\ Len(Others(n)) = n
<1>1. n \in Nat
  BY BlocksFit
<1>2. Others(n) \in Seq({Other}) /\ Len(Others(n)) = n
  BY <1>1 DEF Others
<1> QED BY <1>2, SeqMonotonic

LEMMA FreshFacts == Fresh \in Buffers /\ Sized(Fresh) /\ Joined(Fresh) = <<>>
<1>1. /\ MaxSize \in Nat \ {0} /\ MaxBackBuffers \in Nat \ {0, 1}
      /\ \A S : <<>> \in Seq(S) /\ Len(<<>>) = 0
  BY SizesAssumption, EmptySeq
<1>2. \A S : <<>> \in Contents(S)
  BY <1>1 DEF Contents
<1>3. Fresh \in Buffers
  <2>1. /\ [s \in Slots |-> <<>>] \in [Slots -> Contents(Bytes)]
        /\ [s \in Slots |-> 0] \in [Slots -> 0..MaxSize]
    BY <1>1, <1>2
  <2>2. 0 \in 0..MaxBackBuffers /\ 0 \in Slots
    BY <1>1 DEF Slots
  <2> QED BY <1>2, <2>1, <2>2 DEF Fresh, Buffers
<1>4. Sized(Fresh)
  BY <1>1 DEF Sized, Fresh
<1>5. Held(Fresh) = <<>>
  <2>1. Fresh.num_backbuf = 0
    BY DEF Fresh
  <2> QED BY <1>3, <2>1, HeldFacts, EmptySeq
<1>6. Fresh.message = <<>>
  BY DEF Fresh
<1> QED BY <1>1, <1>3, <1>4, <1>5, <1>6, FlattenNone, StreamNone, ConcatEmptySeq DEF Joined

LEMMA InitInv == Init => BackbufInv
<1> SUFFICES ASSUME Init PROVE BackbufInv
  OBVIOUS
<1>1. rel = Fresh /\ pending = <<>> /\ forgotten = FALSE /\ last = 0 /\ direct = 0
  BY DEF Init
<1>2. TypeOK
  <2>1. last \in Bytes /\ direct \in 0..MaxDirect
    BY <1>1, SizesAssumption DEF Bytes
  <2> QED BY <1>1, <2>1, FreshFacts, EmptySeq DEF TypeOK
<1> QED BY <1>1, <1>2, FreshFacts DEF BackbufInv

LEMMA NewClientKeeps ==
    ASSUME NewClient
    PROVE  BackbufInv'
<1>1. rel' = Fresh /\ pending' = <<>> /\ forgotten' = FALSE /\ last' = 0 /\ direct' = 0
  BY DEF NewClient
<1>2. TypeOK'
  <2>1. last' \in Bytes /\ direct' \in 0..MaxDirect
    BY <1>1, SizesAssumption DEF Bytes
  <2> QED BY <1>1, <2>1, FreshFacts, EmptySeq DEF TypeOK
<1> QED BY <1>1, <1>2, FreshFacts DEF BackbufInv

LEMMA WriteKeeps ==
    ASSUME BackbufInv, NEW n \in Blocks, Write(n)
    PROVE  BackbufInv'
<1> DEFINE s == Numbered(last, n)
<1>1. /\ rel \in Buffers /\ pending \in Seq(Bytes) /\ forgotten \in BOOLEAN /\ last \in Bytes
      /\ direct \in 0..MaxDirect /\ Sized(rel)
      /\ n \in Blocks \cup {0} /\ Len(s) = n /\ n <= MaxSize - 1
      /\ s \in Seq(Bytes) /\ (last + n) % Numbers \in Bytes
  BY BlocksFit, NumberedTyped DEF BackbufInv, TypeOK
<1>2. /\ rel' = ReliableWrite(rel, s) /\ pending' = Owed(rel', forgotten, pending \o s)
      /\ forgotten' = forgotten /\ last' = (last + n) % Numbers /\ direct' = direct
  BY DEF Write
<1> HIDE DEF s
<1>3. /\ rel' \in Buffers /\ Sized(rel') /\ (rel.overflowed => rel'.overflowed)
      /\ ~rel'.overflowed => Joined(rel') = Joined(rel) \o s
  BY <1>1, <1>2, BlockWritten
<1>4. pending' \in Seq(Bytes)
  BY <1>1, <1>2, ConcatProperties, EmptySeq DEF Owed
<1>5. ~rel'.overflowed /\ ~forgotten' => Joined(rel') = pending'
  BY <1>2, <1>3 DEF BackbufInv, Owed
<1> QED BY <1>1, <1>2, <1>3, <1>4, <1>5 DEF BackbufInv, TypeOK, Sized, Joined, Held, Slot

(* Other bytes in the message are not of the stream.                       *)
LEMMA OthersWritten ==
    ASSUME NEW r \in Buffers, Sized(r), NEW n \in Blocks
    PROVE  LET w == WriteMessage(r, Others(n)) IN
           /\ w \in Buffers /\ Sized(w)
           /\ ~w.overflowed => ~r.overflowed /\ Joined(w) = Joined(r)
           /\ Len(r.message) = 0 /\ ~r.overflowed => ~w.overflowed
<1> DEFINE s == Others(n)
           w == WriteMessage(r, s)
<1>1. /\ s \in Seq(Bytes \cup {Other}) /\ Len(s) = n /\ n \in Nat /\ n <= MaxSize
      /\ MaxSize \in Nat /\ Stream(s) = <<>>
  BY BlocksFit, OthersTyped, StreamOfOthers
<1>2. r.message \in Seq(Bytes \cup {Other}) /\ Len(r.message) \in Nat
  BY LenProperties DEF Buffers, Contents
<1> HIDE DEF s
<1>3. /\ w \in Buffers /\ Sized(w) /\ Held(w) = Held(r)
      /\ w.overflowed <=> r.overflowed \/ Len(r.message) + n > MaxSize
      /\ ~(Len(r.message) + n > MaxSize) => w.message = r.message \o s
  BY <1>1, MessageWritten
<1> HIDE DEF w
<1>4. ASSUME ~w.overflowed PROVE Joined(w) = Joined(r)
  <2>1. w.message = r.message \o s
    BY <1>3, <1>4
  <2>2. Stream(w.message) = Stream(r.message) \o <<>>
    BY <1>1, <1>2, <2>1, StreamConcat
  <2>3. Stream(w.message) = Stream(r.message)
    BY <1>2, <2>2, StreamTyped, ConcatEmptySeq
  <2> QED BY <1>3, <2>3 DEF Joined
<1>5. Len(r.message) = 0 /\ ~r.overflowed => ~w.overflowed
  BY <1>1, <1>3
<1> QED BY <1>3, <1>4, <1>5 DEF w, s

LEMMA DirectWriteKeeps ==
    ASSUME BackbufInv, NEW n \in Blocks, DirectWrite(n)
    PROVE  BackbufInv'
<1>1. /\ rel \in Buffers /\ pending \in Seq(Bytes) /\ forgotten \in BOOLEAN /\ last \in Bytes
      /\ direct \in 0..MaxDirect /\ Sized(rel)
  BY DEF BackbufInv, TypeOK
<1>2. /\ rel' = WriteMessage(rel, Others(n)) /\ pending' = Owed(rel', forgotten, pending)
      /\ forgotten' = forgotten /\ last' = last /\ direct' \in 0..MaxDirect
  BY <1>1, SizesAssumption DEF DirectWrite, Counted
<1>3. /\ rel' \in Buffers /\ Sized(rel')
      /\ ~rel'.overflowed => ~rel.overflowed /\ Joined(rel') = Joined(rel)
  BY <1>1, <1>2, OthersWritten
<1>4. /\ pending' \in Seq(Bytes)
      /\ ~rel'.overflowed /\ ~forgotten' => Joined(rel') = pending'
  BY <1>1, <1>2, <1>3, EmptySeq DEF BackbufInv, Owed
<1> QED BY <1>1, <1>2, <1>3, <1>4 DEF BackbufInv, TypeOK, Sized, Joined, Held, Slot

LEMMA EmptiedFacts ==
    ASSUME NEW r \in Buffers, Sized(r), r.num_backbuf > 0
    PROVE  LET e == Emptied(r) IN
           /\ e \in Buffers /\ Sized(e) /\ ~e.overflowed /\ e.message = <<>>
           /\ Joined(e) = <<>>
<1> DEFINE e == Emptied(r)
<1>1. e = [r EXCEPT !.num_backbuf = 0, !.message = <<>>, !.overflowed = FALSE,
                    !.data = Fresh.data, !.size = Fresh.size]
  BY DEF Emptied
<1> HIDE DEF e
<1>2. /\ Fresh.data \in [Slots -> Contents(Bytes)] /\ Fresh.size \in [Slots -> 0..MaxSize]
      /\ <<>> \in Contents(Bytes \cup {Other}) /\ 0 \in 0..MaxBackBuffers
  <2>1. Fresh.message = <<>> /\ Fresh.num_backbuf = 0
    BY DEF Fresh
  <2> QED BY <2>1, FreshFacts DEF Buffers
<1>3. /\ e \in Buffers /\ e.message = <<>> /\ e.overflowed = FALSE /\ e.num_backbuf = 0
      /\ e.data = Fresh.data /\ e.size = Fresh.size
  BY <1>1, <1>2 DEF Buffers
<1>4. Sized(e)
  BY <1>3, FreshFacts DEF Sized
<1>5. Held(e) = <<>>
  BY <1>3, HeldFacts, EmptySeq
<1>6. Joined(e) = <<>>
  BY <1>3, <1>5, FlattenNone, StreamNone, EmptySeq, ConcatEmptySeq DEF Joined
<1> QED BY <1>3, <1>4, <1>6 DEF e

LEMMA SignOnKeeps ==
    ASSUME BackbufInv, NEW n \in Blocks, SignOn(n)
    PROVE  BackbufInv'
<1>1. /\ rel \in Buffers /\ pending \in Seq(Bytes) /\ forgotten \in BOOLEAN /\ last \in Bytes
      /\ direct \in 0..MaxDirect /\ Sized(rel)
  BY DEF BackbufInv, TypeOK
<1>2. /\ rel' = WriteMessage(Emptied(rel), Others(n)) /\ last' = last
      /\ forgotten' = (forgotten /\ rel.num_backbuf = 0) /\ forgotten' \in BOOLEAN
      /\ pending' = IF rel.num_backbuf > 0 THEN <<>> ELSE Owed(rel', forgotten, pending)
      /\ direct' \in 0..MaxDirect
  BY <1>1, SizesAssumption DEF SignOn, Counted
<1>3. CASE rel.num_backbuf > 0
  <2>1. /\ Emptied(rel) \in Buffers /\ Sized(Emptied(rel)) /\ Joined(Emptied(rel)) = <<>>
    BY <1>1, <1>3, EmptiedFacts
  <2>2. /\ rel' \in Buffers /\ Sized(rel')
        /\ ~rel'.overflowed => Joined(rel') = <<>>
    BY <1>2, <2>1, OthersWritten
  <2>3. pending' = <<>> /\ pending' \in Seq(Bytes)
    BY <1>2, <1>3, EmptySeq
  <2> QED BY <1>1, <1>2, <2>2, <2>3 DEF BackbufInv, TypeOK, Sized, Joined, Held, Slot
<1>4. CASE ~(rel.num_backbuf > 0)
  <2>1. Emptied(rel) = rel
    BY <1>4 DEF Emptied
  <2>4. forgotten' = forgotten
    BY <1>1, <1>2, <1>4 DEF Buffers
  <2>2. /\ rel' \in Buffers /\ Sized(rel')
        /\ ~rel'.overflowed => ~rel.overflowed /\ Joined(rel') = Joined(rel)
    BY <1>1, <1>2, <2>1, OthersWritten
  <2>3. /\ pending' \in Seq(Bytes)
        /\ ~rel'.overflowed /\ ~forgotten' => Joined(rel') = pending'
    BY <1>1, <1>2, <1>4, <2>2, <2>4, EmptySeq DEF BackbufInv, Owed
  <2> QED BY <1>1, <1>2, <2>2, <2>3 DEF BackbufInv, TypeOK, Sized, Joined, Held, Slot
<1> QED BY <1>3, <1>4

(* What is left of a sequence when its beginning is taken.                 *)
LEMMA RestOf ==
    ASSUME NEW m \in Seq(Bytes)
    PROVE  /\ \A all \in Seq(Bytes) : SubSeq(all, Len(m) + 1, Len(all)) \in Seq(Bytes)
           /\ \A w \in Seq(Bytes) : SubSeq(m \o w, Len(m) + 1, Len(m \o w)) = w
<1>1. ASSUME NEW all \in Seq(Bytes)
      PROVE  SubSeq(all, Len(m) + 1, Len(all)) \in Seq(Bytes)
  <2>1. Len(m) \in Nat /\ Len(all) \in Nat
    BY LenProperties
  <2>2. \A i \in (Len(m) + 1)..Len(all) : i \in 1..Len(all)
    BY <2>1
  <2> QED BY <2>1, <2>2, SubSeqProperties
<1>2. ASSUME NEW w \in Seq(Bytes)
      PROVE  SubSeq(m \o w, Len(m) + 1, Len(m \o w)) = w
  <2>1. Len(m) \in Nat /\ Len(w) \in Nat /\ Len(m \o w) = Len(m) + Len(w)
    BY LenProperties, ConcatProperties
  <2>2. m \o w \in Seq(Bytes)
    BY ConcatProperties
  <2>3. CASE Len(w) = 0
    <3>1. w = <<>>
      BY <2>3, EmptySeq
    <3>2. SubSeq(m \o w, Len(m) + 1, Len(m \o w)) = <<>>
      BY <2>1, <2>2, <2>3, SubSeqEmpty
    <3> QED BY <3>1, <3>2
  <2>4. CASE Len(w) # 0
    <3>1. /\ Len(m) + 1 \in (Len(m) + 1)..(Len(m) + Len(w))
          /\ Len(m) + Len(w) \in (Len(m) + 1)..(Len(m) + Len(w))
      BY <2>1, <2>4
    <3>2. SubSeq(m \o w, Len(m) + 1, Len(m) + Len(w))
          = SubSeq(w, (Len(m) + 1) - Len(m), (Len(m) + Len(w)) - Len(m))
      BY <2>1, <3>1, SubSeqOfConcat2
    <3>3. (Len(m) + 1) - Len(m) = 1 /\ (Len(m) + Len(w)) - Len(m) = Len(w)
      BY <2>1
    <3> QED BY <2>1, <3>2, <3>3, SubSeqFull
  <2> QED BY <2>3, <2>4
<1> QED BY <1>1, <1>2

LEMMA SpawnKeeps ==
    ASSUME BackbufInv, NEW n \in Blocks, Spawn(n)
    PROVE  BackbufInv'
<1> DEFINE s == Numbered(last, n)
           c == [rel EXCEPT !.message = <<>>, !.overflowed = FALSE]
           m == Stream(rel.message)
           w == Waiting(rel)
<1>1. /\ rel \in Buffers /\ pending \in Seq(Bytes) /\ forgotten \in BOOLEAN /\ last \in Bytes
      /\ direct \in 0..MaxDirect /\ Sized(rel)
      /\ n \in Blocks \cup {0} /\ Len(s) = n /\ n <= MaxSize - 1
      /\ s \in Seq(Bytes) /\ (last + n) % Numbers \in Bytes
  BY BlocksFit, NumberedTyped DEF BackbufInv, TypeOK
<1>2. /\ rel' = ReliableWrite(c, s)
      /\ pending' = Owed(rel', forgotten', SubSeq(pending, Len(m) + 1, Len(pending)) \o s)
      /\ forgotten' = (forgotten \/ rel.overflowed) /\ forgotten' \in BOOLEAN
      /\ last' = (last + n) % Numbers /\ direct' = direct
  BY <1>1 DEF Spawn
<1> HIDE DEF s
<1>3. /\ c \in Buffers /\ c.message = <<>> /\ c.num_backbuf = rel.num_backbuf
      /\ c.head_backbuf = rel.head_backbuf /\ c.data = rel.data /\ c.size = rel.size
  <2>1. <<>> \in Contents(Bytes \cup {Other})
    BY BlocksFit, EmptySeq DEF Contents
  <2> QED BY <1>1, <2>1 DEF Buffers
<1> HIDE DEF c
<1>4. Sized(c) /\ Held(c) = Held(rel)
  BY <1>1, <1>3 DEF Sized, Held, Slot
<1>5. w = FlattenSeq(Held(rel)) /\ w \in Seq(Bytes) /\ m \in Seq(Bytes)
  BY <1>1, WaitingIs, HeldFacts
<1>6. Joined(c) = w
  BY <1>3, <1>4, <1>5, StreamNone, ConcatEmptySeq DEF Joined
<1>7. /\ rel' \in Buffers /\ Sized(rel')
      /\ ~rel'.overflowed => Joined(rel') = w \o s
  BY <1>1, <1>2, <1>3, <1>4, <1>6, BlockWritten
<1>8. ~rel.overflowed /\ ~forgotten => pending = m \o w
  BY <1>5 DEF BackbufInv, Joined
<1> HIDE DEF m, w
<1>9. SubSeq(pending, Len(m) + 1, Len(pending)) \in Seq(Bytes)
  BY <1>1, <1>5, RestOf
<1>10. ~rel.overflowed /\ ~forgotten => SubSeq(pending, Len(m) + 1, Len(pending)) = w
  BY <1>5, <1>8, RestOf
<1>11. /\ pending' \in Seq(Bytes)
       /\ ~rel'.overflowed /\ ~forgotten' => Joined(rel') = pending'
  BY <1>1, <1>2, <1>7, <1>9, <1>10, ConcatProperties, EmptySeq DEF Owed
<1> QED BY <1>1, <1>2, <1>7, <1>11 DEF BackbufInv, TypeOK, Sized, Joined, Held, Slot

(* What the channel takes is the beginning of what is pending.             *)
LEMMA FrameKeeps ==
    ASSUME BackbufInv, NEW n \in Blocks \cup {0}, NEW taken \in BOOLEAN,
           SendClientMessages(n, taken)
    PROVE  BackbufInv'
<1> DEFINE s == Numbered(last, n)
           b == Updated(n)
           r == ReliableSend(b)
           all == pending \o s
<1>1. /\ rel \in Buffers /\ pending \in Seq(Bytes) /\ forgotten \in BOOLEAN /\ last \in Bytes
      /\ direct \in 0..MaxDirect /\ Sized(rel)
      /\ Len(s) = n /\ n <= MaxSize - 1 /\ n \in Nat /\ Len(pending) \in Nat
      /\ s \in Seq(Bytes) /\ (last + n) % Numbers \in Bytes
  BY BlocksFit, NumberedTyped, LenProperties DEF BackbufInv, TypeOK
<1>2. IF r.overflowed THEN NewClient
      ELSE /\ rel' = IF taken THEN [r EXCEPT !.message = <<>>] ELSE r
           /\ pending' = Owed(r, forgotten,
                              SubSeq(all, IF taken THEN Len(Stream(r.message)) + 1 ELSE 1,
                                     Len(pending) + n))
           /\ forgotten' = forgotten
           /\ last' = (last + n) % Numbers /\ direct' = direct
  BY DEF SendClientMessages
<1>3. CASE r.overflowed
  BY <1>2, <1>3, NewClientKeeps
<1>4. CASE ~r.overflowed
  <2> HIDE DEF s
  <2>1. /\ b \in Buffers /\ Sized(b) /\ (rel.overflowed => b.overflowed)
        /\ ~b.overflowed => Joined(b) = Joined(rel) \o s
    <3>1. CASE n = 0
      <4>1. b = rel /\ s = <<>>
        BY <1>1, <3>1, EmptySeq DEF Updated
      <4>2. Joined(rel) \in Seq(Bytes)
        BY <1>1, HeldFacts, ConcatProperties DEF Joined
      <4> QED BY <1>1, <4>1, <4>2, ConcatEmptySeq
    <3>2. CASE n # 0
      <4>1. b = ReliableWrite(rel, s)
        BY <3>2 DEF Updated, s
      <4> QED BY <1>1, <4>1, BlockWritten
    <3> QED BY <3>1, <3>2
  <2> HIDE DEF b
  <2>2. r \in Buffers /\ Sized(r) /\ r.overflowed = b.overflowed /\ Joined(r) = Joined(b)
    BY <2>1, OldestSent
  <2> HIDE DEF r
  <2>3. ~forgotten => Joined(r) = all
    BY <1>4, <2>1, <2>2 DEF BackbufInv
  <2>4. /\ all \in Seq(Bytes) /\ Len(all) = Len(pending) + n
    BY <1>1, ConcatProperties
  <2> DEFINE m == Stream(r.message)
             w == FlattenSeq(Held(r))
  <2>5. /\ last' \in Bytes /\ direct' \in 0..MaxDirect
        /\ forgotten' \in BOOLEAN /\ forgotten' = forgotten
    BY <1>1, <1>2, <1>4
  <2>6. CASE ~taken
    <3>1. rel' = r /\ pending' = IF forgotten THEN <<>> ELSE SubSeq(all, 1, Len(all))
      BY <1>2, <1>4, <2>4, <2>6 DEF Owed
    <3>2. pending' = IF forgotten THEN <<>> ELSE all
      <4> HIDE DEF all
      <4> QED BY <2>4, <3>1, SubSeqFull
    <3>3. pending' \in Seq(Bytes) /\ (~forgotten' => Joined(rel') = pending')
      <4> HIDE DEF all
      <4> QED BY <2>3, <2>4, <2>5, <3>1, <3>2, EmptySeq
    <3> QED BY <2>2, <2>5, <3>1, <3>3
        DEF BackbufInv, TypeOK, Sized, Joined, Held, Slot
  <2>7. CASE taken
    <3> DEFINE c == [r EXCEPT !.message = <<>>]
    <3>1. /\ rel' = c
          /\ pending' = IF forgotten THEN <<>> ELSE SubSeq(all, Len(m) + 1, Len(all))
      BY <1>2, <1>4, <2>4, <2>7 DEF Owed
    <3>2. /\ c \in Buffers /\ c.message = <<>> /\ c.num_backbuf = r.num_backbuf
          /\ c.head_backbuf = r.head_backbuf /\ c.data = r.data /\ c.size = r.size
      <4>1. <<>> \in Contents(Bytes \cup {Other})
        BY BlocksFit, EmptySeq DEF Contents
      <4> QED BY <2>2, <4>1 DEF Buffers
    <3> HIDE DEF c
    <3>3. Sized(c) /\ Held(c) = Held(r)
      BY <2>2, <3>2 DEF Sized, Held, Slot
    <3>4. m \in Seq(Bytes) /\ w \in Seq(Bytes)
      BY <2>2, HeldFacts
    <3>5. Joined(c) = w
      BY <3>2, <3>3, <3>4, StreamNone, ConcatEmptySeq DEF Joined
    <3>6. ~forgotten => all = m \o w
      BY <2>3 DEF Joined
    <3> HIDE DEF m, w, all
    <3>7. pending' \in Seq(Bytes) /\ (~forgotten' => pending' = w)
      BY <2>4, <2>5, <3>1, <3>4, <3>6, RestOf, EmptySeq
    <3> QED BY <2>5, <3>1, <3>2, <3>3, <3>5, <3>7
        DEF BackbufInv, TypeOK, Sized, Joined, Held, Slot
  <2> QED BY <2>6, <2>7
<1> QED BY <1>3, <1>4

LEMMA StepInv == BackbufInv /\ [Next]_vars => BackbufInv'
<1> SUFFICES ASSUME BackbufInv, [Next]_vars PROVE BackbufInv'
  OBVIOUS
<1>1. CASE NewClient
  BY <1>1, NewClientKeeps
<1>2. ASSUME NEW n \in Blocks, Write(n) \/ DirectWrite(n) \/ SignOn(n) \/ Spawn(n)
      PROVE  BackbufInv'
  BY <1>2, WriteKeeps, DirectWriteKeeps, SignOnKeeps, SpawnKeeps
<1>3. ASSUME NEW n \in Blocks \cup {0}, NEW taken \in BOOLEAN, SendClientMessages(n, taken)
      PROVE  BackbufInv'
  BY <1>3, FrameKeeps
<1>4. CASE UNCHANGED vars
  BY <1>4 DEF vars, BackbufInv, TypeOK, Sized, Joined, Held, Slot
<1> QED BY <1>1, <1>2, <1>3, <1>4 DEF Next

(* Buffers in use hold what their recorded sizes say, and with the message *)
(* they are what is pending: for a ring of any size.                       *)
THEOREM BackbufCorrect == Spec => []BackbufInv
<1> QED BY InitInv, StepInv, PTL DEF Spec

(* Every variable keeps its type: no buffer grows beyond MaxSize, num and  *)
(* head stay in the ring.                                                  *)
THEOREM TypeCorrect == Spec => []TypeOK
<1>1. BackbufInv => TypeOK
  BY DEF BackbufInv
<1> QED BY <1>1, BackbufCorrect, PTL

(* MSG_ReliableCheckBlock, MSG_Reliable_FinishWrite and MSG_Reliable_Send: *)
(* what writers give for a client is sent once, in order and all of it, or *)
(* the client is marked to be dropped, or SV_Spawn_f cleared the mark.     *)
THEOREM StreamKept == Spec => []StreamIntact
<1>1. BackbufInv => StreamIntact
  BY WaitingIs DEF BackbufInv, TypeOK, StreamIntact, Joined
<1> QED BY <1>1, BackbufCorrect, PTL
=============================================================================
