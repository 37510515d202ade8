------------------------- MODULE KafkaConsumerProofs -------------------------
(***************************************************************************)
(* What holds of the Kafka client for any number of topics, of concurrent  *)
(* calls, of messages, and for any sizes of the buffer and the channels;   *)
(* and, at the end, of the ring buffer it keeps for a topic, for any size: *)
(* the ring is the bounded log that the client takes it for.               *)
(***************************************************************************)
EXTENDS KafkaConsumer, RingBuffer, SequenceTheorems, TLAPS

-----------------------------------------------------------------------------
(* What the operations that the client performs on slices and channels do  *)
(* to the set of elements, and that they keep elements distinct: facts about *)
(* Append, Tail, RemoveAt and \o.                                           *)

\* The elements of a sequence over S are members of S.
LEMMA ToSetIn ==
    ASSUME NEW S, NEW s \in Seq(S)
    PROVE  ToSet(s) \subseteq S
BY DEF ToSet

\* The empty sequence has no elements, all of them distinct.
LEMMA EmptyFacts == ToSet(<< >>) = {} /\ IsInjective(<< >>)
BY DEF ToSet, IsInjective

\* Append adds one element.
LEMMA AppendFacts ==
    ASSUME NEW S, NEW s \in Seq(S), NEW e \in S
    PROVE  /\ ToSet(Append(s, e)) = ToSet(s) \cup {e}
           /\ IsInjective(s) /\ e \notin ToSet(s) => IsInjective(Append(s, e))
<1> DEFINE a == Append(s, e)
<1>1. /\ DOMAIN a = 1 .. Len(s) + 1
      /\ DOMAIN s = 1 .. Len(s)
      /\ Len(s) \in Nat
      /\ \A i \in 1 .. Len(s) : a[i] = s[i]
      /\ a[Len(s) + 1] = e
  OBVIOUS
<1> HIDE DEF a
<1>2. ToSet(a) = ToSet(s) \cup {e}
  <2>1. ASSUME NEW x \in ToSet(a) PROVE x \in ToSet(s) \cup {e}
    BY <1>1 DEF ToSet
  <2>2. ASSUME NEW x \in ToSet(s) PROVE x \in ToSet(a)
    <3>1. PICK i \in 1 .. Len(s) : x = s[i]
      BY <1>1 DEF ToSet
    <3> QED BY <1>1, <3>1 DEF ToSet
  <2>3. e \in ToSet(a)
    BY <1>1 DEF ToSet
  <2> QED BY <2>1, <2>2, <2>3
<1>3. ASSUME IsInjective(s), e \notin ToSet(s) PROVE IsInjective(a)
  BY <1>1, <1>3 DEF IsInjective, ToSet
<1> QED BY <1>2, <1>3 DEF a

\* Tail takes the head away from a sequence of distinct elements.
LEMMA TailFacts ==
    ASSUME NEW S, NEW s \in Seq(S), s # << >>
    PROVE  /\ Head(s) \in ToSet(s)
           /\ Head(s) \in S
           /\ ToSet(Tail(s)) \subseteq ToSet(s)
           /\ ToSet(s) = ToSet(Tail(s)) \cup {Head(s)}
           /\ IsInjective(s) => /\ IsInjective(Tail(s))
                                /\ ToSet(Tail(s)) = ToSet(s) \ {Head(s)}
<1> DEFINE r == Tail(s)
<1>1. /\ Len(s) \in Nat /\ Len(s) >= 1
      /\ DOMAIN s = 1 .. Len(s)
      /\ Head(s) = s[1]
      /\ DOMAIN r = 1 .. Len(s) - 1
      /\ \A i \in 1 .. Len(s) - 1 : r[i] = s[i + 1]
  OBVIOUS
<1>2. Head(s) \in ToSet(s) /\ Head(s) \in S
  BY <1>1 DEF ToSet
<1> HIDE DEF r
<1>3. ToSet(r) \subseteq ToSet(s)
  <2> SUFFICES ASSUME NEW x \in ToSet(r) PROVE x \in ToSet(s)
    OBVIOUS
  <2>1. PICK i \in 1 .. Len(s) - 1 : x = r[i]
    BY <1>1 DEF ToSet
  <2>2. i + 1 \in DOMAIN s /\ x = s[i + 1]
    BY <1>1, <2>1
  <2> QED BY <2>2 DEF ToSet
<1>4. ToSet(s) \subseteq ToSet(r) \cup {Head(s)}
  <2> SUFFICES ASSUME NEW x \in ToSet(s), x # Head(s) PROVE x \in ToSet(r)
    OBVIOUS
  <2>1. PICK i \in 1 .. Len(s) : x = s[i]
    BY <1>1 DEF ToSet
  <2>2. i - 1 \in DOMAIN r /\ x = r[i - 1]
    BY <1>1, <2>1
  <2> QED BY <2>2 DEF ToSet
<1>5. ASSUME IsInjective(s) PROVE IsInjective(r)
  <2> SUFFICES ASSUME NEW i \in DOMAIN r, NEW j \in DOMAIN r, r[i] = r[j]
               PROVE  i = j
    BY DEF IsInjective
  <2>1. i + 1 \in DOMAIN s /\ j + 1 \in DOMAIN s /\ s[i + 1] = s[j + 1]
    BY <1>1
  <2>2. i + 1 = j + 1
    BY <1>5, <2>1 DEF IsInjective
  <2> QED BY <1>1, <2>2
<1>6. ASSUME IsInjective(s) PROVE Head(s) \notin ToSet(r)
  BY <1>1, <1>6 DEF IsInjective, ToSet
<1> QED BY <1>2, <1>3, <1>4, <1>5, <1>6 DEF r

\* RemoveAt takes one element away from a sequence of distinct elements.
LEMMA RemoveFacts ==
    ASSUME NEW S, NEW s \in Seq(S), NEW i \in DOMAIN s
    PROVE  /\ RemoveAt(s, i) \in Seq(S)
           /\ IsInjective(s) => /\ IsInjective(RemoveAt(s, i))
                                /\ ToSet(RemoveAt(s, i)) = ToSet(s) \ {s[i]}
<1> DEFINE r == RemoveAt(s, i)
<1>1. Len(s) \in Nat /\ DOMAIN s = 1 .. Len(s) /\ i \in 1 .. Len(s)
  OBVIOUS
<1>2. /\ r \in Seq(S)
      /\ DOMAIN r = 1 .. Len(s) - 1
      /\ \A j \in 1 .. Len(s) - 1 : r[j] = IF j < i THEN s[j] ELSE s[j + 1]
  <2> DEFINE u == SubSeq(s, 1, i - 1)
             v == SubSeq(s, i + 1, Len(s))
  <2>1. /\ u \in Seq(S) /\ Len(u) = i - 1
        /\ \A j \in 1 .. i - 1 : u[j] = s[j]
    BY <1>1
  <2>2. /\ v \in Seq(S) /\ Len(v) = Len(s) - i
        /\ \A j \in 1 .. Len(s) - i : v[j] = s[i + j]
    BY <1>1
  <2>3. r = u \o v
    BY DEF RemoveAt
  <2> HIDE DEF u, v, r
  <2>4. /\ r \in Seq(S)
        /\ Len(r) = Len(u) + Len(v)
        /\ \A j \in 1 .. Len(u) + Len(v) : r[j] = IF j <= Len(u) THEN u[j] ELSE v[j - Len(u)]
    BY <2>1, <2>2, <2>3, ConcatProperties
  <2>5. Len(r) = Len(s) - 1 /\ DOMAIN r = 1 .. Len(s) - 1
    BY <1>1, <2>1, <2>2, <2>4
  <2>6. ASSUME NEW j \in 1 .. Len(s) - 1
        PROVE  r[j] = IF j < i THEN s[j] ELSE s[j + 1]
    <3>1. CASE j < i
      BY SMTT(30), <1>1, <2>1, <2>2, <2>4, <3>1
    <3>2. CASE ~(j < i)
      <4> DEFINE k == j - (i - 1)
      <4>1. k \in 1 .. Len(s) - i /\ i + k = j + 1 /\ k = j - Len(u)
        BY <1>1, <2>1, <3>2
      <4> HIDE DEF k
      <4>2. r[j] = v[k]
        <5>1. j \in 1 .. Len(u) + Len(v) /\ ~(j <= Len(u))
          BY <1>1, <2>1, <2>2, <3>2
        <5>2. r[j] = v[j - Len(u)]
          BY <2>4, <5>1
        <5> QED BY <4>1, <5>2
      <4>3. v[k] = s[j + 1]
        BY <2>2, <4>1
      <4> QED BY <3>2, <4>2, <4>3
    <3> QED BY <3>1, <3>2
  <2> QED BY <2>4, <2>5, <2>6
<1> HIDE DEF r
<1>3. ASSUME IsInjective(s) PROVE IsInjective(r)
  <2> SUFFICES ASSUME NEW a \in DOMAIN r, NEW b \in DOMAIN r, r[a] = r[b]
               PROVE  a = b
    BY DEF IsInjective
  <2> DEFINE x == IF a < i THEN a ELSE a + 1
             y == IF b < i THEN b ELSE b + 1
  <2>1. x \in DOMAIN s /\ y \in DOMAIN s /\ s[x] = s[y]
    BY <1>1, <1>2
  <2>2. x = y
    BY <1>3, <2>1 DEF IsInjective
  <2> QED BY <1>1, <1>2, <2>2
<1>4. ASSUME IsInjective(s) PROVE ToSet(r) = ToSet(s) \ {s[i]}
  <2>1. ASSUME NEW x \in ToSet(r) PROVE x \in ToSet(s) \ {s[i]}
    <3>1. PICK j \in 1 .. Len(s) - 1 : x = r[j]
      BY <1>2 DEF ToSet
    <3> DEFINE k == IF j < i THEN j ELSE j + 1
    <3>2. k \in DOMAIN s /\ k # i /\ x = s[k]
      BY <1>1, <1>2, <3>1
    <3> HIDE DEF k
    <3> QED BY <1>1, <1>4, <3>2 DEF ToSet, IsInjective
  <2>2. ASSUME NEW x \in ToSet(s), x # s[i] PROVE x \in ToSet(r)
    <3>1. PICK j \in 1 .. Len(s) : x = s[j]
      BY <1>1 DEF ToSet
    <3>2. CASE j < i
      BY <1>1, <1>2, <3>1, <3>2 DEF ToSet
    <3>3. CASE j > i
      <4>1. j - 1 \in DOMAIN r /\ x = r[j - 1]
        BY <1>1, <1>2, <3>1, <3>3
      <4> QED BY <4>1 DEF ToSet
    <3> QED BY <1>1, <2>2, <3>1, <3>2, <3>3
  <2> QED BY <2>1, <2>2
<1> QED BY <1>2, <1>3, <1>4 DEF r

\* Two sequences of distinct elements without a common one, put together.
LEMMA ConcatFacts ==
    ASSUME NEW S, NEW s \in Seq(S), NEW t \in Seq(S)
    PROVE  /\ s \o t \in Seq(S)
           /\ ToSet(s \o t) = ToSet(s) \cup ToSet(t)
           /\ IsInjective(s) /\ IsInjective(t) /\ ToSet(s) \cap ToSet(t) = {}
                => IsInjective(s \o t)
<1> DEFINE r == s \o t
<1>1. /\ Len(s) \in Nat /\ DOMAIN s = 1 .. Len(s)
      /\ Len(t) \in Nat /\ DOMAIN t = 1 .. Len(t)
  OBVIOUS
<1>2. /\ r \in Seq(S)
      /\ DOMAIN r = 1 .. Len(s) + Len(t)
      /\ \A j \in 1 .. Len(s) + Len(t) :
            r[j] = IF j <= Len(s) THEN s[j] ELSE t[j - Len(s)]
  BY <1>1, ConcatProperties
<1> HIDE DEF r
<1>3. ASSUME NEW j \in DOMAIN r
      PROVE  IF j <= Len(s) THEN r[j] \in ToSet(s) ELSE r[j] \in ToSet(t)
  <2>1. CASE j <= Len(s)
    BY <1>1, <1>2, <2>1 DEF ToSet
  <2>2. CASE ~(j <= Len(s))
    <3>1. j - Len(s) \in DOMAIN t /\ r[j] = t[j - Len(s)]
      BY <1>1, <1>2, <2>2
    <3> QED BY <2>2, <3>1 DEF ToSet
  <2> QED BY <2>1, <2>2
<1>4. ASSUME NEW x \in ToSet(s) PROVE x \in ToSet(r)
  <2>1. PICK j \in 1 .. Len(s) : x = s[j]
    BY <1>1 DEF ToSet
  <2> QED BY <1>1, <1>2, <2>1 DEF ToSet
<1>5. ASSUME NEW x \in ToSet(t) PROVE x \in ToSet(r)
  <2>1. PICK j \in 1 .. Len(t) : x = t[j]
    BY <1>1 DEF ToSet
  <2>2. j + Len(s) \in DOMAIN r /\ x = r[j + Len(s)]
    BY <1>1, <1>2, <2>1
  <2> QED BY <2>2 DEF ToSet
<1>6. ASSUME IsInjective(s), IsInjective(t), ToSet(s) \cap ToSet(t) = {}
      PROVE  IsInjective(r)
  <2> SUFFICES ASSUME NEW i \in DOMAIN r, NEW j \in DOMAIN r, r[i] = r[j]
               PROVE  i = j
    BY DEF IsInjective
  <2>1. CASE i <= Len(s) /\ j <= Len(s)
    BY <1>1, <1>2, <1>6, <2>1 DEF IsInjective
  <2>2. CASE i > Len(s) /\ j > Len(s)
    <3>1. i - Len(s) \in DOMAIN t /\ j - Len(s) \in DOMAIN t /\ t[i - Len(s)] = t[j - Len(s)]
      BY <1>1, <1>2, <2>2
    <3>2. i - Len(s) = j - Len(s)
      BY <1>6, <3>1 DEF IsInjective
    <3> QED BY <1>1, <1>2, <3>2
  <2>3. CASE i <= Len(s) /\ j > Len(s)
    <3>1. r[i] \in ToSet(s) /\ r[j] \in ToSet(t)
      BY <1>1, <1>2, <1>3, <2>3
    <3> QED BY <1>6, <3>1
  <2>4. CASE i > Len(s) /\ j <= Len(s)
    <3>1. r[i] \in ToSet(t) /\ r[j] \in ToSet(s)
      BY <1>1, <1>2, <1>3, <2>4
    <3> QED BY <1>6, <3>1
  <2> QED BY <1>1, <1>2, <2>1, <2>2, <2>3, <2>4
<1>7. ToSet(r) = ToSet(s) \cup ToSet(t)
  <2>1. ToSet(r) \subseteq ToSet(s) \cup ToSet(t)
    BY <1>3 DEF ToSet
  <2> QED BY <1>4, <1>5, <2>1
<1> QED BY <1>2, <1>6, <1>7 DEF r

\* An element may be put at the end before or after a concatenation, and may be
\* moved from one sequence to the other.
LEMMA ConcatAppend ==
    ASSUME NEW S, NEW s \in Seq(S), NEW t \in Seq(S), NEW e \in S
    PROVE  s \o Append(t, e) = Append(s \o t, e)
<1> DEFINE l == s \o Append(t, e)
           r == Append(s \o t, e)
<1>1. /\ s \o t \in Seq(S) /\ Append(t, e) \in Seq(S)
      /\ Len(s) \in Nat /\ Len(t) \in Nat
      /\ Len(s \o t) = Len(s) + Len(t) /\ Len(Append(t, e)) = Len(t) + 1
  OBVIOUS
<1>2. /\ l \in Seq(S) /\ r \in Seq(S)
      /\ Len(l) = Len(s) + Len(t) + 1 /\ Len(r) = Len(s) + Len(t) + 1
  BY <1>1
<1>3. \A i \in 1 .. Len(s) + Len(t) + 1 :
         l[i] = IF i <= Len(s) THEN s[i] ELSE IF i <= Len(s) + Len(t) THEN t[i - Len(s)] ELSE e
  BY <1>1
<1>4. \A i \in 1 .. Len(s) + Len(t) + 1 :
         r[i] = IF i <= Len(s) THEN s[i] ELSE IF i <= Len(s) + Len(t) THEN t[i - Len(s)] ELSE e
  BY <1>1
<1> HIDE DEF l, r
<1>5. Len(l) = Len(r) /\ \A i \in 1 .. Len(l) : l[i] = r[i]
  BY <1>1, <1>2, <1>3, <1>4
<1>6. l = r
  BY <1>2, <1>5
<1> QED BY <1>6 DEF l, r

\* Moving the head of t to the end of s leaves their concatenation as it was.
LEMMA ConcatMove ==
    ASSUME NEW S, NEW s \in Seq(S), NEW t \in Seq(S), t # << >>
    PROVE  Append(s, Head(t)) \o Tail(t) = s \o t
<1> DEFINE l == Append(s, Head(t)) \o Tail(t)
           r == s \o t
<1>1. /\ Head(t) \in S /\ Tail(t) \in Seq(S) /\ Append(s, Head(t)) \in Seq(S)
      /\ Len(s) \in Nat /\ Len(t) \in Nat /\ Len(t) > 0
      /\ Len(Tail(t)) = Len(t) - 1 /\ Len(Append(s, Head(t))) = Len(s) + 1
      /\ Head(t) = t[1] /\ \A i \in 1 .. Len(t) - 1 : Tail(t)[i] = t[i + 1]
  OBVIOUS
<1>2. /\ l \in Seq(S) /\ r \in Seq(S)
      /\ Len(l) = Len(s) + Len(t) /\ Len(r) = Len(s) + Len(t)
  BY <1>1
<1>3. \A i \in 1 .. Len(s) + Len(t) : l[i] = IF i <= Len(s) THEN s[i] ELSE t[i - Len(s)]
  BY <1>1
<1>4. \A i \in 1 .. Len(s) + Len(t) : r[i] = IF i <= Len(s) THEN s[i] ELSE t[i - Len(s)]
  BY <1>1
<1> HIDE DEF l, r
<1>5. Len(l) = Len(r) /\ \A i \in 1 .. Len(l) : l[i] = r[i]
  BY <1>1, <1>2, <1>3, <1>4
<1>6. l = r
  BY <1>2, <1>5
<1> QED BY <1>6 DEF l, r

-----------------------------------------------------------------------------
(* The ring buffer. *)

\* The last n elements of a sequence form a sequence of at most n, which are
\* its own elements and stay distinct.
LEMMA LastNFacts ==
    ASSUME NEW S, NEW s \in Seq(S), NEW n \in Nat
    PROVE  /\ LastN(s, n) \in Seq(S)
           /\ Len(LastN(s, n)) <= n
           /\ ToSet(LastN(s, n)) \subseteq ToSet(s)
           /\ IsInjective(s) => IsInjective(LastN(s, n))
<1> DEFINE k == Len(s) - n
           r == SubSeq(s, k + 1, Len(s))
<1>1. Len(s) \in Nat /\ DOMAIN s = 1 .. Len(s)
  OBVIOUS
<1>2. CASE Len(s) <= n
  BY <1>1, <1>2 DEF LastN
<1>3. CASE ~(Len(s) <= n)
  <2>1. /\ k \in Nat
        /\ r \in Seq(S)
        /\ Len(r) = n
        /\ DOMAIN r = 1 .. n
        /\ \A i \in 1 .. n : i + k \in DOMAIN s /\ r[i] = s[i + k]
    BY <1>1, <1>3
  <2>2. LastN(s, n) = r
    BY <1>3 DEF LastN
  <2> HIDE DEF r, k
  <2>3. ToSet(r) \subseteq ToSet(s)
    BY <2>1 DEF ToSet
  <2>4. ASSUME IsInjective(s) PROVE IsInjective(r)
    <3> SUFFICES ASSUME NEW i \in DOMAIN r, NEW j \in DOMAIN r, r[i] = r[j]
                 PROVE  i = j
      BY DEF IsInjective
    <3>1. i + k \in DOMAIN s /\ j + k \in DOMAIN s /\ s[i + k] = s[j + k]
      BY <2>1
    <3>2. i + k = j + k
      BY <2>4, <3>1 DEF IsInjective
    <3> QED BY <2>1, <3>2
  <2> QED BY <2>1, <2>2, <2>3, <2>4
<1> QED BY <1>2, <1>3

\* The elements of LastN(s, n) by position.
LEMMA LastNAt ==
    ASSUME NEW S, NEW s \in Seq(S), NEW n \in Nat, Len(s) > n
    PROVE  /\ LastN(s, n) \in Seq(S)
           /\ Len(LastN(s, n)) = n
           /\ \A i \in 1 .. n : LastN(s, n)[i] = s[i + (Len(s) - n)]
<1>1. Len(s) \in Nat /\ DOMAIN s = 1 .. Len(s)
  OBVIOUS
<1>2. LastN(s, n) = SubSeq(s, Len(s) - n + 1, Len(s))
  BY <1>1 DEF LastN
<1> QED BY <1>1, <1>2

\* To forget all but the last n elements before or after the next one is
\* appended comes to the same.
LEMMA LastNAppend ==
    ASSUME NEW S, NEW s \in Seq(S), NEW m \in S, NEW n \in Nat \ {0}
    PROVE  LastN(Append(LastN(s, n), m), n) = LastN(Append(s, m), n)
<1>1. Len(s) \in Nat
  OBVIOUS
<1>2. CASE Len(s) <= n
  BY <1>2 DEF LastN
<1>3. CASE ~(Len(s) <= n)
  <2> DEFINE r == LastN(s, n)
             a == Append(r, m)
             b == Append(s, m)
             k == Len(s) - n
  <2>1. /\ r \in Seq(S) /\ Len(r) = n
        /\ \A i \in 1 .. n : r[i] = s[i + k]
    BY <1>1, <1>3, LastNAt
  <2>2. k \in Nat /\ k + n = Len(s)
    BY <1>1, <1>3
  <2> HIDE DEF r, k
  <2>3. /\ a \in Seq(S) /\ Len(a) = n + 1
        /\ a[n + 1] = m /\ \A i \in 1 .. n : a[i] = r[i]
    BY <2>1
  <2>4. /\ b \in Seq(S) /\ Len(b) = k + n + 1
        /\ b[k + n + 1] = m /\ \A i \in 1 .. k + n : b[i] = s[i]
    BY <2>2
  <2> HIDE DEF a, b
  <2>5. /\ LastN(a, n) \in Seq(S) /\ Len(LastN(a, n)) = n
        /\ \A i \in 1 .. n : LastN(a, n)[i] = a[i + (Len(a) - n)]
    BY <2>3, LastNAt
  <2>6. /\ LastN(b, n) \in Seq(S) /\ Len(LastN(b, n)) = n
        /\ \A i \in 1 .. n : LastN(b, n)[i] = b[i + (Len(b) - n)]
    <3>1. Len(b) > n
      BY <2>2, <2>4
    <3> QED BY <2>4, <3>1, LastNAt
  <2>7. ASSUME NEW i \in 1 .. n PROVE LastN(a, n)[i] = LastN(b, n)[i]
    <3>1. LastN(a, n)[i] = a[i + 1]
      BY <2>3, <2>5
    <3>2. LastN(b, n)[i] = b[i + k + 1]
      <4>1. i + (Len(b) - n) = i + k + 1
        BY <2>2, <2>4
      <4> QED BY <2>6, <4>1
    <3>3. CASE i = n
      BY <2>2, <2>3, <2>4, <3>1, <3>2, <3>3
    <3>4. CASE i # n
      <4>1. i + 1 \in 1 .. n /\ i + k + 1 \in 1 .. k + n /\ i + k + 1 = (i + 1) + k
        BY <2>2, <3>4
      <4> QED BY <2>1, <2>3, <2>4, <3>1, <3>2, <4>1
    <3> QED BY <3>3, <3>4
  <2>8. LastN(a, n) = LastN(b, n)
    BY <2>5, <2>6, <2>7, SeqEqual
  <2> QED BY <2>8 DEF a, b, r
<1> QED BY <1>2, <1>3

\* What RingBuffer.Add makes of the buffered messages.
LEMMA RingFacts ==
    ASSUME NEW w \in Seq(Offset), NEW m \in Offset
    PROVE  /\ RingAdd(w, m) \in Seq(Offset)
           /\ Len(RingAdd(w, m)) <= BufferSize
           /\ ToSet(RingAdd(w, m)) \subseteq ToSet(w) \cup {m}
           /\ IsInjective(w) /\ m \notin ToSet(w) => IsInjective(RingAdd(w, m))
<1>1. BufferSize \in Nat
  BY BoundsAssumption
<1>2. Append(w, m) \in Seq(Offset)
  OBVIOUS
<1>3. /\ ToSet(Append(w, m)) = ToSet(w) \cup {m}
      /\ IsInjective(w) /\ m \notin ToSet(w) => IsInjective(Append(w, m))
  BY AppendFacts
<1> QED BY <1>1, <1>2, <1>3, LastNFacts DEF RingAdd

-----------------------------------------------------------------------------
(* Types. *)

\* Where the goroutine of readMessages is determines what it holds: a message
\* from the read to the end of the delivery, subscribers only while it
\* delivers, and at least one while it sends.
ReaderHolds ==
    \A t \in Topics :
        /\ readerPc[t] \in {"got", "deliver", "select", "blocked"} => readerMsg[t] \in Offset
        /\ readerPc[t] \in {"select", "blocked"} => readerSubs[t] # << >>
        /\ readerPc[t] \in {"top", "reading", "got", "stopped"} => readerSubs[t] = << >>

TypeInv == TypeOK /\ ReaderHolds

\* Positions in a topic.
LEMMA OffsetFacts ==
    /\ MaxOffset \in Nat
    /\ \A n \in 0 .. MaxOffset : n < MaxOffset => n + 1 \in Offset /\ n + 1 \in 0 .. MaxOffset
    /\ \A m \in Offset : m \in 0 .. MaxOffset
    /\ NoMsg \in 0 .. MaxOffset
    /\ NoMsg \notin Offset
BY BoundsAssumption DEF Offset, NoMsg

\* The initial state has the types.
LEMMA TypeInit == Init => TypeInv
<1> SUFFICES ASSUME Init PROVE TypeInv
  OBVIOUS
<1> USE OffsetFacts, BoundsAssumption DEF Init
<1>1. TypeOK
  <2>1. 0 \in 0 .. MaxOffset /\ 0 \in 0 .. MaxFaults /\ 0 <= BufferSize /\ 0 <= ChanCap
    BY DEF NoMsg
  <2>2. << >> \in Seq(Finders) /\ << >> \in Seq(Offset) /\ Len(<< >>) = 0
    OBVIOUS
  <2>3. /\ fetched \in [Topics -> 0 .. MaxOffset]
        /\ faults \in 0 .. MaxFaults
        /\ readerMsg \in [Topics -> 0 .. MaxOffset]
        /\ result \in [Finders -> 0 .. MaxOffset]
        /\ mark \in [Finders -> 0 .. MaxOffset]
    BY <2>1
  <2>4. /\ readerSubs \in [Topics -> Seq(Finders)]
        /\ bufferedMessages \in [Topics -> Seq(Offset)]
        /\ subscribers \in [Topics -> Seq(Finders)]
        /\ ch \in [Finders -> Seq(Offset)]
        /\ replay \in [Finders -> Seq(Offset)]
        /\ added \in [Topics -> Seq(Offset)]
        /\ got \in [Finders -> Seq(Offset)]
    BY <2>2
  <2>5. /\ \A t \in Topics : Len(bufferedMessages[t]) <= BufferSize
        /\ \A f \in Finders : Len(ch[f]) <= ChanCap
    BY <2>1, <2>2
  <2>6. /\ readerPc \in [Topics -> {"top", "reading", "got", "deliver", "select", "blocked", "stopped"}]
        /\ cancelled \in BOOLEAN /\ closed \in BOOLEAN /\ crashed \in BOOLEAN
        /\ subClosed \in [Finders -> BOOLEAN]
        /\ replayPc \in [Finders -> {"none", "select", "blocked", "ended"}]
        /\ finderPc \in [Finders -> {"idle", "search", "leaving", "done", "failed"}]
        /\ expired \in [Finders -> BOOLEAN]
    OBVIOUS
  <2> QED BY <2>3, <2>4, <2>5, <2>6 DEF TypeOK
<1>2. ReaderHolds
  BY DEF ReaderHolds
<1> QED BY <1>1, <1>2 DEF TypeInv

\* The steps of readMessages keep the types.
LEMMA TypeReader ==
    ASSUME TypeInv, NEW t \in Topics,
           ReadMessage(t) \/ ReadError(t) \/ ReaderStep(t)
    PROVE  TypeInv'
<1> USE OffsetFacts
<1> USE DEF TypeInv, TypeOK, ReaderHolds, broker, reader, table, lifecycle, channels,
        replayer, finder, history
<1>1. CASE ReaderTop(t)
  BY <1>1 DEF ReaderTop
<1>2. CASE ReadMessage(t)
  BY <1>2 DEF ReadMessage
<1>3. CASE ReadError(t)
  <2>1. faults' \in 0 .. MaxFaults
    BY <1>3, BoundsAssumption DEF ReadError
  <2>2. fetched' \in [Topics -> 0 .. MaxOffset]
    BY <1>3 DEF ReadError
  <2> QED BY <1>3, <2>1, <2>2 DEF ReadError
<1>4. CASE ReadCancelled(t)
  BY <1>4 DEF ReadCancelled
<1>5. CASE BufferMessage(t)
  <2>1. /\ RingAdd(bufferedMessages[t], readerMsg[t]) \in Seq(Offset)
        /\ Len(RingAdd(bufferedMessages[t], readerMsg[t])) <= BufferSize
    BY <1>5, RingFacts DEF BufferMessage
  <2>2. Append(added[t], readerMsg[t]) \in Seq(Offset)
    BY <1>5 DEF BufferMessage
  <2> QED BY <1>5, <2>1, <2>2 DEF BufferMessage
<1>6. CASE NextSubscriber(t)
  <2>1. CASE readerSubs[t] = << >>
    BY ZenonT(60), <1>6, <2>1 DEF NextSubscriber
  <2>2. CASE readerSubs[t] # << >>
    <3>1. Tail(readerSubs[t]) \in Seq(Finders)
      BY <2>2
    <3> QED BY ZenonT(60), <1>6, <2>2, <3>1 DEF NextSubscriber
  <2> QED BY <2>1, <2>2
<1>7. CASE ReaderSend(t)
  <2> DEFINE f == Head(readerSubs[t])
  <2>1. f \in Finders /\ Tail(readerSubs[t]) \in Seq(Finders) /\ readerMsg[t] \in Offset
    BY <1>7 DEF ReaderSend
  <2>2. Len(ch[f]) < ChanCap
    BY <1>7 DEF ReaderSend, HasRoom
  <2> HIDE DEF f
  <2>3. Append(ch[f], readerMsg[t]) \in Seq(Offset) /\ Len(Append(ch[f], readerMsg[t])) <= ChanCap
    BY <2>1, <2>2, BoundsAssumption
  <2>4. ch' = [ch EXCEPT ![f] = Append(@, readerMsg[t])]
    BY <1>7 DEF ReaderSend, Push, f
  <2> QED BY <1>7, <2>1, <2>3, <2>4 DEF ReaderSend, Delivered
<1>8. CASE ReaderDone(t)
  <2>1. Tail(readerSubs[t]) \in Seq(Finders)
    BY <1>8 DEF ReaderDone
  <2> QED BY <1>8, <2>1 DEF ReaderDone, Delivered
<1>9. CASE ReaderStop(t)
  <2>1. << >> \in Seq(Finders)
    OBVIOUS
  <2> QED BY <1>9, <2>1 DEF ReaderStop
<1>10. CASE ReaderBlock(t)
  BY <1>10 DEF ReaderBlock
<1>11. CASE ReaderPanic(t)
  BY <1>11 DEF ReaderPanic
<1> QED BY <1>1, <1>2, <1>3, <1>4, <1>5, <1>6, <1>7, <1>8, <1>9, <1>10, <1>11 DEF ReaderStep

\* The steps of a call and of the goroutine that replays to it keep the types.
LEMMA TypeFinder ==
    ASSUME TypeInv, NEW f \in Finders,
           \/ Subscribe(f) \/ SubscribeClosed(f) \/ Expire(f)
           \/ FinderStep(f) \/ ReplayStep(f)
    PROVE  TypeInv'
<1> USE OffsetFacts, FinderAssumption
<1> USE DEF TypeInv, TypeOK, ReaderHolds, broker, reader, table, lifecycle, channels,
        replayer, finder, history
<1>1. CASE Subscribe(f)
  <2> DEFINE t == TopicOf[f]
  <2>1. /\ t \in Topics
        /\ Append(subscribers[t], f) \in Seq(Finders)
        /\ bufferedMessages[t] \in Seq(Offset)
        /\ added[t] \in Seq(Offset)
    OBVIOUS
  <2>2. added[t] # << >> => Last(added[t]) \in 0 .. MaxOffset
    BY <2>1 DEF Last
  <2> QED BY <1>1, <2>1, <2>2 DEF Subscribe, Snapshot
<1>2. CASE SubscribeClosed(f)
  BY <1>2 DEF SubscribeClosed
<1>3. CASE Receive(f)
  <2>0. /\ ch[f] \in Seq(Offset) /\ ch[f] # << >> /\ Len(ch[f]) <= ChanCap
        /\ got[f] \in Seq(Offset)
    BY <1>3 DEF Receive
  <2>1. /\ Head(ch[f]) \in Offset
        /\ Tail(ch[f]) \in Seq(Offset)
        /\ Len(Tail(ch[f])) <= ChanCap
        /\ Append(got[f], Head(ch[f])) \in Seq(Offset)
    <3> HIDE DEF TypeInv, TypeOK
    <3> USE BoundsAssumption
    <3>1. Head(ch[f]) \in Offset
      BY <2>0
    <3>2. Tail(ch[f]) \in Seq(Offset) /\ Len(Tail(ch[f])) = Len(ch[f]) - 1
      BY <2>0
    <3>3. Len(Tail(ch[f])) <= ChanCap
      BY <2>0, <3>2
    <3>4. Append(got[f], Head(ch[f])) \in Seq(Offset)
      BY <2>0, <3>1
    <3> QED BY <3>1, <3>2, <3>3, <3>4
  <2>2. CASE Matches(f, Head(ch[f]))
    BY ZenonT(60), <1>3, <2>1, <2>2 DEF Receive
  <2>3. CASE ~Matches(f, Head(ch[f]))
    BY <1>3, <2>1, <2>3 DEF Receive
  <2> QED BY <2>2, <2>3
<1>4. CASE ReceiveClosed(f)
  BY <1>4 DEF ReceiveClosed
<1>5. CASE Expire(f)
  BY <1>5 DEF Expire
<1>6. CASE GiveUp(f)
  BY <1>6 DEF GiveUp
<1>7. CASE Unsubscribe(f)
  <2>1. ASSUME NEW t \in Topics, NEW i \in DOMAIN subscribers[t],
               subClosed' = [subClosed EXCEPT ![f] = TRUE],
               subscribers' = [subscribers EXCEPT ![t] = Cut(@, i)]
        PROVE  TypeInv'
    <3>1. Cut(subscribers[t], i) \in Seq(Finders)
      BY RemoveFacts DEF Cut
    <3> QED BY <1>7, <2>1, <3>1 DEF Unsubscribe
  <2>2. ASSUME UNCHANGED <<subClosed, subscribers>> PROVE TypeInv'
    BY <1>7, <2>2 DEF Unsubscribe
  <2> QED BY <1>7, <2>1, <2>2 DEF Unsubscribe
<1>8. CASE ReplaySend(f)
  <2>1. /\ Head(replay[f]) \in Offset
        /\ Tail(replay[f]) \in Seq(Offset)
        /\ Append(ch[f], Head(replay[f])) \in Seq(Offset)
    BY SMTT(30), <1>8 DEF ReplaySend
  <2>2. Len(Append(ch[f], Head(replay[f]))) <= ChanCap
    BY <1>8, <2>1, BoundsAssumption DEF ReplaySend, HasRoom
  <2> QED BY <1>8, <2>1, <2>2 DEF ReplaySend, Push, Rest
<1>9. CASE ReplayEnd(f)
  <2>1. << >> \in Seq(Offset)
    OBVIOUS
  <2> QED BY <1>9, <2>1 DEF ReplayEnd
<1>10. CASE ReplayBlock(f)
  BY <1>10 DEF ReplayBlock
<1>11. CASE ReplayPanic(f)
  BY <1>11 DEF ReplayPanic
<1> QED BY <1>1, <1>2, <1>3, <1>4, <1>5, <1>6, <1>7, <1>8, <1>9, <1>10, <1>11
        DEF FinderStep, ReplayStep

\* Closing keeps the types.
LEMMA TypeClose == TypeInv /\ (Cancel \/ CloseSubscribers) => TypeInv'
<1> SUFFICES ASSUME TypeInv, Cancel \/ CloseSubscribers PROVE TypeInv'
  OBVIOUS
<1> USE DEF TypeInv, TypeOK, ReaderHolds, broker, reader, table, lifecycle, channels,
        replayer, finder, history
<1>1. CASE Cancel
  BY <1>1 DEF Cancel
<1>2. CASE CloseSubscribers
  <2>1. << >> \in Seq(Finders)
    OBVIOUS
  <2>2. \A f \in Finders : (subClosed[f] \/ InTable(f)) \in BOOLEAN
    BY DEF InTable
  <2> QED BY <1>2, <2>1, <2>2 DEF CloseSubscribers
<1> QED BY <1>1, <1>2

\* Every step keeps the types.
LEMMA TypeStep == TypeInv /\ [Next \/ Terminated]_vars => TypeInv'
<1> SUFFICES ASSUME TypeInv, [Next \/ Terminated]_vars PROVE TypeInv'
  OBVIOUS
<1>1. CASE Next
  BY <1>1, TypeReader, TypeFinder, TypeClose DEF Next
<1>2. CASE UNCHANGED vars
  BY <1>2 DEF TypeInv, TypeOK, ReaderHolds, vars, broker, reader, table, lifecycle, channels,
          replayer, finder, history
<1> QED BY <1>1, <1>2 DEF Terminated

\* The variables keep their types; in particular no channel ever holds more
\* than its capacity and no buffer more than its size, whatever the constants.
THEOREM TypeCorrect == Spec => []TypeOK
<1>1. Spec => []TypeInv
  BY TypeInit, TypeStep, PTL DEF Spec
<1>2. TypeInv => TypeOK
  BY DEF TypeInv
<1> QED BY <1>1, <1>2, PTL

-----------------------------------------------------------------------------
(* The table of subscribers. *)

\* The types are an invariant, for the proofs to come.
LEMMA TypeAlways == Spec => []TypeInv
BY TypeInit, TypeStep, PTL DEF Spec

\* A call that has not been made has no closed subscriber.
IdleIsOpen == \A f \in Finders : finderPc[f] = "idle" => ~subClosed[f]

TableInv == TableIsExact /\ IdleIsOpen

CallStates == {"idle", "search", "leaving", "done", "failed"}

\* Who is in the table of which topic.
LEMMA TableEntry ==
    TypeInv /\ TableInv =>
        \A t \in Topics, f \in Finders :
            f \in ToSet(subscribers[t]) <=> TopicOf[f] = t /\ Active(f) /\ ~subClosed[f]
BY FinderAssumption DEF TableInv, TableIsExact

\* A step that changes neither the table, nor which subscribers are closed,
\* nor which calls are under way keeps the table exact.
LEMMA TableUntouched ==
    /\ TableInv
    /\ UNCHANGED <<subscribers, subClosed>>
    /\ \A f \in Finders :
          /\ Active(f)' <=> Active(f)
          /\ finderPc'[f] = "idle" => finderPc[f] = "idle"
    => TableInv'
BY DEF TableInv, TableIsExact, IdleIsOpen, Active

\* At first nobody is in the table and no call is under way.
LEMMA TableInit == Init => TableInv
<1> SUFFICES ASSUME Init PROVE TableInv
  OBVIOUS
<1>1. \A f \in Finders : ~Active(f) /\ ~subClosed[f]
  BY DEF Init, Active
<1>2. \A t \in Topics : subscribers[t] = << >>
  BY DEF Init
<1> QED BY <1>1, <1>2, EmptyFacts DEF TableInv, TableIsExact, IdleIsOpen

\* Subscribe enters a call that is not yet in the table of its topic.
LEMMA TableSubscribe ==
    ASSUME TypeInv, TableInv, NEW f \in Finders, Subscribe(f)
    PROVE  TableInv'
<1> USE DEF Active
<1> DEFINE t == TopicOf[f]
<1>1. /\ t \in Topics
      /\ finderPc[f] = "idle" /\ ~Active(f) /\ ~subClosed[f]
      /\ subscribers' = [subscribers EXCEPT ![t] = Append(@, f)]
      /\ finderPc' = [finderPc EXCEPT ![f] = "search"]
      /\ subClosed' = subClosed
  BY FinderAssumption DEF Subscribe, Active, TableInv, IdleIsOpen, channels
<1>2. subscribers \in [Topics -> Seq(Finders)] /\ finderPc \in [Finders -> CallStates]
  BY DEF TypeInv, TypeOK, CallStates
<1>3. /\ \A g \in Finders : Active(g)' <=> (Active(g) \/ g = f)
      /\ IdleIsOpen'
  BY <1>1, <1>2 DEF Active, TableInv, IdleIsOpen
<1>4. f \notin ToSet(subscribers[t])
  BY <1>1, TableEntry
<1>5. /\ IsInjective(subscribers'[t])
      /\ ToSet(subscribers'[t]) = ToSet(subscribers[t]) \cup {f}
  BY <1>1, <1>2, <1>4, AppendFacts DEF TableInv, TableIsExact
<1> HIDE DEF t
<1>6. ASSUME NEW u \in Topics
      PROVE  /\ IsInjective(subscribers'[u])
             /\ ToSet(subscribers'[u]) =
                  {g \in Finders : TopicOf[g] = u /\ Active(g)' /\ ~subClosed'[g]}
  <2>1. /\ IsInjective(subscribers[u])
        /\ ToSet(subscribers[u]) =
             {g \in Finders : TopicOf[g] = u /\ Active(g) /\ ~subClosed[g]}
    BY DEF TableInv, TableIsExact
  <2>2. CASE u = t
    BY <1>1, <1>3, <1>5, <2>1, <2>2 DEF t
  <2>3. CASE u # t
    <3>1. subscribers'[u] = subscribers[u] /\ TopicOf[f] # u
      BY <1>1, <1>2, <2>3 DEF t
    <3> QED BY <1>1, <1>3, <2>1, <3>1
  <2> QED BY <2>2, <2>3
<1> QED BY <1>3, <1>6 DEF TableInv, TableIsExact

\* Unsubscribe finds the channel of its own call, in the table of its topic,
\* or finds nothing because close has emptied the table.
LEMMA TableUnsubscribe ==
    ASSUME TypeInv, TableInv, NEW f \in Finders, Unsubscribe(f)
    PROVE  TableInv'
<1> USE DEF Active
<1>1. /\ finderPc[f] = "leaving" /\ Active(f)
      /\ finderPc' = [finderPc EXCEPT ![f] = "done"]
  BY DEF Unsubscribe, Active
<1>2. /\ subscribers \in [Topics -> Seq(Finders)]
      /\ finderPc \in [Finders -> CallStates]
      /\ subClosed \in [Finders -> BOOLEAN]
  BY DEF TypeInv, TypeOK, CallStates
<1>3. \A g \in Finders :
         /\ Active(g)' <=> (Active(g) /\ g # f)
         /\ finderPc'[g] = "idle" => finderPc[g] = "idle" /\ g # f
  BY <1>1, <1>2 DEF Active
<1>4. ASSUME NEW t \in Topics, NEW i \in DOMAIN subscribers[t],
             subscribers[t][i] = f,
             subClosed' = [subClosed EXCEPT ![f] = TRUE],
             subscribers' = [subscribers EXCEPT ![t] = Cut(@, i)]
      PROVE  TableInv'
  <2>1. f \in ToSet(subscribers[t])
    BY <1>4 DEF ToSet
  <2>2. TopicOf[f] = t
    BY <2>1, TableEntry
  <2>3. /\ subClosed'[f]
        /\ \A g \in Finders : g # f => subClosed'[g] = subClosed[g]
    BY <1>2, <1>4
  <2>4. /\ IsInjective(subscribers'[t])
        /\ ToSet(subscribers'[t]) = ToSet(subscribers[t]) \ {f}
    BY <1>2, <1>4, RemoveFacts DEF Cut, TableInv, TableIsExact
  <2>5. ASSUME NEW u \in Topics
        PROVE  /\ IsInjective(subscribers'[u])
               /\ ToSet(subscribers'[u]) =
                    {g \in Finders : TopicOf[g] = u /\ Active(g)' /\ ~subClosed'[g]}
    <3>1. /\ IsInjective(subscribers[u])
          /\ ToSet(subscribers[u]) =
               {g \in Finders : TopicOf[g] = u /\ Active(g) /\ ~subClosed[g]}
      BY DEF TableInv, TableIsExact
    <3>2. CASE u = t
      BY <1>3, <2>3, <2>4, <3>1, <3>2
    <3>3. CASE u # t
      <4>1. subscribers'[u] = subscribers[u]
        BY <1>2, <1>4, <3>3
      <4> QED BY <1>3, <2>2, <2>3, <3>1, <3>3, <4>1
    <3> QED BY <3>2, <3>3
  <2>6. IdleIsOpen'
    BY <1>3, <2>3 DEF TableInv, IdleIsOpen
  <2> QED BY <2>5, <2>6 DEF TableInv, TableIsExact
<1>5. ASSUME ~InTable(f), UNCHANGED <<subClosed, subscribers>>
      PROVE  TableInv'
  <2>1. subClosed[f]
    BY <1>1, <1>5, TableEntry, FinderAssumption DEF InTable
  <2>2. ASSUME NEW u \in Topics
        PROVE  /\ IsInjective(subscribers'[u])
               /\ ToSet(subscribers'[u]) =
                    {g \in Finders : TopicOf[g] = u /\ Active(g)' /\ ~subClosed'[g]}
    BY <1>3, <1>5, <2>1 DEF TableInv, TableIsExact
  <2>3. IdleIsOpen'
    BY <1>3, <1>5 DEF TableInv, IdleIsOpen
  <2> QED BY <2>2, <2>3 DEF TableInv, TableIsExact
<1> QED BY <1>4, <1>5 DEF Unsubscribe

\* close shuts every subscriber it finds and empties the table.
LEMMA TableClose ==
    ASSUME TypeInv, TableInv, CloseSubscribers
    PROVE  TableInv'
<1> USE DEF Active
<1>1. /\ \A t \in Topics : subscribers'[t] = << >>
      /\ \A f \in Finders : subClosed'[f] = (subClosed[f] \/ InTable(f))
      /\ finderPc' = finderPc
  BY DEF CloseSubscribers, finder
<1>2. \A f \in Finders : Active(f)' <=> Active(f)
  BY <1>1 DEF Active
<1>3. \A f \in Finders : Active(f) => subClosed'[f]
  BY <1>1, TableEntry, FinderAssumption DEF InTable
<1>4. \A f \in Finders : finderPc[f] = "idle" => ~subClosed'[f]
  <2> SUFFICES ASSUME NEW f \in Finders, finderPc[f] = "idle" PROVE ~subClosed'[f]
    OBVIOUS
  <2>1. ~Active(f) /\ ~subClosed[f]
    BY DEF Active, TableInv, IdleIsOpen
  <2>2. ~InTable(f)
    BY <2>1, TableEntry DEF InTable
  <2> QED BY <1>1, <2>1, <2>2
<1>5. TableIsExact'
  <2> SUFFICES ASSUME NEW t \in Topics
               PROVE  /\ IsInjective(subscribers'[t])
                      /\ ToSet(subscribers'[t]) =
                           {f \in Finders : TopicOf[f] = t /\ Active(f)' /\ ~subClosed'[f]}
    BY DEF TableIsExact
  <2> QED BY <1>1, <1>2, <1>3, EmptyFacts
<1>6. IdleIsOpen'
  BY <1>1, <1>4 DEF IdleIsOpen
<1> QED BY <1>5, <1>6 DEF TableInv

\* Every step keeps the table exact.
LEMMA TableStep == TypeInv /\ TableInv /\ [Next \/ Terminated]_vars => TableInv'
<1> SUFFICES ASSUME TypeInv, TableInv, [Next \/ Terminated]_vars PROVE TableInv'
  OBVIOUS
<1> USE DEF broker, reader, table, lifecycle, channels, replayer, finder, history
<1>1. ASSUME NEW t \in Topics, ReadMessage(t) \/ ReadError(t) \/ ReaderStep(t)
      PROVE  TableInv'
  <2>1. UNCHANGED <<subscribers, subClosed, finderPc>>
    BY <1>1 DEF ReadMessage, ReadError, ReaderStep, ReaderTop, ReadCancelled, BufferMessage,
            NextSubscriber, ReaderSend, ReaderDone, ReaderStop, ReaderBlock, ReaderPanic
  <2> QED BY <2>1, TableUntouched DEF Active
<1>2. ASSUME NEW f \in Finders, ReplayStep(f) \/ Expire(f)
      PROVE  TableInv'
  <2>1. UNCHANGED <<subscribers, subClosed, finderPc>>
    BY <1>2 DEF ReplayStep, ReplaySend, ReplayEnd, ReplayBlock, ReplayPanic, Expire
  <2> QED BY <2>1, TableUntouched DEF Active
<1>3. ASSUME NEW f \in Finders, Receive(f) \/ ReceiveClosed(f) \/ GiveUp(f) \/ SubscribeClosed(f)
      PROVE  TableInv'
  <2>1. UNCHANGED <<subscribers, subClosed>>
    BY <1>3 DEF Receive, ReceiveClosed, GiveUp, SubscribeClosed
  <2>2. finderPc \in [Finders -> CallStates]
    BY DEF TypeInv, TypeOK, CallStates
  <2>3. \/ UNCHANGED finderPc
        \/ finderPc[f] = "search" /\ finderPc' = [finderPc EXCEPT ![f] = "leaving"]
        \/ finderPc[f] = "idle" /\ finderPc' = [finderPc EXCEPT ![f] = "failed"]
    BY <1>3 DEF Receive, ReceiveClosed, GiveUp, SubscribeClosed
  <2>4. \A g \in Finders :
           /\ Active(g)' <=> Active(g)
           /\ finderPc'[g] = "idle" => finderPc[g] = "idle"
    BY <2>2, <2>3 DEF Active
  <2> QED BY <2>1, <2>4, TableUntouched
<1>4. ASSUME Cancel PROVE TableInv'
  <2>1. UNCHANGED <<subscribers, subClosed, finderPc>>
    BY <1>4 DEF Cancel
  <2> QED BY <2>1, TableUntouched DEF Active
<1>5. ASSUME UNCHANGED vars PROVE TableInv'
  <2>1. UNCHANGED <<subscribers, subClosed, finderPc>>
    BY <1>5 DEF vars
  <2> QED BY <2>1, TableUntouched DEF Active
<1> QED BY <1>1, <1>2, <1>3, <1>4, <1>5, TableSubscribe, TableUnsubscribe, TableClose
        DEF Next, FinderStep, Terminated

\* The table is exact in every reachable state.
LEMMA TableAlways == Spec => [](TypeInv /\ TableInv)
<1>1. TypeInv /\ TableInv /\ [Next \/ Terminated]_vars => (TypeInv /\ TableInv)'
  BY TypeStep, TableStep
<1> QED BY TypeInit, TableInit, <1>1, PTL DEF Spec

\* For any number of calls on any topics, the table holds exactly the open
\* subscriptions of the calls under way: no interleaving of Subscribe,
\* Unsubscribe and close leaks an entry or removes another call's.
THEOREM TableAlwaysExact == Spec => []TableIsExact
<1>1. TypeInv /\ TableInv => TableIsExact
  BY DEF TableInv
<1> QED BY TableAlways, <1>1, PTL

-----------------------------------------------------------------------------
(* What is on its way to a call. *)

\* The log of a topic: messages enter it once, in the order of the topic, and
\* the ring buffer holds the last of them.
LogInv ==
    \A t \in Topics :
        /\ IsInjective(added[t])
        /\ \A m \in ToSet(added[t]) : m <= fetched[t]
        /\ readerPc[t] = "got" => readerMsg[t] = fetched[t] /\ readerMsg[t] \notin ToSet(added[t])
        /\ bufferedMessages[t] = LastN(added[t], BufferSize)

\* The copy of the subscribers that a reader works through.
CopyInv ==
    \A t \in Topics :
        /\ IsInjective(readerSubs[t])
        /\ \A f \in ToSet(readerSubs[t]) : TopicOf[f] = t /\ finderPc[f] # "idle"

\* What f has taken, what is in its channel, what is still replayed and what
\* the reader is about to send are different messages of the log.
Way(f) ==
    /\ IsInjective(got[f]) /\ IsInjective(ch[f]) /\ IsInjective(replay[f])
    /\ ToSet(got[f]) \cap ToSet(ch[f]) = {}
    /\ ToSet(got[f]) \cap ToSet(replay[f]) = {}
    /\ ToSet(ch[f]) \cap ToSet(replay[f]) = {}
    /\ ToSet(got[f]) \subseteq ToSet(added[TopicOf[f]])
    /\ ToSet(ch[f]) \subseteq ToSet(added[TopicOf[f]])
    /\ ToSet(replay[f]) \subseteq ToSet(added[TopicOf[f]])
    /\ f \in ToSet(readerSubs[TopicOf[f]]) =>
          /\ readerMsg[TopicOf[f]] \in ToSet(added[TopicOf[f]])
          /\ readerMsg[TopicOf[f]] \notin ToSet(got[f])
          /\ readerMsg[TopicOf[f]] \notin ToSet(ch[f])
          /\ readerMsg[TopicOf[f]] \notin ToSet(replay[f])
    /\ finderPc[f] = "idle" => got[f] = << >> /\ ch[f] = << >> /\ replay[f] = << >>

WayInv == \A f \in Finders : Way(f)

DeliveryInv == LogInv /\ CopyInv /\ WayInv

\* At first the logs are empty and nothing is on its way.
LEMMA DeliveryInit == Init => DeliveryInv
<1> SUFFICES ASSUME Init PROVE DeliveryInv
  OBVIOUS
<1>1. LogInv
  <2>1. Len(<< >>) <= BufferSize
    BY BoundsAssumption
  <2> QED BY <2>1, EmptyFacts DEF Init, LogInv, LastN
<1>2. CopyInv
  BY EmptyFacts DEF Init, CopyInv
<1>3. WayInv
  BY EmptyFacts, FinderAssumption DEF Init, WayInv, Way
<1> QED BY <1>1, <1>2, <1>3 DEF DeliveryInv

\* Steps that put nothing on its way to f: a replay may be given up and the
\* reader may drop f from its copy, the rest stays.
LEMMA WayShrinks ==
    ASSUME NEW f \in Finders
    PROVE  /\ Way(f)
           /\ got'[f] = got[f] /\ ch'[f] = ch[f]
           /\ replay'[f] = replay[f] \/ replay'[f] = << >>
           /\ added'[TopicOf[f]] = added[TopicOf[f]]
           /\ f \in ToSet(readerSubs'[TopicOf[f]]) =>
                 /\ f \in ToSet(readerSubs[TopicOf[f]])
                 /\ readerMsg'[TopicOf[f]] = readerMsg[TopicOf[f]]
           /\ finderPc'[f] = "idle" => finderPc[f] = "idle"
           => Way(f)'
BY EmptyFacts DEF Way

\* The log: ReadMessage brings a new message, BufferMessage enters it.
LEMMA LogStep == TypeInv /\ LogInv /\ [Next \/ Terminated]_vars => LogInv'
<1> SUFFICES ASSUME TypeInv, LogInv, [Next \/ Terminated]_vars PROVE LogInv'
  OBVIOUS
<1> USE DEF broker, reader, table, lifecycle, channels, replayer, finder, history
<1>1. /\ fetched \in [Topics -> 0 .. MaxOffset]
      /\ readerMsg \in [Topics -> 0 .. MaxOffset]
      /\ added \in [Topics -> Seq(Offset)]
      /\ bufferedMessages \in [Topics -> Seq(Offset)]
      /\ DOMAIN readerPc = Topics
      /\ \A t \in Topics : readerPc[t] = "got" => readerMsg[t] \in Offset
  BY DEF TypeInv, TypeOK, ReaderHolds
<1>2. \A t \in Topics : \A m \in ToSet(added[t]) : m \in 0 .. MaxOffset
  BY <1>1, ToSetIn, OffsetFacts
<1>3. ASSUME UNCHANGED <<fetched, readerMsg, added, bufferedMessages>>,
             \A t \in Topics : readerPc'[t] = "got" => readerPc[t] = "got"
      PROVE  LogInv'
  BY <1>3 DEF LogInv
<1>4. ASSUME NEW t \in Topics, ReadMessage(t) PROVE LogInv'
  <2>1. /\ fetched' = [fetched EXCEPT ![t] = @ + 1]
        /\ readerMsg' = [readerMsg EXCEPT ![t] = fetched[t] + 1]
        /\ readerPc' = [readerPc EXCEPT ![t] = "got"]
        /\ UNCHANGED <<added, bufferedMessages>>
    BY <1>4 DEF ReadMessage
  <2>2. \A m \in ToSet(added[t]) : m <= fetched[t] + 1 /\ m # fetched[t] + 1
    BY <1>1, <1>2 DEF LogInv
  <2> QED BY <1>1, <2>1, <2>2 DEF LogInv
<1>5. ASSUME NEW t \in Topics, ReadError(t) PROVE LogInv'
  <2>1. /\ \/ UNCHANGED fetched
           \/ fetched' = [fetched EXCEPT ![t] = @ + 1]
        /\ readerPc[t] = "reading"
        /\ readerPc' = [readerPc EXCEPT ![t] = "top"]
        /\ UNCHANGED <<readerMsg, added, bufferedMessages>>
    BY <1>5 DEF ReadError
  <2>2. \A m \in ToSet(added[t]) : m <= fetched'[t]
    BY <1>1, <1>2, <2>1 DEF LogInv
  <2> QED BY <1>1, <2>1, <2>2 DEF LogInv
<1>6. ASSUME NEW t \in Topics, BufferMessage(t) PROVE LogInv'
  <2> DEFINE m == readerMsg[t]
  <2>1. /\ readerPc[t] = "got" /\ m \in Offset
        /\ m = fetched[t] /\ m \notin ToSet(added[t])
        /\ added' = [added EXCEPT ![t] = Append(@, m)]
        /\ bufferedMessages' = [bufferedMessages EXCEPT ![t] = RingAdd(@, m)]
        /\ readerPc' = [readerPc EXCEPT ![t] = "deliver"]
        /\ UNCHANGED <<fetched, readerMsg>>
    BY <1>1, <1>6 DEF BufferMessage, LogInv
  <2> HIDE DEF m
  <2>2. /\ ToSet(Append(added[t], m)) = ToSet(added[t]) \cup {m}
        /\ IsInjective(Append(added[t], m))
    BY <1>1, <2>1, AppendFacts DEF LogInv
  <2>3. RingAdd(bufferedMessages[t], m) = LastN(Append(added[t], m), BufferSize)
    BY <1>1, <2>1, LastNAppend, BoundsAssumption DEF LogInv, RingAdd
  <2>4. m <= fetched[t]
    BY <1>1, <2>1
  <2> QED BY <1>1, <2>1, <2>2, <2>3, <2>4 DEF LogInv
<1>7. ASSUME NEW t \in Topics,
             \/ ReaderTop(t) \/ ReadCancelled(t) \/ ReaderDone(t) \/ ReaderSend(t)
             \/ ReaderBlock(t) \/ ReaderPanic(t)
      PROVE  LogInv'
  <2>1. UNCHANGED <<fetched, readerMsg, added, bufferedMessages>>
    BY <1>7 DEF ReaderTop, ReadCancelled, ReaderDone, ReaderSend, Delivered, ReaderBlock, ReaderPanic
  <2>2. \/ UNCHANGED readerPc
        \/ \E p \in {"top", "stopped", "reading", "deliver", "blocked"} :
              readerPc' = [readerPc EXCEPT ![t] = p]
    BY <1>7 DEF ReaderTop, ReadCancelled, ReaderDone, ReaderSend, Delivered, ReaderBlock, ReaderPanic
  <2> QED BY <1>1, <1>3, <2>1, <2>2
<1>8. ASSUME NEW t \in Topics, NextSubscriber(t) \/ ReaderStop(t) PROVE LogInv'
  <2>1. /\ UNCHANGED <<fetched, added, bufferedMessages>>
        /\ readerMsg' = readerMsg \/ readerMsg' = [readerMsg EXCEPT ![t] = NoMsg]
    BY <1>8 DEF NextSubscriber, ReaderStop
  <2>2. \A u \in Topics : readerPc'[u] = "got" => readerPc[u] = "got" /\ u # t
    BY <1>1, <1>8 DEF NextSubscriber, ReaderStop
  <2> QED BY <1>1, <2>1, <2>2 DEF LogInv
<1>9. ASSUME NEW f \in Finders,
             \/ Subscribe(f) \/ SubscribeClosed(f) \/ Expire(f) \/ FinderStep(f) \/ ReplayStep(f)
      PROVE  LogInv'
  <2>1. UNCHANGED <<fetched, readerMsg, readerPc, added, bufferedMessages>>
    BY <1>9 DEF Subscribe, SubscribeClosed, Expire, FinderStep, Receive, ReceiveClosed, GiveUp,
            Unsubscribe, ReplayStep, ReplaySend, ReplayEnd, ReplayBlock, ReplayPanic
  <2> QED BY <1>3, <2>1
<1>10. ASSUME Cancel \/ CloseSubscribers \/ UNCHANGED vars PROVE LogInv'
  <2>1. UNCHANGED <<fetched, readerMsg, readerPc, added, bufferedMessages>>
    BY <1>10 DEF Cancel, CloseSubscribers, vars
  <2> QED BY <1>3, <2>1
<1> QED BY <1>4, <1>5, <1>6, <1>7, <1>8, <1>9, <1>10 DEF Next, ReaderStep, Terminated

\* The copy: it starts as the table of the topic and only ever shrinks, and no
\* call in it can become one that was not made.
LEMMA CopyStep == TypeInv /\ TableInv /\ CopyInv /\ [Next \/ Terminated]_vars => CopyInv'
<1> SUFFICES ASSUME TypeInv, TableInv, CopyInv, [Next \/ Terminated]_vars PROVE CopyInv'
  OBVIOUS
<1> USE DEF broker, reader, table, lifecycle, channels, replayer, finder, history
<1>1. readerSubs \in [Topics -> Seq(Finders)] /\ finderPc \in [Finders -> CallStates]
  BY DEF TypeInv, TypeOK, CallStates
<1>2. \A t \in Topics : ToSet(readerSubs[t]) \subseteq Finders
  BY <1>1, ToSetIn
<1>3. ASSUME NEW t \in Topics, UNCHANGED finderPc,
             \/ UNCHANGED readerSubs
             \/ readerSubs' = [readerSubs EXCEPT ![t] = << >>]
             \/ readerSubs[t] # << >> /\ readerSubs' = [readerSubs EXCEPT ![t] = Tail(@)]
      PROVE  CopyInv'
  <2>1. CASE UNCHANGED readerSubs
    BY <1>3, <2>1 DEF CopyInv
  <2>2. CASE readerSubs' = [readerSubs EXCEPT ![t] = << >>]
    BY <1>1, <1>3, <2>2, EmptyFacts DEF CopyInv
  <2>3. CASE readerSubs[t] # << >> /\ readerSubs' = [readerSubs EXCEPT ![t] = Tail(@)]
    <3>1. IsInjective(Tail(readerSubs[t])) /\ ToSet(Tail(readerSubs[t])) \subseteq ToSet(readerSubs[t])
      BY <1>1, <2>3, TailFacts DEF CopyInv
    <3> QED BY <1>1, <1>3, <2>3, <3>1 DEF CopyInv
  <2> QED BY <1>3, <2>1, <2>2, <2>3
<1>4. ASSUME NEW f \in Finders, UNCHANGED readerSubs,
             \A g \in Finders : finderPc'[g] = "idle" => finderPc[g] = "idle"
      PROVE  CopyInv'
  BY <1>2, <1>4 DEF CopyInv
<1>5. ASSUME NEW t \in Topics, BufferMessage(t) PROVE CopyInv'
  <2>1. readerSubs' = [readerSubs EXCEPT ![t] = subscribers[t]] /\ UNCHANGED finderPc
    BY <1>5 DEF BufferMessage
  <2>2. IsInjective(subscribers[t])
    BY DEF TableInv, TableIsExact
  <2>3. \A f \in ToSet(subscribers[t]) : TopicOf[f] = t /\ finderPc[f] # "idle"
    BY DEF TableInv, TableIsExact, Active
  <2> QED BY <1>1, <2>1, <2>2, <2>3 DEF CopyInv
<1>6. ASSUME NEW t \in Topics,
             \/ ReadMessage(t) \/ ReadError(t) \/ ReaderTop(t) \/ ReadCancelled(t)
             \/ NextSubscriber(t) \/ ReaderSend(t) \/ ReaderDone(t) \/ ReaderStop(t)
             \/ ReaderBlock(t) \/ ReaderPanic(t)
      PROVE  CopyInv'
  <2>1. readerPc[t] \in {"select", "blocked"} => readerSubs[t] # << >>
    BY DEF TypeInv, ReaderHolds
  <2>2. UNCHANGED finderPc
    BY <1>6 DEF ReadMessage, ReadError, ReaderTop, ReadCancelled, NextSubscriber, ReaderSend,
            ReaderDone, ReaderStop, ReaderBlock, ReaderPanic
  <2>3. \/ UNCHANGED readerSubs
        \/ readerSubs' = [readerSubs EXCEPT ![t] = << >>]
        \/ readerSubs[t] # << >> /\ readerSubs' = [readerSubs EXCEPT ![t] = Tail(@)]
    BY <1>6, <2>1 DEF ReadMessage, ReadError, ReaderTop, ReadCancelled, NextSubscriber, ReaderSend,
            ReaderDone, ReaderStop, ReaderBlock, ReaderPanic, Delivered
  <2> QED BY <1>3, <2>2, <2>3
<1>7. ASSUME NEW f \in Finders,
             \/ Subscribe(f) \/ SubscribeClosed(f) \/ Expire(f) \/ FinderStep(f) \/ ReplayStep(f)
      PROVE  CopyInv'
  <2>1. /\ UNCHANGED readerSubs
        /\ \/ UNCHANGED finderPc
           \/ \E p \in {"search", "failed", "leaving", "done"} :
                 finderPc' = [finderPc EXCEPT ![f] = p]
    <3>1. CASE Receive(f)
      BY <3>1 DEF Receive
    <3>2. CASE ~Receive(f)
      BY <1>7, <3>2 DEF Subscribe, SubscribeClosed, Expire, FinderStep, ReceiveClosed, GiveUp,
            Unsubscribe, ReplayStep, ReplaySend, ReplayEnd, ReplayBlock, ReplayPanic
    <3> QED BY <3>1, <3>2
  <2> QED BY <1>1, <1>4, <2>1
<1>8. ASSUME Cancel \/ CloseSubscribers \/ UNCHANGED vars PROVE CopyInv'
  <2>1. UNCHANGED <<readerSubs, finderPc>>
    BY <1>8 DEF Cancel, CloseSubscribers, vars
  <2> QED BY <2>1 DEF CopyInv
<1> QED BY <1>5, <1>6, <1>7, <1>8 DEF Next, ReaderStep, Terminated
\* What is on its way to a call stays without duplicates when a reader moves:
\* a message that enters the log is new, and one that is sent leaves the copy.
LEMMA WayReader ==
    ASSUME TypeInv, TableInv, DeliveryInv, NEW t \in Topics,
           ReadMessage(t) \/ ReadError(t) \/ ReaderStep(t)
    PROVE  WayInv'
<1> USE DEF broker, reader, table, lifecycle, channels, replayer, finder, history
<1>1. /\ readerSubs \in [Topics -> Seq(Finders)]
      /\ readerMsg \in [Topics -> 0 .. MaxOffset]
      /\ added \in [Topics -> Seq(Offset)]
      /\ ch \in [Finders -> Seq(Offset)]
      /\ TopicOf \in [Finders -> Topics]
  BY FinderAssumption DEF TypeInv, TypeOK
<1>2. \A f \in Finders : Way(f)
  BY DEF DeliveryInv, WayInv
<1>3. ASSUME UNCHANGED <<got, ch, replay, added, finderPc>>,
             \A u \in Topics : ToSet(readerSubs'[u]) \subseteq ToSet(readerSubs[u]),
             \A u \in Topics : readerMsg'[u] = readerMsg[u] \/ ToSet(readerSubs'[u]) = {}
      PROVE  WayInv'
  <2> SUFFICES ASSUME NEW f \in Finders PROVE Way(f)'
    BY DEF WayInv
  <2>1. TopicOf[f] \in Topics
    BY <1>1
  <2> QED BY <1>2, <1>3, <2>1, WayShrinks
<1>4. CASE ReadMessage(t)
  <2>1. readerSubs[t] = << >>
    BY <1>4 DEF TypeInv, ReaderHolds, ReadMessage
  <2>2. /\ UNCHANGED <<got, ch, replay, added, finderPc, readerSubs>>
        /\ readerMsg' = [readerMsg EXCEPT ![t] = fetched[t] + 1]
    BY <1>4 DEF ReadMessage
  <2> QED BY <1>1, <1>3, <2>1, <2>2, EmptyFacts
<1>5. CASE BufferMessage(t)
  <2> DEFINE m == readerMsg[t]
  <2>1. /\ m \in Offset /\ m \notin ToSet(added[t])
        /\ added' = [added EXCEPT ![t] = Append(@, m)]
        /\ readerSubs' = [readerSubs EXCEPT ![t] = subscribers[t]]
        /\ UNCHANGED <<got, ch, replay, finderPc, readerMsg>>
    BY <1>5 DEF BufferMessage, DeliveryInv, LogInv, TypeInv, ReaderHolds
  <2>2. readerMsg'[t] = m
    BY <2>1
  <2> HIDE DEF m
  <2>3. ToSet(added'[t]) = ToSet(added[t]) \cup {m}
    BY <1>1, <2>1, AppendFacts
  <2> SUFFICES ASSUME NEW f \in Finders PROVE Way(f)'
    BY DEF WayInv
  <2>4. CASE TopicOf[f] = t
    BY <1>2, <2>1, <2>2, <2>3, <2>4 DEF Way
  <2>5. CASE TopicOf[f] # t
    BY <1>1, <1>2, <2>1, <2>5, WayShrinks
  <2> QED BY <2>4, <2>5
<1>6. CASE ReaderSend(t)
  <2> DEFINE g == Head(readerSubs[t])
             m == readerMsg[t]
  <2>1. readerSubs[t] # << >> /\ IsInjective(readerSubs[t]) /\ m \in Offset
    BY <1>6 DEF ReaderSend, TypeInv, ReaderHolds, DeliveryInv, CopyInv
  <2>2. /\ g \in Finders /\ g \in ToSet(readerSubs[t])
        /\ ToSet(Tail(readerSubs[t])) = ToSet(readerSubs[t]) \ {g}
    BY <1>1, <2>1, TailFacts
  <2>3. TopicOf[g] = t /\ finderPc[g] # "idle"
    BY <2>2 DEF DeliveryInv, CopyInv
  <2>4. /\ ch' = [ch EXCEPT ![g] = Append(@, m)]
        /\ readerSubs' = [readerSubs EXCEPT ![t] = Tail(@)]
        /\ UNCHANGED <<got, replay, added, finderPc, readerMsg>>
    BY <1>6 DEF ReaderSend, Push, Delivered
  <2>5. m \in ToSet(added[t]) /\ m \notin ToSet(got[g]) /\ m \notin ToSet(ch[g]) /\ m \notin ToSet(replay[g])
    BY <1>2, <2>2, <2>3 DEF Way
  <2> HIDE DEF g, m
  <2>6. ToSet(ch'[g]) = ToSet(ch[g]) \cup {m} /\ IsInjective(ch'[g])
    BY <1>1, <1>2, <2>1, <2>2, <2>4, <2>5, AppendFacts DEF Way
  <2> SUFFICES ASSUME NEW f \in Finders PROVE Way(f)'
    BY DEF WayInv
  <2>7. CASE f = g
    <3>1. g \notin ToSet(readerSubs'[t])
      BY <1>1, <2>2, <2>4
    <3>2. /\ Way(g) /\ TopicOf[g] = t /\ finderPc'[g] # "idle"
          /\ got'[g] = got[g] /\ replay'[g] = replay[g] /\ added' = added
      BY <1>2, <2>2, <2>3, <2>4
    <3>3. /\ ToSet(got[g]) \cap ToSet(ch'[g]) = {}
          /\ ToSet(ch'[g]) \cap ToSet(replay[g]) = {}
          /\ ToSet(ch'[g]) \subseteq ToSet(added[t])
      BY <2>5, <2>6, <3>2 DEF Way
    <3> QED BY <2>6, <2>7, <3>1, <3>2, <3>3 DEF Way
  <2>8. CASE f # g
    <3>1. f \in ToSet(readerSubs'[TopicOf[f]]) => f \in ToSet(readerSubs[TopicOf[f]])
      BY <1>1, <2>2, <2>4
    <3> QED BY <1>1, <1>2, <2>4, <2>8, <3>1, WayShrinks
  <2> QED BY <2>7, <2>8
<1>7. CASE ReadError(t) \/ ReaderTop(t) \/ ReadCancelled(t) \/ ReaderBlock(t) \/ ReaderPanic(t)
  <2>1. UNCHANGED <<got, ch, replay, added, finderPc, readerSubs, readerMsg>>
    BY <1>7 DEF ReadError, ReaderTop, ReadCancelled, ReaderBlock, ReaderPanic
  <2> QED BY <1>3, <2>1
<1>8. CASE NextSubscriber(t) \/ ReaderDone(t) \/ ReaderStop(t)
  <2>1. readerPc[t] \in {"select", "blocked"} => readerSubs[t] # << >>
    BY DEF TypeInv, ReaderHolds
  <2>2. UNCHANGED <<got, ch, replay, added, finderPc>>
    BY <1>8 DEF NextSubscriber, ReaderDone, ReaderStop
  <2>3. \/ /\ readerSubs' = [readerSubs EXCEPT ![t] = << >>]
           /\ readerMsg' = [readerMsg EXCEPT ![t] = NoMsg]
        \/ /\ readerSubs[t] = << >>
           /\ UNCHANGED readerSubs
           /\ readerMsg' = [readerMsg EXCEPT ![t] = NoMsg]
        \/ /\ readerSubs[t] # << >>
           /\ readerSubs' = [readerSubs EXCEPT ![t] = Tail(@)]
           /\ UNCHANGED readerMsg
        \/ UNCHANGED <<readerSubs, readerMsg>>
    BY <1>8, <2>1 DEF NextSubscriber, ReaderDone, ReaderStop, Delivered
  <2>4. readerSubs[t] # << >> => ToSet(Tail(readerSubs[t])) \subseteq ToSet(readerSubs[t])
    BY <1>1, TailFacts
  <2>5. \A u \in Topics : ToSet(readerSubs'[u]) \subseteq ToSet(readerSubs[u])
    BY <1>1, <2>3, <2>4, EmptyFacts
  <2>6. \A u \in Topics : readerMsg'[u] = readerMsg[u] \/ ToSet(readerSubs'[u]) = {}
    BY <1>1, <2>3, EmptyFacts
  <2> QED BY <1>3, <2>2, <2>5, <2>6
<1> QED BY <1>4, <1>5, <1>6, <1>7, <1>8 DEF ReaderStep

\* The same for the steps of a call and of its replay: the snapshot is part of
\* the log, and a call that has only just subscribed has nothing else.
LEMMA WayFinder ==
    ASSUME TypeInv, DeliveryInv, NEW f \in Finders,
           \/ Subscribe(f) \/ SubscribeClosed(f) \/ Expire(f) \/ FinderStep(f) \/ ReplayStep(f)
    PROVE  WayInv'
<1> USE DEF broker, reader, table, lifecycle, channels, replayer, finder, history
<1>1. /\ added \in [Topics -> Seq(Offset)]
      /\ got \in [Finders -> Seq(Offset)]
      /\ ch \in [Finders -> Seq(Offset)]
      /\ replay \in [Finders -> Seq(Offset)]
      /\ finderPc \in [Finders -> CallStates]
      /\ TopicOf[f] \in Topics
  BY FinderAssumption DEF TypeInv, TypeOK, CallStates
<1>2. \A g \in Finders : Way(g)
  BY DEF DeliveryInv, WayInv
<1>3. UNCHANGED <<added, readerSubs, readerMsg>>
  BY DEF Subscribe, SubscribeClosed, Expire, FinderStep, Receive, ReceiveClosed, GiveUp,
         Unsubscribe, ReplayStep, ReplaySend, ReplayEnd, ReplayBlock, ReplayPanic
<1>4. ASSUME \A g \in Finders : g # f => /\ got'[g] = got[g] /\ ch'[g] = ch[g]
                                         /\ replay'[g] = replay[g] /\ finderPc'[g] = finderPc[g],
             Way(f)'
      PROVE  WayInv'
  <2> SUFFICES ASSUME NEW g \in Finders, g # f PROVE Way(g)'
    BY <1>4 DEF WayInv
  <2> QED BY <1>2, <1>3, <1>4, WayShrinks
<1>5. CASE Subscribe(f)
  <2> DEFINE t == TopicOf[f]
  <2>1. /\ finderPc[f] = "idle"
        /\ replay' = [replay EXCEPT ![f] = bufferedMessages[t]]
        /\ finderPc' = [finderPc EXCEPT ![f] = "search"]
        /\ UNCHANGED <<got, ch>>
    BY <1>5 DEF Subscribe, Snapshot
  <2>2. f \notin ToSet(readerSubs[t])
    BY <1>1, <2>1 DEF DeliveryInv, CopyInv
  <2>3. IsInjective(bufferedMessages[t]) /\ ToSet(bufferedMessages[t]) \subseteq ToSet(added[t])
    <3>1. bufferedMessages[t] = LastN(added[t], BufferSize) /\ IsInjective(added[t])
      BY <1>1 DEF DeliveryInv, LogInv
    <3>2. added[t] \in Seq(Offset) /\ BufferSize \in Nat
      BY <1>1, BoundsAssumption
    <3> HIDE DEF t
    <3> QED BY <3>1, <3>2, LastNFacts
  <2>4. got[f] = << >> /\ ch[f] = << >>
    BY <1>2, <2>1 DEF Way
  <2> HIDE DEF t
  <2>5. Way(f)'
    <3>1. replay'[f] = bufferedMessages[t] /\ finderPc'[f] = "search"
      BY <1>1, <2>1
    <3> QED BY <1>2, <1>3, <2>1, <2>2, <2>3, <2>4, <3>1, EmptyFacts DEF Way, t
  <2> QED BY <1>1, <1>4, <2>1, <2>5
<1>6. CASE Receive(f)
  <2> DEFINE m == Head(ch[f])
  <2>1. /\ ch[f] # << >>
        /\ ch' = [ch EXCEPT ![f] = Tail(@)]
        /\ got' = [got EXCEPT ![f] = Append(@, m)]
        /\ UNCHANGED replay
        /\ finderPc[f] = "search"
        /\ \/ UNCHANGED finderPc
           \/ finderPc' = [finderPc EXCEPT ![f] = "leaving"]
    BY <1>6 DEF Receive
  <2>2. /\ m \in Offset /\ m \in ToSet(ch[f])
        /\ IsInjective(Tail(ch[f])) /\ ToSet(Tail(ch[f])) = ToSet(ch[f]) \ {m}
    BY <1>1, <1>2, <2>1, TailFacts DEF Way
  <2> HIDE DEF m
  <2>3. ToSet(Append(got[f], m)) = ToSet(got[f]) \cup {m} /\ IsInjective(Append(got[f], m))
    BY <1>1, <1>2, <2>2, AppendFacts DEF Way
  <2>4. got'[f] = Append(got[f], m) /\ ch'[f] = Tail(ch[f]) /\ finderPc'[f] # "idle"
    BY <1>1, <2>1
  <2>5. Way(f)'
    <3>1. Way(f) /\ replay'[f] = replay[f]
      BY <1>2, <2>1
    <3> QED BY <1>3, <2>2, <2>3, <2>4, <3>1 DEF Way
  <2> QED BY <1>1, <1>4, <2>1, <2>5
<1>7. CASE ReplaySend(f)
  <2> DEFINE m == Head(replay[f])
  <2>1. /\ replay[f] # << >>
        /\ ch' = [ch EXCEPT ![f] = Append(@, m)]
        /\ replay' = [replay EXCEPT ![f] = Tail(@)]
        /\ UNCHANGED <<got, finderPc>>
    BY <1>7 DEF ReplaySend, Push, Rest
  <2>2. /\ m \in Offset /\ m \in ToSet(replay[f])
        /\ IsInjective(Tail(replay[f])) /\ ToSet(Tail(replay[f])) = ToSet(replay[f]) \ {m}
    BY <1>1, <1>2, <2>1, TailFacts DEF Way
  <2> HIDE DEF m
  <2>3. ToSet(Append(ch[f], m)) = ToSet(ch[f]) \cup {m} /\ IsInjective(Append(ch[f], m))
    BY <1>1, <1>2, <2>2, AppendFacts DEF Way
  <2>4. ch'[f] = Append(ch[f], m) /\ replay'[f] = Tail(replay[f])
    BY <1>1, <2>1
  <2>5. finderPc[f] # "idle"
    BY <1>2, <2>1 DEF Way
  <2>6. Way(f)'
    <3>1. Way(f) /\ got'[f] = got[f] /\ finderPc'[f] = finderPc[f]
      BY <1>2, <2>1
    <3> QED BY <1>3, <2>2, <2>3, <2>4, <2>5, <3>1 DEF Way
  <2> QED BY <1>1, <1>4, <2>1, <2>6
<1>8. CASE ~Subscribe(f) /\ ~Receive(f) /\ ~ReplaySend(f)
  <2>1. /\ UNCHANGED <<got, ch>>
        /\ \/ UNCHANGED replay
           \/ replay' = [replay EXCEPT ![f] = << >>]
        /\ \/ UNCHANGED finderPc
           \/ \E p \in {"failed", "leaving", "done"} : finderPc' = [finderPc EXCEPT ![f] = p]
    BY <1>8 DEF SubscribeClosed, Expire, FinderStep, ReceiveClosed, GiveUp,
            Unsubscribe, ReplayStep, ReplayEnd, ReplayBlock, ReplayPanic
  <2>2. /\ replay'[f] = replay[f] \/ replay'[f] = << >>
        /\ finderPc'[f] = "idle" => finderPc[f] = "idle"
    BY <1>1, <2>1
  <2>3. Way(f)'
    BY <1>2, <1>3, <2>1, <2>2, WayShrinks
  <2> QED BY <1>1, <1>4, <2>1, <2>3
<1> QED BY <1>5, <1>6, <1>7, <1>8

\* The invariant of the delivery holds in every reachable state.
LEMMA DeliveryAlways == Spec => [](TypeInv /\ TableInv /\ DeliveryInv)
<1>1. TypeInv /\ TableInv /\ DeliveryInv /\ [Next \/ Terminated]_vars => DeliveryInv'
  <2> SUFFICES ASSUME TypeInv, TableInv, DeliveryInv, [Next \/ Terminated]_vars PROVE WayInv'
    BY LogStep, CopyStep DEF DeliveryInv
  <2>1. CASE Cancel \/ CloseSubscribers \/ UNCHANGED vars
    <3>1. UNCHANGED <<got, ch, replay, added, finderPc, readerSubs, readerMsg>>
      BY <2>1 DEF Cancel, CloseSubscribers, vars, broker, reader, table, lifecycle, channels,
             replayer, finder, history
    <3> SUFFICES ASSUME NEW f \in Finders PROVE Way(f)'
      BY DEF WayInv
    <3> QED BY <3>1, WayShrinks DEF DeliveryInv, WayInv
  <2> QED BY <2>1, WayReader, WayFinder DEF Next, Terminated
<1> QED BY DeliveryInit, TypeInit, TableInit, TypeStep, TableStep, <1>1, PTL DEF Spec

\* For any number of topics, calls and messages and any sizes of the buffer and
\* the channels: no message reaches a call twice, neither once replayed from
\* the snapshot and once live, nor twice by the same goroutine.
THEOREM NeverTwice == Spec => []NoDuplicates
<1>1. TypeInv /\ DeliveryInv => NoDuplicates
  <2> SUFFICES ASSUME TypeInv, DeliveryInv, NEW f \in Finders PROVE IsInjective(OnTheWay(f))
    BY DEF NoDuplicates
  <2> DEFINE g == got[f] \o ch[f]
             r == g \o replay[f]
             i == InFlight(f)
  <2>1. got[f] \in Seq(Offset) /\ ch[f] \in Seq(Offset) /\ replay[f] \in Seq(Offset)
    BY DEF TypeInv, TypeOK
  <2>2. Way(f)
    BY DEF DeliveryInv, WayInv
  <2>3. g \in Seq(Offset) /\ ToSet(g) = ToSet(got[f]) \cup ToSet(ch[f]) /\ IsInjective(g)
    BY <2>1, <2>2, ConcatFacts DEF Way
  <2> HIDE DEF g
  <2>4. r \in Seq(Offset) /\ ToSet(r) = ToSet(g) \cup ToSet(replay[f]) /\ IsInjective(r)
    BY <2>1, <2>2, <2>3, ConcatFacts DEF Way
  <2> HIDE DEF r
  <2>5. i \in Seq(Offset) /\ IsInjective(i) /\ ToSet(r) \cap ToSet(i) = {}
    <3>1. CASE f \in ToSet(readerSubs[TopicOf[f]])
      <4> DEFINE m == readerMsg[TopicOf[f]]
      <4>1. m \in ToSet(added[TopicOf[f]]) /\ m \notin ToSet(r)
        BY <2>2, <2>3, <2>4, <3>1 DEF Way
      <4>2. m \in Offset
        <5>1. added[TopicOf[f]] \in Seq(Offset)
          BY FinderAssumption DEF TypeInv, TypeOK
        <5> QED BY <4>1, <5>1, ToSetIn
      <4>3. i = <<m>>
        BY <3>1 DEF InFlight
      <4> HIDE DEF m, i
      <4>4. ToSet(i) = {m} /\ IsInjective(i) /\ i \in Seq(Offset)
        BY <4>2, <4>3 DEF ToSet, IsInjective
      <4> QED BY <4>1, <4>4
    <3>2. CASE f \notin ToSet(readerSubs[TopicOf[f]])
      BY <3>2, EmptyFacts DEF InFlight
    <3> QED BY <3>1, <3>2
  <2> HIDE DEF i
  <2>6. IsInjective(r \o i)
    BY <2>4, <2>5, ConcatFacts
  <2> QED BY <2>6 DEF OnTheWay, g, r, i
<1> QED BY DeliveryAlways, <1>1, PTL

-----------------------------------------------------------------------------
(* The answer of a call. *)

\* A call that still searches has taken nothing that it wants, and its
\* subscriber is open unless the consumer was cancelled.
AnswerInv ==
    /\ AnswerHasReason
    /\ \A f \in Finders : finderPc[f] \in {"idle", "search"} =>
          /\ result[f] = NoMsg
          /\ ToSet(got[f]) \cap Wanted[f] = {}
          /\ finderPc[f] = "idle" => got[f] = << >>
          /\ finderPc[f] = "search" /\ subClosed[f] => cancelled

\* At first no call has decided.
LEMMA AnswerInit == Init => AnswerInv
BY EmptyFacts DEF Init, AnswerInv, AnswerHasReason

\* Whatever leaves a call's answer and its state alone keeps the reason.
LEMMA AnswerUntouched ==
    ASSUME AnswerInv, UNCHANGED <<finderPc, result, got>>,
           cancelled => cancelled',
           \A f \in Finders : /\ expired[f] => expired'[f]
                              /\ finderPc[f] = "search" /\ subClosed'[f] => subClosed[f] \/ cancelled'
    PROVE  AnswerInv'
BY DEF AnswerInv, AnswerHasReason

\* One call takes a step: the others are as before.
LEMMA AnswerOfOne ==
    ASSUME AnswerInv, NEW f \in Finders, UNCHANGED <<cancelled, expired>>,
           \A g \in Finders \ {f} : /\ finderPc'[g] = finderPc[g] /\ result'[g] = result[g]
                                    /\ got'[g] = got[g] /\ subClosed'[g] = subClosed[g],
           finderPc'[f] \in {"leaving", "done"} =>
               IF result'[f] = NoMsg
               THEN /\ ToSet(got'[f]) \cap Wanted[f] = {}
                    /\ expired[f] \/ cancelled
               ELSE /\ got'[f] # << >> /\ result'[f] = Last(got'[f])
                    /\ ToSet(got'[f]) \cap Wanted[f] = {result'[f]},
           finderPc'[f] # "idle",
           finderPc'[f] = "search" => /\ result'[f] = NoMsg
                                      /\ ToSet(got'[f]) \cap Wanted[f] = {}
                                      /\ subClosed'[f] => cancelled
    PROVE  AnswerInv'
BY DEF AnswerInv, AnswerHasReason

\* The message taken is the answer exactly if it is wanted.
LEMMA AnswerReceive ==
    ASSUME TypeInv, AnswerInv, NEW f \in Finders, Receive(f)
    PROVE  AnswerInv'
<1> USE DEF broker, reader, table, lifecycle, channels, replayer, finder, history
<1> DEFINE m == Head(ch[f])
<1>1. /\ got[f] \in Seq(Offset) /\ m \in Offset
      /\ finderPc[f] = "search" /\ finderPc \in [Finders -> CallStates]
      /\ result \in [Finders -> 0 .. MaxOffset] /\ DOMAIN got = Finders
  BY DEF TypeInv, TypeOK, CallStates, Receive
<1>2. /\ got' = [got EXCEPT ![f] = Append(got[f], m)]
      /\ UNCHANGED <<cancelled, expired, subClosed>>
      /\ IF m \in Wanted[f]
         THEN result' = [result EXCEPT ![f] = m] /\ finderPc' = [finderPc EXCEPT ![f] = "leaving"]
         ELSE UNCHANGED <<result, finderPc>>
  BY DEF Receive, Matches
<1> HIDE DEF m
<1>3. /\ got'[f] = Append(got[f], m) /\ got'[f] # << >> /\ Last(got'[f]) = m
      /\ ToSet(got'[f]) = ToSet(got[f]) \cup {m}
  <2>1. got'[f] = Append(got[f], m)
    BY <1>1, <1>2
  <2>2. Append(got[f], m) # << >> /\ Last(Append(got[f], m)) = m
    BY <1>1 DEF Last
  <2> QED BY <1>1, <2>1, <2>2, AppendFacts
<1>4. result[f] = NoMsg /\ ToSet(got[f]) \cap Wanted[f] = {} /\ (subClosed[f] => cancelled)
  BY <1>1 DEF AnswerInv
<1>5. m # NoMsg
  BY <1>1, OffsetFacts
<1>6. CASE m \in Wanted[f]
  BY SMTT(30), <1>1, <1>2, <1>3, <1>4, <1>5, <1>6, AnswerOfOne
<1>7. CASE m \notin Wanted[f]
  BY ZenonT(60), <1>1, <1>2, <1>3, <1>4, <1>7, AnswerOfOne
<1> QED BY <1>6, <1>7

\* Every step keeps the reasons of the answers.
LEMMA AnswerStep == TypeInv /\ TableInv /\ AnswerInv /\ [Next \/ Terminated]_vars => AnswerInv'
<1> SUFFICES ASSUME TypeInv, TableInv, AnswerInv, [Next \/ Terminated]_vars PROVE AnswerInv'
  OBVIOUS
<1> USE DEF broker, reader, table, lifecycle, channels, replayer, finder, history
<1>1. ASSUME NEW t \in Topics, ReadMessage(t) \/ ReadError(t) \/ ReaderStep(t)
      PROVE  AnswerInv'
  <2>1. UNCHANGED <<finderPc, result, got, cancelled, expired, subClosed>>
    BY <1>1 DEF ReadMessage, ReadError, ReaderStep, ReaderTop, ReadCancelled, BufferMessage,
            NextSubscriber, ReaderSend, ReaderDone, ReaderStop, ReaderBlock, ReaderPanic
  <2> QED BY <2>1, AnswerUntouched
<1>2. ASSUME NEW f \in Finders, ReplayStep(f)
      PROVE  AnswerInv'
  <2>1. UNCHANGED <<finderPc, result, got, cancelled, expired, subClosed>>
    BY <1>2 DEF ReplayStep, ReplaySend, ReplayEnd, ReplayBlock, ReplayPanic
  <2> QED BY <2>1, AnswerUntouched
<1>3. ASSUME NEW f \in Finders, Expire(f)
      PROVE  AnswerInv'
  BY <1>3, AnswerUntouched DEF Expire, TypeInv, TypeOK
<1>4. CASE Cancel
  BY <1>4, AnswerUntouched DEF Cancel
<1>5. CASE CloseSubscribers
  BY <1>5, AnswerUntouched DEF CloseSubscribers, CancelledFirst
<1>6. ASSUME NEW f \in Finders, Subscribe(f) \/ SubscribeClosed(f)
      PROVE  AnswerInv'
  <2>1. /\ UNCHANGED <<result, got, cancelled, expired, subClosed>>
        /\ finderPc[f] = "idle"
        /\ finderPc' = [finderPc EXCEPT ![f] = "search"] \/ finderPc' = [finderPc EXCEPT ![f] = "failed"]
    BY <1>6 DEF Subscribe, SubscribeClosed
  <2>2. result[f] = NoMsg /\ ToSet(got[f]) \cap Wanted[f] = {} /\ ~subClosed[f]
    BY <2>1 DEF AnswerInv, TableInv, IdleIsOpen
  <2> QED BY ZenonT(60), <2>1, <2>2, AnswerOfOne DEF TypeInv, TypeOK
<1>7. ASSUME NEW f \in Finders, ReceiveClosed(f) \/ GiveUp(f)
      PROVE  AnswerInv'
  <2>1. /\ UNCHANGED <<result, got, cancelled, expired, subClosed>>
        /\ finderPc[f] = "search"
        /\ finderPc' = [finderPc EXCEPT ![f] = "leaving"]
        /\ subClosed[f] \/ expired[f] \/ cancelled
    BY <1>7 DEF ReceiveClosed, GiveUp, TimeIsOver
  <2>2. /\ result[f] = NoMsg /\ ToSet(got[f]) \cap Wanted[f] = {}
        /\ expired[f] \/ cancelled
    BY <2>1 DEF AnswerInv
  <2> QED BY <2>1, <2>2, AnswerOfOne DEF TypeInv, TypeOK
<1>8. ASSUME NEW f \in Finders, Unsubscribe(f)
      PROVE  AnswerInv'
  <2>1. /\ UNCHANGED <<result, got, cancelled, expired>>
        /\ finderPc[f] = "leaving"
        /\ finderPc' = [finderPc EXCEPT ![f] = "done"]
        /\ subClosed' = [subClosed EXCEPT ![f] = TRUE] \/ subClosed' = subClosed
    BY <1>8 DEF Unsubscribe
  <2>2. IF result[f] = NoMsg
        THEN /\ ToSet(got[f]) \cap Wanted[f] = {}
             /\ expired[f] \/ cancelled
        ELSE /\ got[f] # << >> /\ result[f] = Last(got[f])
             /\ ToSet(got[f]) \cap Wanted[f] = {result[f]}
    BY <2>1 DEF AnswerInv, AnswerHasReason
  <2> QED BY <2>1, <2>2, AnswerOfOne DEF TypeInv, TypeOK
<1>9. CASE UNCHANGED vars
  BY <1>9, AnswerUntouched DEF vars
<1> QED BY <1>1, <1>2, <1>3, <1>4, <1>5, <1>6, <1>7, <1>8, <1>9, AnswerReceive
        DEF Next, FinderStep, Terminated

\* For any number of calls: a call answers with the first message it took that
\* it wants, or comes back empty because its time was over or the consumer was
\* cancelled; another call's Unsubscribe never ends its search.
THEOREM AnswersHaveReasons == Spec => []AnswerHasReason
<1>1. TypeInv /\ TableInv /\ AnswerInv /\ [Next \/ Terminated]_vars => (TypeInv /\ TableInv /\ AnswerInv)'
  BY TypeStep, TableStep, AnswerStep
<1>2. AnswerInv => AnswerHasReason
  BY DEF AnswerInv
<1> QED BY TypeInit, TableInit, AnswerInit, <1>1, <1>2, PTL DEF Spec

-----------------------------------------------------------------------------
(* The order of what a call is given. *)

Sorted(s) == \A i, j \in DOMAIN s : i < j => s[i] < s[j]

\* The messages of q up to k are in order, and so are those after k.
Ordered(q, k) ==
    \A i, j \in DOMAIN q : i < j /\ (q[i] > k <=> q[j] > k) => q[i] < q[j]

\* What f has taken or can take at once.
Given(f) == got[f] \o ch[f]

\* What is still replayed to f is newer than what was replayed, and what the
\* reader is about to send is newer than all that it sent.
InLine(f) ==
    /\ Ordered(Given(f), mark[f])
    /\ mark[f] = NoMsg \/ mark[f] \in ToSet(added[TopicOf[f]])
    /\ Sorted(replay[f])
    /\ \A r \in ToSet(replay[f]) :
          r <= mark[f] /\ \A m \in ToSet(Given(f)) : m <= mark[f] => m < r
    /\ f \in ToSet(readerSubs[TopicOf[f]]) =>
          /\ readerMsg[TopicOf[f]] > mark[f]
          /\ \A m \in ToSet(Given(f)) : m > mark[f] => m < readerMsg[TopicOf[f]]

OrderInv ==
    /\ \A t \in Topics : Sorted(added[t])
    /\ \A f \in Finders : InLine(f)

\* A message that is newer than those before it keeps the order.
LEMMA AppendOrdered ==
    ASSUME NEW q \in Seq(Offset), NEW k \in Nat, NEW m \in Offset,
           Ordered(q, k), \A n \in ToSet(q) : (n > k <=> m > k) => n < m
    PROVE  Ordered(Append(q, m), k)
<1> DEFINE a == Append(q, m)
<1>1. /\ Len(q) \in Nat /\ DOMAIN q = 1 .. Len(q) /\ DOMAIN a = 1 .. Len(q) + 1
      /\ a[Len(q) + 1] = m
      /\ \A i \in DOMAIN q : a[i] = q[i] /\ q[i] \in ToSet(q)
  BY DEF ToSet
<1> HIDE DEF a
<1> SUFFICES ASSUME NEW i \in DOMAIN a, NEW j \in DOMAIN a, i < j, a[i] > k <=> a[j] > k
             PROVE  a[i] < a[j]
  BY DEF Ordered, a
<1>2. i \in DOMAIN q /\ (j \in DOMAIN q \/ j = Len(q) + 1)
  BY <1>1
<1>3. CASE j \in DOMAIN q
  BY <1>1, <1>2, <1>3 DEF Ordered
<1>4. CASE j = Len(q) + 1
  BY <1>1, <1>2, <1>4
<1> QED BY <1>2, <1>3, <1>4

\* So does a message put at the end of a sorted log.
LEMMA AppendSorted ==
    ASSUME NEW s \in Seq(Offset), NEW m \in Offset, Sorted(s), \A n \in ToSet(s) : n < m
    PROVE  Sorted(Append(s, m))
<1> DEFINE a == Append(s, m)
<1>1. /\ Len(s) \in Nat /\ DOMAIN s = 1 .. Len(s) /\ DOMAIN a = 1 .. Len(s) + 1
      /\ a[Len(s) + 1] = m
      /\ \A i \in DOMAIN s : a[i] = s[i] /\ s[i] \in ToSet(s)
  BY DEF ToSet
<1> HIDE DEF a
<1> SUFFICES ASSUME NEW i \in DOMAIN a, NEW j \in DOMAIN a, i < j
             PROVE  a[i] < a[j]
  BY DEF Sorted, a
<1>2. i \in DOMAIN s /\ (j \in DOMAIN s \/ j = Len(s) + 1)
  BY <1>1
<1> QED BY <1>1, <1>2 DEF Sorted

\* The head of a sorted sequence is less than the rest, which is sorted.
LEMMA TailSorted ==
    ASSUME NEW s \in Seq(Offset), s # << >>, Sorted(s)
    PROVE  Sorted(Tail(s)) /\ \A n \in ToSet(Tail(s)) : Head(s) < n
<1> DEFINE r == Tail(s)
<1>1. /\ Len(s) \in Nat /\ DOMAIN s = 1 .. Len(s) /\ 1 \in DOMAIN s /\ Head(s) = s[1]
      /\ DOMAIN r = 1 .. Len(s) - 1
      /\ \A i \in DOMAIN r : i \in Nat /\ i > 0 /\ r[i] = s[i + 1] /\ i + 1 \in DOMAIN s
  OBVIOUS
<1> HIDE DEF r
<1>2. Sorted(r)
  BY <1>1 DEF Sorted
<1>3. \A n \in ToSet(r) : Head(s) < n
  BY <1>1 DEF Sorted, ToSet
<1> QED BY <1>2, <1>3 DEF r

\* The end of a sorted sequence is sorted, and its last element the largest.
LEMMA LastNSorted ==
    ASSUME NEW s \in Seq(Offset), NEW n \in Nat, Sorted(s)
    PROVE  /\ Sorted(LastN(s, n))
           /\ \A m \in ToSet(LastN(s, n)) : s # << >> /\ m <= Last(s)
<1> DEFINE r == LastN(s, n)
<1>1. Len(s) \in Nat /\ DOMAIN s = 1 .. Len(s) /\ ToSet(r) \subseteq ToSet(s)
  BY LastNFacts
<1>2. Sorted(r)
  <2>1. CASE Len(s) <= n
    BY <1>1, <2>1 DEF LastN
  <2>2. CASE ~(Len(s) <= n)
    <3> DEFINE k == Len(s) - n
    <3>0. r \in Seq(Offset) /\ Len(r) = n /\ \A i \in 1 .. n : r[i] = s[i + k]
      BY <1>1, <2>2, LastNAt
    <3> HIDE DEF r
    <3>1. /\ k \in Nat /\ DOMAIN r = 1 .. n
          /\ \A i \in 1 .. n : r[i] = s[i + k] /\ i + k \in DOMAIN s
      BY <1>1, <2>2, <3>0
    <3> HIDE DEF k
    <3> QED BY <3>1 DEF Sorted
  <2> QED BY <2>1, <2>2
<1>3. ASSUME NEW m \in ToSet(s) PROVE s # << >> /\ m <= Last(s)
  <2>1. PICK i \in DOMAIN s : s[i] = m
    BY <1>3 DEF ToSet
  <2>2. Len(s) \in DOMAIN s /\ s # << >> /\ Last(s) = s[Len(s)]
    BY <1>1, <2>1 DEF Last
  <2>3. s[Len(s)] \in Offset /\ s[i] \in Offset
    BY <2>2
  <2>4. s[Len(s)] \in Nat /\ s[i] \in Nat
    BY <2>3, OffsetFacts
  <2>5. i = Len(s) \/ i < Len(s)
    BY <1>1
  <2> QED BY <2>1, <2>2, <2>4, <2>5 DEF Sorted
<1> QED BY <1>1, <1>2, <1>3

\* What was given to a call when its channel gains or loses a message.
LEMMA GivenFacts ==
    ASSUME NEW a \in Seq(Offset), NEW b \in Seq(Offset)
    PROVE  /\ a \o b \in Seq(Offset)
           /\ \A e \in Offset : a \o Append(b, e) = Append(a \o b, e)
           /\ b # << >> => Append(a, Head(b)) \o Tail(b) = a \o b
<1>1. \A e \in Offset : a \o Append(b, e) = Append(a \o b, e)
  BY ConcatAppend
<1>2. b # << >> => Append(a, Head(b)) \o Tail(b) = a \o b
  BY ConcatMove
<1> QED BY <1>1, <1>2, ConcatFacts

\* At first nothing was given to anyone.
LEMMA OrderInit == Init => OrderInv
<1> SUFFICES ASSUME Init PROVE OrderInv
  OBVIOUS
<1>1. \A t \in Topics : Sorted(added[t])
  BY DEF Init, Sorted
<1>2. ASSUME NEW f \in Finders PROVE InLine(f)
  <2>1. TopicOf[f] \in Topics
    BY FinderAssumption
  <2>2. Given(f) = << >> /\ replay[f] = << >> /\ readerSubs[TopicOf[f]] = << >> /\ mark[f] = NoMsg
    BY <2>1 DEF Init, Given
  <2> QED BY <2>2, EmptyFacts DEF InLine, Ordered, Sorted
<1> QED BY <1>1, <1>2 DEF OrderInv

\* A step that brings f nothing, and at most ends its replay or leaves it out
\* of a delivery, keeps f in line.
LEMMA StaysInLine ==
    ASSUME NEW f \in Finders, InLine(f),
           Given(f)' = Given(f), mark'[f] = mark[f],
           ToSet(added[TopicOf[f]]) \subseteq ToSet(added'[TopicOf[f]]),
           replay'[f] = replay[f] \/ replay'[f] = << >>,
           f \in ToSet(readerSubs'[TopicOf[f]]) =>
                 /\ f \in ToSet(readerSubs[TopicOf[f]])
                 /\ readerMsg'[TopicOf[f]] = readerMsg[TopicOf[f]]
    PROVE  InLine(f)'
BY EmptyFacts DEF InLine, Sorted, Ordered

\* The reader sends in the order of the log what is newer than every mark set
\* before.
LEMMA OrderReader ==
    ASSUME TypeInv, TableInv, DeliveryInv, OrderInv, NEW t \in Topics,
           ReadMessage(t) \/ ReadError(t) \/ ReaderStep(t)
    PROVE  OrderInv'
<1> USE DEF broker, reader, table, lifecycle, channels, replayer, finder, history
<1>1. /\ readerSubs \in [Topics -> Seq(Finders)]
      /\ readerMsg \in [Topics -> 0 .. MaxOffset]
      /\ added \in [Topics -> Seq(Offset)]
      /\ ch \in [Finders -> Seq(Offset)] /\ got \in [Finders -> Seq(Offset)]
      /\ mark \in [Finders -> 0 .. MaxOffset]
      /\ TopicOf \in [Finders -> Topics]
  BY FinderAssumption DEF TypeInv, TypeOK
<1>2. \A f \in Finders : InLine(f) /\ Way(f)
  BY DEF DeliveryInv, WayInv, OrderInv
<1>3. ASSUME UNCHANGED <<got, ch, replay, added, mark>>,
             \A u \in Topics : ToSet(readerSubs'[u]) \subseteq ToSet(readerSubs[u]),
             \A u \in Topics : readerMsg'[u] = readerMsg[u] \/ ToSet(readerSubs'[u]) = {}
      PROVE  OrderInv'
  <2>1. ASSUME NEW f \in Finders PROVE InLine(f)'
    <3>1. TopicOf[f] \in Topics /\ Given(f)' = Given(f)
      BY <1>1, <1>3 DEF Given
    <3> QED BY <1>2, <1>3, <3>1, StaysInLine
  <2> QED BY <1>3, <2>1 DEF OrderInv, Sorted
<1>4. CASE ReadMessage(t)
  <2>1. readerSubs[t] = << >>
    BY <1>4 DEF TypeInv, ReaderHolds, ReadMessage
  <2>2. /\ UNCHANGED <<got, ch, replay, added, mark, readerSubs>>
        /\ readerMsg' = [readerMsg EXCEPT ![t] = fetched[t] + 1]
    BY <1>4 DEF ReadMessage
  <2> QED BY <1>1, <1>3, <2>1, <2>2, EmptyFacts
<1>5. CASE BufferMessage(t)
  <2> DEFINE m == readerMsg[t]
  <2>1. /\ m \in Offset /\ m \notin ToSet(added[t]) /\ m = fetched[t]
        /\ added' = [added EXCEPT ![t] = Append(@, m)]
        /\ readerSubs' = [readerSubs EXCEPT ![t] = subscribers[t]]
        /\ UNCHANGED <<got, ch, replay, mark, readerMsg>>
    BY <1>5 DEF BufferMessage, DeliveryInv, LogInv, TypeInv, ReaderHolds
  <2>2. \A n \in ToSet(added[t]) : n < m
    <3>1. \A n \in ToSet(added[t]) : n \in Offset /\ n <= m /\ n # m
      BY <1>1, <2>1, ToSetIn DEF DeliveryInv, LogInv
    <3> QED BY <2>1, <3>1 DEF Offset
  <2>3. readerMsg'[t] = m /\ readerSubs'[t] = subscribers[t] /\ added'[t] = Append(added[t], m)
    BY <1>1, <2>1
  <2> HIDE DEF m
  <2>4. ToSet(added'[t]) = ToSet(added[t]) \cup {m} /\ Sorted(added'[t])
    BY <1>1, <2>1, <2>2, <2>3, AppendFacts, AppendSorted DEF OrderInv
  <2>5. ASSUME NEW u \in Topics PROVE Sorted(added'[u])
    BY <1>1, <2>1, <2>4, <2>5 DEF OrderInv
  <2>6. ASSUME NEW f \in Finders PROVE InLine(f)'
    <3>1. Given(f)' = Given(f) /\ InLine(f) /\ Way(f) /\ TopicOf[f] \in Topics
      BY <1>1, <1>2, <2>1 DEF Given
    <3>2. CASE TopicOf[f] = t
      <4>1. ToSet(Given(f)) \subseteq ToSet(added[t])
        <5>1. ToSet(Given(f)) = ToSet(got[f]) \cup ToSet(ch[f])
          BY <1>1, ConcatFacts DEF Given
        <5> QED BY <3>1, <3>2, <5>1 DEF Way
      <4>2. m > mark[f]
        <5>1. NoMsg < m
          BY <2>1 DEF Offset, NoMsg
        <5> QED BY <2>2, <3>1, <3>2, <5>1 DEF InLine
      <4>3. mark[f] = NoMsg \/ mark[f] \in ToSet(added'[t])
        BY <2>4, <3>1, <3>2 DEF InLine
      <4>4. \A n \in ToSet(Given(f)) : n < m
        BY <2>2, <4>1
      <4>5. replay'[f] = replay[f] /\ mark'[f] = mark[f]
        BY <2>1
      <4> HIDE DEF Given
      <4> QED BY <2>3, <3>1, <3>2, <4>2, <4>3, <4>4, <4>5 DEF InLine, Sorted, Ordered
    <3>3. CASE TopicOf[f] # t
      <4>1. UNCHANGED <<mark[f], replay[f], added[TopicOf[f]], readerSubs[TopicOf[f]], readerMsg>>
        BY <1>1, <2>1, <3>1, <3>3
      <4> QED BY <3>1, <4>1, StaysInLine
    <3> QED BY <3>2, <3>3
  <2> QED BY <2>5, <2>6 DEF OrderInv, Sorted
<1>6. CASE ReaderSend(t)
  <2> DEFINE m == readerMsg[t]
  <2>1. readerSubs[t] # << >> /\ IsInjective(readerSubs[t]) /\ m \in Offset
    BY <1>6 DEF ReaderSend, TypeInv, ReaderHolds, DeliveryInv, CopyInv
  <2>2. PICK g \in Finders :
           /\ g = Head(readerSubs[t]) /\ g \in ToSet(readerSubs[t])
           /\ ToSet(Tail(readerSubs[t])) = ToSet(readerSubs[t]) \ {g}
    BY <1>1, <2>1, TailFacts
  <2>3. TopicOf[g] = t
    BY <2>2 DEF DeliveryInv, CopyInv
  <2>4. /\ ch' = [ch EXCEPT ![g] = Append(@, m)]
        /\ readerSubs' = [readerSubs EXCEPT ![t] = Tail(@)]
        /\ UNCHANGED <<got, replay, added, mark, readerMsg>>
    BY <1>6, <2>2 DEF ReaderSend, Push, Delivered
  <2>5. InLine(g) /\ m > mark[g] /\ \A n \in ToSet(Given(g)) : n > mark[g] => n < m
    BY <1>2, <2>2, <2>3 DEF InLine
  <2> HIDE DEF m
  <2>6. Given(g) \in Seq(Offset) /\ Given(g)' = Append(Given(g), m)
    <3>1. got[g] \in Seq(Offset) /\ ch[g] \in Seq(Offset) /\ got'[g] = got[g] /\ ch'[g] = Append(ch[g], m)
      BY <1>1, <2>2, <2>4
    <3>2. got[g] \o Append(ch[g], m) = Append(got[g] \o ch[g], m) /\ got[g] \o ch[g] \in Seq(Offset)
      BY <2>1, <3>1, GivenFacts
    <3> QED BY <3>1, <3>2 DEF Given
  <2>7. InLine(g)'
    <3>1. mark[g] \in Nat /\ mark'[g] = mark[g] /\ replay'[g] = replay[g] /\ added' = added
      <4>1. mark[g] \in 0 .. MaxOffset
        BY <1>1, <2>2
      <4> QED BY <2>4, <4>1, OffsetFacts
    <3>2. Ordered(Given(g)', mark[g])
      BY <2>1, <2>5, <2>6, <3>1, AppendOrdered DEF InLine
    <3>3. ToSet(Given(g)') = ToSet(Given(g)) \cup {m}
      BY <2>1, <2>6, AppendFacts
    <3>4. g \notin ToSet(readerSubs'[TopicOf[g]])
      BY <1>1, <2>2, <2>3, <2>4
    <3>5. ~(m <= mark[g])
      BY <2>1, <2>5, <3>1 DEF Offset
    <3>6. \A r \in ToSet(replay[g]) :
             r <= mark[g] /\ \A n \in ToSet(Given(g)') : n <= mark[g] => n < r
      BY <2>5, <3>3, <3>5 DEF InLine
    <3>7. Ordered(Given(g)', mark'[g]) /\ Sorted(replay'[g])
      BY <2>5, <3>1, <3>2 DEF InLine
    <3> QED BY <2>5, <3>1, <3>4, <3>6, <3>7 DEF InLine, Ordered, Sorted
  <2>8. ASSUME NEW f \in Finders, f # g PROVE InLine(f)'
    <3>1. Given(f)' = Given(f) /\ InLine(f) /\ TopicOf[f] \in Topics
      BY <1>1, <1>2, <2>4, <2>8 DEF Given
    <3>2. f \in ToSet(readerSubs'[TopicOf[f]]) => f \in ToSet(readerSubs[TopicOf[f]])
      BY <1>1, <2>2, <2>4
    <3> QED BY <2>4, <3>1, <3>2, StaysInLine
  <2> QED BY <2>4, <2>7, <2>8 DEF OrderInv, Sorted
<1>7. CASE ReadError(t) \/ ReaderTop(t) \/ ReadCancelled(t) \/ ReaderBlock(t) \/ ReaderPanic(t)
  <2>1. UNCHANGED <<got, ch, replay, added, mark, readerSubs, readerMsg>>
    BY <1>7 DEF ReadError, ReaderTop, ReadCancelled, ReaderBlock, ReaderPanic
  <2> QED BY <1>3, <2>1
<1>8. CASE NextSubscriber(t) \/ ReaderDone(t) \/ ReaderStop(t)
  <2>1. readerPc[t] \in {"select", "blocked"} => readerSubs[t] # << >>
    BY DEF TypeInv, ReaderHolds
  <2>2. UNCHANGED <<got, ch, replay, added, mark>>
    BY <1>8 DEF NextSubscriber, ReaderDone, ReaderStop
  <2>3. \/ /\ readerSubs' = [readerSubs EXCEPT ![t] = << >>]
           /\ readerMsg' = [readerMsg EXCEPT ![t] = NoMsg]
        \/ /\ readerSubs[t] = << >>
           /\ UNCHANGED readerSubs
           /\ readerMsg' = [readerMsg EXCEPT ![t] = NoMsg]
        \/ /\ readerSubs[t] # << >>
           /\ readerSubs' = [readerSubs EXCEPT ![t] = Tail(@)]
           /\ UNCHANGED readerMsg
        \/ UNCHANGED <<readerSubs, readerMsg>>
    BY <1>8, <2>1 DEF NextSubscriber, ReaderDone, ReaderStop, Delivered
  <2>4. readerSubs[t] # << >> => ToSet(Tail(readerSubs[t])) \subseteq ToSet(readerSubs[t])
    BY <1>1, TailFacts
  <2>5. \A u \in Topics : ToSet(readerSubs'[u]) \subseteq ToSet(readerSubs[u])
    BY <1>1, <2>3, <2>4, EmptyFacts
  <2>6. \A u \in Topics : readerMsg'[u] = readerMsg[u] \/ ToSet(readerSubs'[u]) = {}
    BY <1>1, <2>3, EmptyFacts
  <2> QED BY <1>3, <2>2, <2>5, <2>6
<1> QED BY <1>4, <1>5, <1>6, <1>7, <1>8 DEF ReaderStep

\* Receiving moves a message from the channel to what was taken; the snapshot
\* is the end of a sorted log, and is sent from its head on.
LEMMA OrderFinder ==
    ASSUME TypeInv, DeliveryInv, OrderInv, NEW f \in Finders,
           \/ Subscribe(f) \/ SubscribeClosed(f) \/ Expire(f) \/ FinderStep(f) \/ ReplayStep(f)
    PROVE  OrderInv'
<1> USE DEF broker, reader, table, lifecycle, channels, replayer, finder, history
<1>1. /\ added \in [Topics -> Seq(Offset)]
      /\ got \in [Finders -> Seq(Offset)]
      /\ ch \in [Finders -> Seq(Offset)]
      /\ replay \in [Finders -> Seq(Offset)]
      /\ mark \in [Finders -> 0 .. MaxOffset]
      /\ TopicOf[f] \in Topics
  BY FinderAssumption DEF TypeInv, TypeOK
<1>2. \A g \in Finders : InLine(g) /\ Way(g)
  BY DEF DeliveryInv, WayInv, OrderInv
<1>3. UNCHANGED <<added, readerSubs, readerMsg>>
  BY DEF Subscribe, SubscribeClosed, Expire, FinderStep, Receive, ReceiveClosed, GiveUp,
         Unsubscribe, ReplayStep, ReplaySend, ReplayEnd, ReplayBlock, ReplayPanic
<1>4. ASSUME \A g \in Finders : g # f => /\ got'[g] = got[g] /\ ch'[g] = ch[g]
                                         /\ replay'[g] = replay[g] /\ mark'[g] = mark[g],
             InLine(f)'
      PROVE  OrderInv'
  <2>1. ASSUME NEW g \in Finders, g # f PROVE InLine(g)'
    <3>1. Given(g)' = Given(g)
      BY <1>4, <2>1 DEF Given
    <3> QED BY <1>2, <1>3, <1>4, <2>1, <3>1, StaysInLine
  <2> QED BY <1>3, <1>4, <2>1 DEF OrderInv, Sorted
<1>5. CASE Subscribe(f)
  <2> DEFINE t == TopicOf[f]
             last == IF added[t] = << >> THEN NoMsg ELSE Last(added[t])
  <2>1. /\ finderPc[f] = "idle"
        /\ replay' = [replay EXCEPT ![f] = bufferedMessages[t]]
        /\ mark' = [mark EXCEPT ![f] = last]
        /\ UNCHANGED <<got, ch>>
    BY <1>5 DEF Subscribe, Snapshot
  <2>2. f \notin ToSet(readerSubs'[t])
    BY <1>1, <1>3, <2>1 DEF DeliveryInv, CopyInv
  <2>3. Given(f)' = << >>
    BY <1>2, <2>1 DEF Way, Given
  <2>4. /\ Sorted(bufferedMessages[t])
        /\ \A r \in ToSet(bufferedMessages[t]) : added[t] # << >> /\ r <= Last(added[t])
    <3>1. bufferedMessages[t] = LastN(added[t], BufferSize) /\ Sorted(added[t])
      BY <1>1 DEF DeliveryInv, LogInv, OrderInv
    <3>2. added[t] \in Seq(Offset) /\ BufferSize \in Nat
      BY <1>1, BoundsAssumption
    <3> HIDE DEF t
    <3> QED BY <3>1, <3>2, LastNSorted
  <2>5. last = NoMsg \/ last \in ToSet(added[t])
    <3>1. added[t] \in Seq(Offset)
      BY <1>1
    <3> HIDE DEF t
    <3> QED BY <3>1 DEF Last, ToSet
  <2>6. replay'[f] = bufferedMessages[t] /\ mark'[f] = last
    BY <1>1, <2>1
  <2>7. \A r \in ToSet(replay'[f]) : r <= mark'[f]
    BY <2>4, <2>6
  <2> HIDE DEF last
  <2>8. InLine(f)'
    <3>1. Ordered(Given(f)', mark'[f])
      BY <2>3 DEF Ordered
    <3>2. \A m \in ToSet(Given(f)') : FALSE
      BY <2>3, EmptyFacts
    <3> QED BY <1>3, <2>2, <2>4, <2>5, <2>6, <2>7, <3>1, <3>2 DEF InLine, Ordered, Sorted
  <2> QED BY <1>1, <1>4, <2>1, <2>8
<1>6. CASE Receive(f)
  <2>1. /\ ch[f] # << >>
        /\ ch' = [ch EXCEPT ![f] = Tail(@)]
        /\ got' = [got EXCEPT ![f] = Append(@, Head(ch[f]))]
        /\ UNCHANGED <<replay, mark>>
    BY <1>6 DEF Receive
  <2>2. Given(f)' = Given(f)
    <3>1. got'[f] = Append(got[f], Head(ch[f])) /\ ch'[f] = Tail(ch[f])
      BY <1>1, <2>1
    <3> QED BY <1>1, <2>1, <3>1, GivenFacts DEF Given
  <2>3. InLine(f)'
    BY <1>2, <1>3, <2>1, <2>2, StaysInLine
  <2> QED BY <1>1, <1>4, <2>1, <2>3
<1>7. CASE ReplaySend(f)
  <2>1. PICK m \in Offset : m = Head(replay[f]) /\ m \in ToSet(replay[f])
    <3>1. replay[f] # << >>
      BY <1>7 DEF ReplaySend
    <3> QED BY <1>1, <3>1, TailFacts
  <2>2. /\ replay[f] # << >>
        /\ ch' = [ch EXCEPT ![f] = Append(@, m)]
        /\ replay' = [replay EXCEPT ![f] = Tail(@)]
        /\ UNCHANGED <<got, mark>>
    BY <1>7, <2>1 DEF ReplaySend, Push, Rest
  <2>3. /\ got'[f] = got[f] /\ ch'[f] = Append(ch[f], m)
        /\ replay'[f] = Tail(replay[f]) /\ mark'[f] = mark[f] /\ mark[f] \in Nat
    <3>1. mark[f] \in 0 .. MaxOffset
      BY <1>1
    <3> QED BY <1>1, <2>2, <3>1, OffsetFacts
  <2>4. Given(f) \in Seq(Offset) /\ Given(f)' = Append(Given(f), m)
    BY SMTT(30), <1>1, <2>1, <2>3, GivenFacts DEF Given
  <2>5. InLine(f) /\ m <= mark[f] /\ \A n \in ToSet(Given(f)) : n <= mark[f] => n < m
    BY <1>2, <2>1 DEF InLine
  <2>6. /\ \A r \in ToSet(replay'[f]) : r \in ToSet(replay[f]) /\ m < r
        /\ Sorted(replay'[f])
    <3>1. replay[f] \in Seq(Offset) /\ Sorted(replay[f])
      BY <1>1, <2>5 DEF InLine
    <3> QED BY <2>1, <2>2, <2>3, <3>1, TailSorted, TailFacts
  <2>7. \A n \in ToSet(Given(f)) : n \in Nat
    BY <2>4, ToSetIn, OffsetFacts
  <2>8. ToSet(Given(f)') = ToSet(Given(f)) \cup {m}
    BY <2>1, <2>4, AppendFacts
  <2>9. m \in Nat
    BY <2>1, OffsetFacts
  <2>10. Ordered(Given(f)', mark'[f])
    <3>1. \A n \in ToSet(Given(f)) : (n > mark[f] <=> m > mark[f]) => n < m
      BY <2>3, <2>5, <2>7, <2>9
    <3> QED BY <2>1, <2>3, <2>4, <2>5, <3>1, AppendOrdered DEF InLine
  <2>11. \A r \in ToSet(replay'[f]) :
            r <= mark'[f] /\ \A n \in ToSet(Given(f)') : n <= mark'[f] => n < r
    BY <2>3, <2>5, <2>6, <2>8 DEF InLine
  <2>12. \A n \in ToSet(Given(f)') : n > mark'[f] => n \in ToSet(Given(f)) /\ n > mark[f]
    BY <2>3, <2>5, <2>8, <2>9
  <2>13. InLine(f)'
    BY <1>3, <2>3, <2>5, <2>6, <2>10, <2>11, <2>12 DEF InLine, Ordered, Sorted
  <2> QED BY <1>1, <1>4, <2>2, <2>13
<1>8. CASE ~Subscribe(f) /\ ~Receive(f) /\ ~ReplaySend(f)
  <2>1. /\ UNCHANGED <<got, ch, mark>>
        /\ \/ UNCHANGED replay
           \/ replay' = [replay EXCEPT ![f] = << >>]
    BY <1>8 DEF SubscribeClosed, Expire, FinderStep, ReceiveClosed, GiveUp,
            Unsubscribe, ReplayStep, ReplayEnd, ReplayBlock, ReplayPanic
  <2>2. Given(f)' = Given(f) /\ (replay'[f] = replay[f] \/ replay'[f] = << >>)
    BY <1>1, <2>1 DEF Given
  <2>3. InLine(f)'
    BY <1>2, <1>3, <2>1, <2>2, StaysInLine
  <2> QED BY <1>1, <1>4, <2>1, <2>3
<1> QED BY <1>5, <1>6, <1>7, <1>8

\* For any number of topics, calls and messages: a call gets the messages that
\* were buffered before it subscribed in the order of the topic, and so those
\* that came later.
THEOREM GivenInOrder == Spec => []InOrder
<1>1. TypeInv /\ TableInv /\ DeliveryInv /\ OrderInv /\ [Next \/ Terminated]_vars => OrderInv'
  <2> SUFFICES ASSUME TypeInv, TableInv, DeliveryInv, OrderInv, [Next \/ Terminated]_vars
               PROVE  OrderInv'
    OBVIOUS
  <2>1. CASE Cancel \/ CloseSubscribers \/ UNCHANGED vars
    <3>1. UNCHANGED <<got, ch, replay, added, mark, readerSubs, readerMsg>>
      BY <2>1 DEF Cancel, CloseSubscribers, vars, broker, reader, table, lifecycle, channels,
             replayer, finder, history
    <3>2. ASSUME NEW f \in Finders PROVE InLine(f)'
      <4>1. Given(f)' = Given(f)
        BY <3>1 DEF Given
      <4> QED BY <3>1, <4>1, StaysInLine DEF OrderInv
    <3> QED BY <3>1, <3>2 DEF OrderInv, Sorted
  <2> QED BY <2>1, OrderReader, OrderFinder DEF Next, Terminated
<1>2. OrderInv => InOrder
  BY DEF OrderInv, InLine, Ordered, Given, InOrder
<1>3. Spec => []OrderInv
  BY DeliveryAlways, OrderInit, <1>1, PTL DEF Spec
<1> QED BY <1>2, <1>3, PTL

-----------------------------------------------------------------------------
(***************************************************************************)
(* The Kafka client implements TopicFeed: a call is owed the last messages *)
(* of its topic and all later ones, and takes each exactly once.  Three    *)
(* steps of the client are steps of the feed: BufferMessage publishes,     *)
(* Subscribe opens a subscription and Receive takes.  Every other step     *)
(* moves what is owed from the reader or the snapshot to the channel, or   *)
(* drops what a shut subscription or a cancelled consumer is owed.         *)
(***************************************************************************)

AllInv == TypeInv /\ TableInv /\ DeliveryInv

\* What the reader still has to deliver to f, as a set.
Flight(f) == IF f \in ToSet(readerSubs[TopicOf[f]]) THEN {readerMsg[TopicOf[f]]} ELSE {}

\* What a call is owed, before and after a step.
LEMMA OwedIs ==
    ASSUME NEW f
    PROVE  /\ Owed(f) = IF Active(f) THEN ToSet(ch[f]) \cup ToSet(replay[f]) \cup Flight(f)
                                     ELSE {}
           /\ Owed(f)' = IF Active(f)' THEN ToSet(ch'[f]) \cup ToSet(replay'[f]) \cup Flight(f)'
                                       ELSE {}
<1>1. \A m : ToSet(<<m>>) = {m}
  BY DEF ToSet
<1>2. ToSet(InFlight(f)) = Flight(f)
  BY <1>1, EmptyFacts DEF InFlight, Flight
<1>3. ToSet(InFlight(f))' = Flight(f)'
  BY <1>1, EmptyFacts DEF InFlight, Flight
<1> QED BY <1>2, <1>3 DEF Owed

\* The steps that neither publish, open nor take: no subscription opens, and
\* only who has shut his subscription or waits on a cancelled consumer loses.
LEMMA ReleaseIs ==
    /\ UNCHANGED <<added, got>>
    /\ cancelled => cancelled'
    /\ \A f \in Finders : Active(f)' /\ ~subClosed'[f] => Active(f) /\ ~subClosed[f]
    /\ \A f \in Finders :
          \/ Owed(f)' = Owed(f)
          \/ /\ cancelled' \/ subClosed'[f] \/ ~Active(f)'
             /\ Owed(f)' \subseteq Owed(f)
    => Feed!Release
BY DEF Feed!Release

\* The same for steps that leave the calls, the subscribers and the snapshots
\* alone: it is enough to look at what a reader holds for a call.
LEMMA QuietRelease ==
    /\ UNCHANGED <<added, got, ch, replay, finderPc, subClosed>>
    /\ cancelled => cancelled'
    /\ \A f \in Finders : \/ Flight(f)' = Flight(f)
                          \/ (cancelled' \/ subClosed[f]) /\ Flight(f)' = {}
    => Feed!Release
<1> SUFFICES ASSUME /\ UNCHANGED <<added, got, ch, replay, finderPc, subClosed>>
                    /\ cancelled => cancelled'
                    /\ \A f \in Finders : \/ Flight(f)' = Flight(f)
                                          \/ (cancelled' \/ subClosed[f]) /\ Flight(f)' = {}
             PROVE  Feed!Release
  OBVIOUS
<1>1. \A f \in Finders : Active(f)' <=> Active(f)
  BY DEF Active
<1>2. ASSUME NEW f \in Finders
      PROVE  \/ Owed(f)' = Owed(f)
             \/ /\ cancelled' \/ subClosed'[f] \/ ~Active(f)'
                /\ Owed(f)' \subseteq Owed(f)
  BY <1>1, OwedIs
<1> QED BY <1>1, <1>2, ReleaseIs
-----------------------------------------------------------------------------

\* A reader publishes when it buffers a message; delivering it, dropping it
\* for a subscriber that has left, or stopping is a release.
LEMMA FeedReader ==
    ASSUME AllInv, NEW t \in Topics, ReadMessage(t) \/ ReadError(t) \/ ReaderStep(t)
    PROVE  Feed!Next
<1> USE DEF broker, reader, table, lifecycle, channels, replayer, finder, history
<1>1. /\ readerSubs \in [Topics -> Seq(Finders)]
      /\ readerMsg \in [Topics -> 0 .. MaxOffset]
      /\ added \in [Topics -> Seq(Offset)]
      /\ ch \in [Finders -> Seq(Offset)]
      /\ TopicOf \in [Finders -> Topics]
  BY FinderAssumption DEF AllInv, TypeInv, TypeOK
<1>2. /\ readerPc[t] \in {"select", "blocked"} => readerSubs[t] # << >>
      /\ readerPc[t] \in {"reading", "got"} => readerSubs[t] = << >>
      /\ readerPc[t] = "got" => readerMsg[t] \in Offset
  BY DEF AllInv, TypeInv, ReaderHolds
<1>3. CASE ReadError(t) \/ ReaderTop(t) \/ ReadCancelled(t) \/ ReaderBlock(t) \/ ReaderPanic(t)
  <2>1. UNCHANGED <<added, got, ch, replay, finderPc, subClosed, cancelled, readerSubs, readerMsg>>
    BY <1>3 DEF ReadError, ReaderTop, ReadCancelled, ReaderBlock, ReaderPanic
  <2>2. \A f \in Finders : Flight(f)' = Flight(f)
    BY <2>1 DEF Flight
  <2> QED BY <2>1, <2>2, QuietRelease DEF Feed!Next
<1>4. CASE ReadMessage(t)
  <2>1. /\ UNCHANGED <<added, got, ch, replay, finderPc, subClosed, cancelled, readerSubs>>
        /\ readerMsg' = [readerMsg EXCEPT ![t] = fetched[t] + 1]
        /\ readerSubs[t] = << >>
    BY <1>2, <1>4 DEF ReadMessage
  <2>2. \A f \in Finders : Flight(f)' = Flight(f)
    BY <1>1, <2>1, EmptyFacts DEF Flight
  <2> QED BY <2>1, <2>2, QuietRelease DEF Feed!Next
<1>5. CASE BufferMessage(t)
  <2> DEFINE m == readerMsg[t]
  <2>1. /\ added' = [added EXCEPT ![t] = Append(@, m)]
        /\ readerSubs[t] = << >>
        /\ readerSubs' = [readerSubs EXCEPT ![t] = subscribers[t]]
        /\ UNCHANGED <<got, ch, replay, finderPc, subClosed, cancelled, readerMsg>>
        /\ m \in Offset
    BY <1>2, <1>5 DEF BufferMessage
  <2>2. \A f \in Finders : Active(f)' <=> Active(f)
    BY <2>1 DEF Active
  <2>3. ASSUME NEW f \in Finders
        PROVE  Owed(f)' = IF f \in {g \in Finders : Active(g) /\ ~subClosed[g]} /\ TopicOf[f] = t
                          THEN Owed(f) \cup {m} ELSE Owed(f)
    <3>1. CASE TopicOf[f] = t
      <4>1. Flight(f) = {}
        BY <2>1, <3>1, EmptyFacts DEF Flight
      <4>2. f \in ToSet(subscribers[t]) <=> Active(f) /\ ~subClosed[f]
        BY <3>1, TableEntry DEF AllInv
      <4>3. Flight(f)' = IF Active(f) /\ ~subClosed[f] THEN {m} ELSE {}
        <5>1. readerSubs'[t] = subscribers[t] /\ readerMsg'[t] = m
          BY <1>1, <2>1
        <5> QED BY <3>1, <4>2, <5>1 DEF Flight
      <4> QED BY <2>1, <2>2, <3>1, <4>1, <4>3, OwedIs
    <3>2. CASE TopicOf[f] # t
      <4>1. Flight(f)' = Flight(f)
        BY <1>1, <2>1, <3>2 DEF Flight
      <4> QED BY <2>1, <2>2, <3>2, <4>1, OwedIs
    <3> QED BY <3>1, <3>2
  <2> HIDE DEF m
  <2>4. Feed!Publish(t, m)
    BY <2>1, <2>2, <2>3 DEF Feed!Publish
  <2> QED BY <2>1, <2>4 DEF Feed!Next
<1>6. CASE ReaderSend(t)
  <2>1. readerSubs[t] # << >> /\ IsInjective(readerSubs[t])
    BY <1>2, <1>6 DEF ReaderSend, AllInv, DeliveryInv, CopyInv
  <2>2. PICK g \in Finders : g = Head(readerSubs[t])
    BY <1>1, <2>1, TailFacts
  <2>3. PICK m \in Offset : m = readerMsg[t]
    BY <1>6 DEF ReaderSend, AllInv, TypeInv, ReaderHolds
  <2>4. /\ g \in ToSet(readerSubs[t])
        /\ ToSet(Tail(readerSubs[t])) = ToSet(readerSubs[t]) \ {g}
        /\ TopicOf[g] = t
    <3>1. /\ g \in ToSet(readerSubs[t])
          /\ ToSet(Tail(readerSubs[t])) = ToSet(readerSubs[t]) \ {g}
      BY <1>1, <2>1, <2>2, TailFacts
    <3> QED BY <3>1 DEF AllInv, DeliveryInv, CopyInv
  <2>5. /\ ch' = [ch EXCEPT ![g] = Append(@, m)]
        /\ readerSubs' = [readerSubs EXCEPT ![t] = Tail(@)]
        /\ UNCHANGED <<got, replay, added, finderPc, readerMsg, subClosed, cancelled>>
    BY <1>6, <2>2, <2>3 DEF ReaderSend, Push, Delivered
  <2>6. \A f \in Finders : Active(f)' <=> Active(f)
    BY <2>5 DEF Active
  <2>7. Owed(g)' = Owed(g)
    <3>1. ToSet(ch'[g]) = ToSet(ch[g]) \cup {m}
      BY <1>1, <2>5, AppendFacts
    <3>2. readerSubs'[t] = Tail(readerSubs[t])
      BY <1>1, <2>5
    <3>3. Flight(g) = {m} /\ Flight(g)' = {}
      BY <2>3, <2>4, <3>2 DEF Flight
    <3> QED BY <2>5, <2>6, <3>1, <3>3, OwedIs
  <2>8. ASSUME NEW f \in Finders, f # g PROVE Owed(f)' = Owed(f)
    <3>1. f \in ToSet(readerSubs'[TopicOf[f]]) <=> f \in ToSet(readerSubs[TopicOf[f]])
      BY <1>1, <2>4, <2>5, <2>8
    <3>2. Flight(f)' = Flight(f)
      BY <2>5, <3>1 DEF Flight
    <3>3. ch'[f] = ch[f]
      BY <1>1, <2>5, <2>8
    <3> QED BY <2>5, <2>6, <3>2, <3>3, OwedIs
  <2>9. \A f \in Finders : Owed(f)' = Owed(f)
    BY <2>7, <2>8
  <2> QED BY <2>5, <2>6, <2>9, ReleaseIs DEF Feed!Next
<1>7. CASE NextSubscriber(t) \/ ReaderDone(t) \/ ReaderStop(t)
  <2>1. /\ UNCHANGED <<added, got, ch, replay, finderPc, subClosed, cancelled>>
        /\ \/ /\ readerSubs' = [readerSubs EXCEPT ![t] = << >>]
              /\ readerMsg' = [readerMsg EXCEPT ![t] = NoMsg]
              /\ cancelled
           \/ /\ readerSubs[t] = << >>
              /\ UNCHANGED readerSubs
              /\ readerMsg' = [readerMsg EXCEPT ![t] = NoMsg]
           \/ /\ readerSubs[t] # << >>
              /\ subClosed[Head(readerSubs[t])]
              /\ readerSubs' = [readerSubs EXCEPT ![t] = Tail(@)]
              /\ UNCHANGED readerMsg
           \/ UNCHANGED <<readerSubs, readerMsg>>
    BY <1>2, <1>7 DEF NextSubscriber, ReaderDone, Done, ReaderStop, Delivered
  <2>2. IsInjective(readerSubs[t])
    BY DEF AllInv, DeliveryInv, CopyInv
  <2>3. readerSubs[t] # << >> => ToSet(Tail(readerSubs[t])) = ToSet(readerSubs[t]) \ {Head(readerSubs[t])}
    BY <1>1, <2>2, TailFacts
  <2>4. ASSUME NEW f \in Finders
        PROVE  \/ Flight(f)' = Flight(f)
               \/ (cancelled' \/ subClosed[f]) /\ Flight(f)' = {}
    <3>1. CASE TopicOf[f] # t
      <4>1. readerSubs'[TopicOf[f]] = readerSubs[TopicOf[f]] /\ readerMsg'[TopicOf[f]] = readerMsg[TopicOf[f]]
        BY <1>1, <2>1, <3>1
      <4> QED BY <4>1 DEF Flight
    <3>2. CASE TopicOf[f] = t /\ readerSubs' = [readerSubs EXCEPT ![t] = << >>] /\ cancelled
      <4>1. readerSubs'[t] = << >>
        BY <1>1, <3>2
      <4> QED BY <2>1, <3>2, <4>1, EmptyFacts DEF Flight
    <3>3. CASE TopicOf[f] = t /\ readerSubs[t] = << >> /\ UNCHANGED readerSubs
      BY <3>3, EmptyFacts DEF Flight
    <3>4. CASE /\ TopicOf[f] = t
               /\ readerSubs[t] # << >> /\ subClosed[Head(readerSubs[t])]
               /\ readerSubs' = [readerSubs EXCEPT ![t] = Tail(@)]
               /\ UNCHANGED readerMsg
      <4>1. readerSubs'[t] = Tail(readerSubs[t])
        BY <1>1, <3>4
      <4>2. CASE f = Head(readerSubs[t])
        BY <2>3, <3>4, <4>1, <4>2 DEF Flight
      <4>3. CASE f # Head(readerSubs[t])
        BY <2>3, <3>4, <4>1, <4>3 DEF Flight
      <4> QED BY <4>2, <4>3
    <3>5. CASE TopicOf[f] = t /\ UNCHANGED <<readerSubs, readerMsg>>
      BY <3>5 DEF Flight
    <3> QED BY <2>1, <3>1, <3>2, <3>3, <3>4, <3>5
  <2> QED BY <2>1, <2>4, QuietRelease DEF Feed!Next
<1> QED BY <1>3, <1>4, <1>5, <1>6, <1>7 DEF ReaderStep
\* The last messages of a log are the ones TopicFeed promises to a new
\* subscription.
LEMMA RecentIs ==
    ASSUME NEW S, NEW s \in Seq(S), NEW n \in Nat
    PROVE  ToSet(LastN(s, n)) = {s[i] : i \in {j \in 1 .. Len(s) : j > Len(s) - n}}
<1>1. Len(s) \in Nat /\ DOMAIN s = 1 .. Len(s)
  OBVIOUS
<1>2. CASE Len(s) <= n
  <2>1. {j \in 1 .. Len(s) : j > Len(s) - n} = 1 .. Len(s)
    BY <1>1, <1>2
  <2> QED BY <1>1, <1>2, <2>1 DEF LastN, ToSet
<1>3. CASE Len(s) > n
  <2> DEFINE r == LastN(s, n)
             k == Len(s) - n
  <2>1. /\ DOMAIN r = 1 .. n
        /\ \A i \in 1 .. n : r[i] = s[i + k]
    BY <1>3, LastNAt
  <2>2. k \in Nat /\ k + n = Len(s)
    BY <1>1, <1>3
  <2> HIDE DEF r, k
  <2>3. ASSUME NEW i \in 1 .. n PROVE i + k \in 1 .. Len(s) /\ i + k > k
    BY <2>2
  <2>4. ASSUME NEW j \in 1 .. Len(s), j > k PROVE j - k \in 1 .. n /\ (j - k) + k = j
    BY <2>2, <2>4
  <2>5. ToSet(r) = {s[i] : i \in {j \in 1 .. Len(s) : j > k}}
    <3>1. ASSUME NEW x \in ToSet(r) PROVE \E i \in 1 .. Len(s) : i > k /\ x = s[i]
      <4>1. PICK i \in 1 .. n : x = r[i]
        BY <2>1 DEF ToSet
      <4> QED BY <2>1, <2>3, <4>1
    <3>2. ASSUME NEW i \in 1 .. Len(s), i > k PROVE s[i] \in ToSet(r)
      <4>1. i - k \in DOMAIN r /\ r[i - k] = s[i]
        BY <2>1, <2>4, <3>2
      <4> QED BY <4>1 DEF ToSet
    <3> QED BY <3>1, <3>2
  <2> QED BY <2>5 DEF r, k
<1> QED BY <1>1, <1>2, <1>3

\* A call opens its subscription when it subscribes and takes when it
\* receives; its replay and its end are releases.
LEMMA FeedFinder ==
    ASSUME AllInv, NEW f \in Finders,
           \/ Subscribe(f) \/ SubscribeClosed(f) \/ Expire(f) \/ FinderStep(f) \/ ReplayStep(f)
    PROVE  Feed!Next
<1> USE DEF broker, reader, table, lifecycle, channels, replayer, finder, history
<1>1. /\ added \in [Topics -> Seq(Offset)]
      /\ got \in [Finders -> Seq(Offset)]
      /\ ch \in [Finders -> Seq(Offset)]
      /\ replay \in [Finders -> Seq(Offset)]
      /\ finderPc \in [Finders -> CallStates]
      /\ subClosed \in [Finders -> BOOLEAN]
      /\ TopicOf[f] \in Topics
  BY FinderAssumption DEF AllInv, TypeInv, TypeOK, CallStates
<1>2. \A g \in Finders : Flight(g)' = Flight(g)
  <2>1. UNCHANGED <<readerSubs, readerMsg>>
    BY DEF Subscribe, SubscribeClosed, Expire, FinderStep, Receive, ReceiveClosed, GiveUp,
           Unsubscribe, ReplayStep, ReplaySend, ReplayEnd, ReplayBlock, ReplayPanic
  <2> QED BY <2>1 DEF Flight
<1>3. Way(f)
  BY DEF AllInv, DeliveryInv, WayInv
<1>4. ASSUME \A g \in Finders : g # f => /\ ch'[g] = ch[g] /\ replay'[g] = replay[g]
                                         /\ finderPc'[g] = finderPc[g]
      PROVE  \A g \in Finders : g # f => (Active(g)' <=> Active(g)) /\ Owed(g)' = Owed(g)
  <2> SUFFICES ASSUME NEW g \in Finders, g # f PROVE (Active(g)' <=> Active(g)) /\ Owed(g)' = Owed(g)
    OBVIOUS
  <2>1. Active(g)' <=> Active(g)
    BY <1>4 DEF Active
  <2> QED BY <1>2, <1>4, <2>1, OwedIs
<1>5. CASE Subscribe(f)
  <2>1. /\ finderPc[f] = "idle"
        /\ replay' = [replay EXCEPT ![f] = bufferedMessages[TopicOf[f]]]
        /\ finderPc' = [finderPc EXCEPT ![f] = "search"]
        /\ UNCHANGED <<got, ch, added, subClosed, cancelled>>
    BY <1>5 DEF Subscribe, Snapshot
  <2>2. /\ ~Active(f) /\ Active(f)' /\ ~subClosed[f]
        /\ replay'[f] = bufferedMessages[TopicOf[f]]
    BY <1>1, <2>1 DEF Active, AllInv, TableInv, IdleIsOpen
  <2>3. ToSet(got[f]) = {} /\ ToSet(ch[f]) = {} /\ Flight(f) = {}
    <3>1. f \notin ToSet(readerSubs[TopicOf[f]])
      BY <1>1, <2>1 DEF AllInv, DeliveryInv, CopyInv
    <3> QED BY <1>3, <2>1, <3>1, EmptyFacts DEF Way, Flight
  <2>4. ToSet(bufferedMessages[TopicOf[f]]) = Feed!Recent(TopicOf[f])
    <3>1. bufferedMessages[TopicOf[f]] = LastN(added[TopicOf[f]], BufferSize)
      BY <1>1 DEF AllInv, DeliveryInv, LogInv
    <3>2. BufferSize \in Nat /\ added[TopicOf[f]] \in Seq(Offset)
      BY <1>1, BoundsAssumption
    <3> QED BY <3>1, <3>2, RecentIs DEF Feed!Recent
  <2>5. Owed(f) = {} /\ Owed(f)' = Feed!Recent(TopicOf[f])
    BY ZenonT(60), <1>2, <2>1, <2>2, <2>3, <2>4, OwedIs
  <2>6. \A g \in Finders : g # f => (Active(g)' <=> Active(g)) /\ Owed(g)' = Owed(g)
    BY <1>1, <1>4, <2>1
  <2>7. Feed!Open(f)
    BY <2>1, <2>2, <2>3, <2>5, <2>6 DEF Feed!Open
  <2> QED BY <2>7 DEF Feed!Next
<1>6. CASE Receive(f)
  <2>1. /\ ch[f] # << >>
        /\ ch' = [ch EXCEPT ![f] = Tail(@)]
        /\ got' = [got EXCEPT ![f] = Append(@, Head(ch[f]))]
        /\ UNCHANGED <<replay, added, subClosed, cancelled>>
        /\ finderPc[f] = "search"
        /\ \/ UNCHANGED finderPc
           \/ finderPc' = [finderPc EXCEPT ![f] = "leaving"]
    BY <1>6 DEF Receive
  <2>2. PICK m \in Offset : m = Head(ch[f])
    BY <1>1, <2>1, TailFacts
  <2>3. m \in ToSet(ch[f]) /\ ToSet(Tail(ch[f])) = ToSet(ch[f]) \ {m}
    BY <1>1, <1>3, <2>1, <2>2, TailFacts DEF Way
  <2>4. ToSet(Append(got[f], m)) = ToSet(got[f]) \cup {m}
    BY <1>1, AppendFacts
  <2>5. /\ got'[f] = Append(got[f], m) /\ ch'[f] = Tail(ch[f])
        /\ replay'[f] = replay[f]
        /\ Active(f) /\ Active(f)'
    BY <1>1, <2>1, <2>2 DEF Active
  <2>6. m \notin ToSet(replay[f]) /\ m \notin Flight(f)
    BY <1>3, <2>3 DEF Way, Flight
  <2>7. m \in Owed(f) /\ Owed(f)' = Owed(f) \ {m}
    BY <1>2, <2>3, <2>5, <2>6, OwedIs
  <2>8. \A g \in Finders : g # f => (Active(g)' <=> Active(g)) /\ Owed(g)' = Owed(g)
    BY <1>1, <1>4, <2>1
  <2>9. \A g \in Finders : g # f => got'[g] = got[g]
    BY <1>1, <2>1
  <2>10. Feed!Take(f, m)
    <3>1. {g \in Finders : Active(g) /\ ~subClosed[g]}' = {g \in Finders : Active(g) /\ ~subClosed[g]}
      BY <2>1, <2>5, <2>8
    <3>2. [g \in Finders |-> ToSet(got[g])]' = [[g \in Finders |-> ToSet(got[g])] EXCEPT ![f] = @ \cup {m}]
      BY <2>4, <2>5, <2>9
    <3>3. [g \in Finders |-> Owed(g)]' = [[g \in Finders |-> Owed(g)] EXCEPT ![f] = @ \ {m}]
      BY <2>7, <2>8
    <3> QED BY <2>1, <2>7, <3>1, <3>2, <3>3 DEF Feed!Take
  <2> QED BY <2>10 DEF Feed!Next
<1>7. CASE ReplaySend(f)
  <2>1. /\ replay[f] # << >>
        /\ ch' = [ch EXCEPT ![f] = Append(@, Head(replay[f]))]
        /\ replay' = [replay EXCEPT ![f] = Tail(@)]
        /\ UNCHANGED <<got, added, finderPc, subClosed, cancelled>>
    BY <1>7 DEF ReplaySend, Push, Rest
  <2>2. PICK m \in Offset : m = Head(replay[f])
    BY <1>1, <2>1, TailFacts
  <2>3. m \in ToSet(replay[f]) /\ ToSet(Tail(replay[f])) = ToSet(replay[f]) \ {m}
    BY <1>1, <1>3, <2>1, <2>2, TailFacts DEF Way
  <2>4. ToSet(ch'[f]) = ToSet(ch[f]) \cup {m} /\ replay'[f] = Tail(replay[f])
    BY <1>1, <2>1, <2>2, AppendFacts
  <2>5. \A g \in Finders : Active(g)' <=> Active(g)
    BY <2>1 DEF Active
  <2>6. Owed(f)' = Owed(f)
    <3>1. ToSet(ch'[f]) \cup ToSet(replay'[f]) = ToSet(ch[f]) \cup ToSet(replay[f])
      BY <2>3, <2>4
    <3> QED BY <1>2, <2>5, <3>1, OwedIs
  <2>7. \A g \in Finders : Owed(g)' = Owed(g)
    BY <1>1, <1>4, <2>1, <2>6
  <2> QED BY <2>1, <2>5, <2>7, ReleaseIs DEF Feed!Next
<1>8. CASE ReplayEnd(f)
  <2>1. /\ replay' = [replay EXCEPT ![f] = << >>]
        /\ replay[f] = << >> \/ subClosed[f]
        /\ UNCHANGED <<got, ch, added, finderPc, subClosed, cancelled>>
    BY <1>8 DEF ReplayEnd, Done
  <2>2. \A g \in Finders : Active(g)' <=> Active(g)
    BY <2>1 DEF Active
  <2>3. \/ Owed(f)' = Owed(f)
        \/ subClosed'[f] /\ Owed(f)' \subseteq Owed(f)
    <3>1. replay'[f] = << >>
      BY <1>1, <2>1
    <3>2. Owed(f)' \subseteq Owed(f)
      BY <1>2, <2>1, <2>2, <3>1, EmptyFacts, OwedIs
    <3>3. replay[f] = << >> => Owed(f)' = Owed(f)
      BY <1>2, <2>1, <2>2, <3>1, EmptyFacts, OwedIs
    <3>4. subClosed' = subClosed
      BY <2>1
    <3> QED BY <2>1, <3>2, <3>3, <3>4
  <2>4. \A g \in Finders : g # f => Owed(g)' = Owed(g)
    BY <1>1, <1>4, <2>1
  <2> QED BY <2>1, <2>2, <2>3, <2>4, ReleaseIs DEF Feed!Next
<1>9. CASE Unsubscribe(f)
  <2>1. /\ finderPc' = [finderPc EXCEPT ![f] = "done"]
        /\ UNCHANGED <<got, ch, replay, added, cancelled>>
        /\ subClosed' = [subClosed EXCEPT ![f] = TRUE] \/ UNCHANGED subClosed
    BY <1>9 DEF Unsubscribe
  <2>2. ~Active(f)'
    BY <1>1, <2>1 DEF Active
  <2>3. \A g \in Finders : g # f => (Active(g)' <=> Active(g)) /\ Owed(g)' = Owed(g)
    BY <1>1, <1>4, <2>1
  <2>4. Owed(f)' \subseteq Owed(f)
    BY <2>2, OwedIs
  <2>5. \A g \in Finders : g # f => subClosed'[g] = subClosed[g]
    BY <1>1, <2>1
  <2> QED BY <2>1, <2>2, <2>3, <2>4, <2>5, ReleaseIs DEF Feed!Next
<1>10. CASE \/ SubscribeClosed(f) \/ Expire(f) \/ ReceiveClosed(f) \/ GiveUp(f)
            \/ ReplayBlock(f) \/ ReplayPanic(f)
  <2>1. UNCHANGED <<got, ch, replay, added, subClosed, cancelled>>
    BY <1>10 DEF SubscribeClosed, Expire, ReceiveClosed, GiveUp, ReplayBlock, ReplayPanic
  <2>2. \/ UNCHANGED finderPc
        \/ finderPc[f] = "idle" /\ finderPc' = [finderPc EXCEPT ![f] = "failed"]
        \/ finderPc[f] = "search" /\ finderPc' = [finderPc EXCEPT ![f] = "leaving"]
    BY <1>10 DEF SubscribeClosed, Expire, ReceiveClosed, GiveUp, ReplayBlock, ReplayPanic
  <2>3. \A g \in Finders : Active(g)' <=> Active(g)
    BY <1>1, <2>2 DEF Active
  <2>4. \A g \in Finders : Owed(g)' = Owed(g)
    BY <1>2, <2>1, <2>3, OwedIs
  <2> QED BY <2>1, <2>3, <2>4, ReleaseIs DEF Feed!Next
<1> QED BY <1>5, <1>6, <1>7, <1>8, <1>9, <1>10 DEF FinderStep, ReplayStep

\* Cancelling the consumer and shutting every subscription are releases.
LEMMA FeedClose == AllInv /\ (Cancel \/ CloseSubscribers) => Feed!Next
<1> SUFFICES ASSUME AllInv, Cancel \/ CloseSubscribers PROVE Feed!Next
  OBVIOUS
<1> USE DEF broker, reader, table, lifecycle, channels, replayer, finder, history
<1>1. UNCHANGED <<got, ch, replay, added, finderPc, readerSubs, readerMsg>>
  BY DEF Cancel, CloseSubscribers
<1>2. cancelled => cancelled'
  BY DEF Cancel, CloseSubscribers
<1>3. \A f \in Finders : ~subClosed'[f] => ~subClosed[f]
  BY DEF Cancel, CloseSubscribers
<1>4. \A f \in Finders : Active(f)' <=> Active(f)
  BY <1>1 DEF Active
<1>5. \A f \in Finders : Owed(f)' = Owed(f)
  <2>1. \A f \in Finders : Flight(f)' = Flight(f)
    BY <1>1 DEF Flight
  <2> QED BY <1>1, <1>4, <2>1, OwedIs
<1> QED BY <1>1, <1>2, <1>3, <1>4, <1>5, ReleaseIs DEF Feed!Next

\* For any topics, calls, messages and sizes: however the readers, the replay
\* goroutines, the calls and close interleave, each call is owed the last
\* BufferSize messages of its topic and every later one, takes each of them at
\* most once, and loses none while its subscription is open and the consumer runs.
THEOREM ImplementsTopicFeed == Spec => DeliversExactlyOnce
<1>1. Init => Feed!Init
  <2> SUFFICES ASSUME Init PROVE Feed!Init
    OBVIOUS
  <2>1. \A f \in Finders : ~Active(f) /\ Owed(f) = {} /\ ToSet(got[f]) = {}
    BY EmptyFacts DEF Init, Active, Owed
  <2> QED BY <2>1 DEF Feed!Init, Init
<1>2. AllInv /\ [Next \/ Terminated]_vars => [Feed!Next]_Feed!feedVars
  <2> SUFFICES ASSUME AllInv, [Next \/ Terminated]_vars
               PROVE  Feed!Next \/ UNCHANGED Feed!feedVars
    OBVIOUS
  <2>1. CASE UNCHANGED vars
    <3>1. UNCHANGED <<added, finderPc, subClosed, ch, replay, readerSubs, readerMsg, got, cancelled>>
      BY <2>1 DEF vars, broker, reader, table, lifecycle, channels, replayer, finder, history
    <3>2. \A f \in Finders : (Active(f)' <=> Active(f)) /\ Flight(f)' = Flight(f)
      BY <3>1 DEF Active, Flight
    <3>3. \A f \in Finders : Owed(f)' = Owed(f)
      BY <3>1, <3>2, OwedIs
    <3> QED BY <3>1, <3>2, <3>3 DEF Feed!feedVars
  <2> QED BY <2>1, FeedReader, FeedFinder, FeedClose DEF Next, Terminated
<1> QED BY <1>1, <1>2, DeliveryAlways, PTL DEF Spec, AllInv, DeliversExactlyOnce, Feed!Spec

-----------------------------------------------------------------------------
(* The ring buffer of one topic: an array, head and count, for every size  *)
(* and every set of messages.                                              *)

\* The size of a ring is positive whatever the configuration file says.
LEMMA SizePositive == size \in Nat \ {0}
BY ConfigAssumption DEF size

\* The indices of the code stay below twice the size, where % is at most one
\* subtraction.
LEMMA ModOnce ==
    ASSUME NEW n \in Nat \ {0}, NEW x \in Int, 0 <= x, x < n + n
    PROVE  x % n = IF x < n THEN x ELSE x - n
OBVIOUS

\* Where head goes on from.
LEMMA NextHead ==
    ASSUME head \in 0 .. size - 1
    PROVE  (head + 1) % size = IF head + 1 < size THEN head + 1 ELSE 0
<1> DEFINE x == head + 1
<1>1. x \in Int /\ 0 <= x /\ x < size + size /\ (~(x < size) => x - size = 0)
  BY SizePositive
<1> HIDE DEF x
<1>2. x % size = IF x < size THEN x ELSE x - size
  BY <1>1, SizePositive, ModOnce
<1>3. QED BY <1>1, <1>2 DEF x

\* The invariant that is inductive.
RingInv == RingTypeOK /\ Filled

\* A new buffer has no written slot and claims none.
LEMMA NewRingInv == NewRingBuffer => RingInv
BY SizePositive DEF NewRingBuffer, RingInv, RingTypeOK, Filled

\* Add fills the slot at head before it counts it.
LEMMA AddKeepsInv == RingInv /\ [RingNext]_ringVars => RingInv'
<1> SUFFICES ASSUME RingInv, [RingNext]_ringVars PROVE RingInv'
  OBVIOUS
<1> USE SizePositive
<1>1. ASSUME NEW msg \in Message, Add(msg) PROVE RingInv'
  <2>1. head + 1 \in 0 .. 2 * size - 1 /\ size' = size
    BY DEF RingInv, RingTypeOK, size
  <2>2. head' = IF head + 1 < size THEN head + 1 ELSE 0
    BY <1>1, NextHead DEF Add, RingInv, RingTypeOK
  <2>3. RingTypeOK'
    BY <1>1, <2>1, <2>2 DEF Add, RingInv, RingTypeOK
  <2>4. Filled'
    BY <1>1, <2>1, <2>2 DEF Add, RingInv, RingTypeOK, Filled
  <2>5. QED BY <2>3, <2>4 DEF RingInv
<1>2. CASE UNCHANGED ringVars
  BY <1>2 DEF ringVars, RingInv, RingTypeOK, Filled, size
<1>3. QED BY <1>1, <1>2 DEF RingNext

\* The inductive invariant holds throughout.
LEMMA RingAlwaysInv == RingSpec => []RingInv
BY NewRingInv, AddKeepsInv, PTL DEF RingSpec

\* Where GetAll reads: at head - count + i, or at head + i - count + size
\* once the ring has wrapped.
LEMMA SlotValue ==
    ASSUME RingInv, NEW i \in 0 .. count - 1
    PROVE  /\ Slot(i) \in 0 .. size - 1
           /\ count < size => Slot(i) = i
           /\ count = size => Slot(i) = IF head + i < size THEN head + i
                                                           ELSE head + i - size
<1> USE SizePositive
<1>1. head - count + i + size \in 0 .. 2 * size - 1
  BY DEF RingInv, RingTypeOK
<1>2. Slot(i) = IF head - count + i + size < size THEN head - count + i + size
                                                  ELSE head - count + i
  <2> DEFINE x == head - count + i + size
  <2>1. x \in Int /\ x - size = head - count + i
    BY DEF RingInv, RingTypeOK
  <2>2. x % size = IF x < size THEN x ELSE x - size
    BY <1>1, ModOnce
  <2>3. QED BY <2>1, <2>2 DEF Slot
<1>3. QED BY <1>1, <1>2 DEF RingInv, RingTypeOK, Filled

\* GetAll reads the count slots before head, and all of them are filled.
LEMMA RingReads == RingInv => OnlyWrittenSlotsRead
<1> SUFFICES ASSUME RingInv, NEW i \in 0 .. count - 1
             PROVE  Slot(i) \in 0 .. size - 1 /\ buffer[Slot(i)] \in Message
  BY DEF OnlyWrittenSlotsRead
<1>1. CASE count < size
  BY <1>1, SlotValue DEF RingInv, Filled
<1>2. CASE count = size
  BY <1>2, SlotValue DEF RingInv, Filled
<1>3. QED BY <1>1, <1>2, SizePositive DEF RingInv, RingTypeOK

\* The fields of the buffer keep their ranges, for every configured size.
THEOREM RingTypeCorrect == RingSpec => []RingTypeOK
BY RingAlwaysInv, PTL DEF RingInv

\* GetAll never returns a slot that no Add has written.
THEOREM ReadsOnlyWritten == RingSpec => []OnlyWrittenSlotsRead
BY RingAlwaysInv, RingReads, PTL

-----------------------------------------------------------------------------

\* GetAll returns as many messages as are counted.
LEMMA GetAllType == RingInv => GetAll \in Seq(Message) /\ Len(GetAll) = count
<1> SUFFICES ASSUME RingInv PROVE GetAll \in Seq(Message) /\ Len(GetAll) = count
  OBVIOUS
<1>1. \A j \in 1 .. count : buffer[Slot(j - 1)] \in Message
  <2> TAKE j \in 1 .. count
  <2>1. j - 1 \in 0 .. count - 1
    BY DEF RingInv, RingTypeOK
  <2>2. QED BY <2>1, RingReads DEF OnlyWrittenSlotsRead
<1>2. GetAll \in [1 .. count -> Message] /\ count \in Nat
  BY <1>1, SizePositive DEF GetAll, RingInv, RingTypeOK
<1>3. QED BY <1>2

\* What Append makes of a sequence, element by element.
LEMMA AppendIs ==
    ASSUME NEW S, NEW s \in Seq(S), NEW e \in S
    PROVE  Append(s, e) = [j \in 1 .. Len(s) + 1 |-> IF j = Len(s) + 1 THEN e ELSE s[j]]
<1> DEFINE a == Append(s, e)
<1>1. /\ DOMAIN a = 1 .. Len(s) + 1
      /\ Len(s) \in Nat
      /\ \A j \in 1 .. Len(s) : a[j] = s[j]
      /\ a[Len(s) + 1] = e
  OBVIOUS
<1> HIDE DEF a
<1>2. ASSUME NEW j \in 1 .. Len(s) + 1 PROVE a[j] = IF j = Len(s) + 1 THEN e ELSE s[j]
  <2>1. j = Len(s) + 1 \/ j \in 1 .. Len(s)
    BY <1>1
  <2> QED BY <1>1, <2>1
<1>3. a = [j \in 1 .. Len(s) + 1 |-> a[j]]
  <2>1. a \in Seq(S) /\ Len(a) = Len(s) + 1
    BY DEF a
  <2> QED BY <2>1
<1>4. a = [j \in 1 .. Len(s) + 1 |-> IF j = Len(s) + 1 THEN e ELSE s[j]]
  BY <1>2, <1>3
<1> QED BY <1>4 DEF a

\* Before the ring is full, Add appends to what GetAll returns.
LEMMA AddGrows ==
    ASSUME RingInv, NEW msg \in Message, Add(msg), count < size
    PROVE  GetAll' = Append(GetAll, msg)
<1> USE SizePositive
<1>1. /\ size' = size /\ count' = count + 1 /\ head = count /\ count \in Nat
      /\ buffer' = [buffer EXCEPT ![count] = msg]
      /\ buffer \in [0 .. size - 1 -> Message \cup {NoMessage}]
  <2>1. size' = size
    BY DEF size
  <2>2. QED BY <2>1 DEF Add, RingInv, RingTypeOK, Filled
<1>2. ASSUME NEW j \in 1 .. count + 1
      PROVE  (head' - count' + (j - 1) + size) % size = j - 1
  <2>1. head' = IF count + 1 < size THEN count + 1 ELSE 0
    BY <1>1, NextHead DEF Add, RingInv, RingTypeOK
  <2>2. CASE count + 1 < size
    <3> DEFINE x == head' - count' + (j - 1) + size
    <3>1. x = j - 1 + size
      BY <1>1, <2>1, <2>2
    <3>2. x \in Int /\ 0 <= x /\ x < size + size /\ ~(x < size) /\ x - size = j - 1
      BY <1>1, <3>1
    <3> HIDE DEF x
    <3>3. x % size = j - 1
      BY <3>2, ModOnce
    <3>4. QED BY <3>3 DEF x
  <2>3. CASE count + 1 = size
    <3>1. head' - count' + (j - 1) + size = j - 1
      BY <1>1, <2>1, <2>3
    <3>2. j - 1 \in 0 .. 2 * size - 1 /\ j - 1 < size
      BY <1>1
    <3>3. QED BY <3>1, <3>2, ModOnce
  <2>4. QED BY <1>1, <2>2, <2>3
<1>3. GetAll' = [j \in 1 .. count + 1 |-> buffer'[j - 1]]
  BY <1>1, <1>2 DEF GetAll, Slot
<1>4. GetAll = [j \in 1 .. count |-> buffer[j - 1]]
  <2>1. ASSUME NEW j \in 1 .. count PROVE Slot(j - 1) = j - 1
    <3>1. j - 1 \in 0 .. count - 1
      BY <1>1
    <3>2. QED BY <3>1, SlotValue
  <2>2. QED BY <2>1 DEF GetAll
<1>5. QED
  <2>1. GetAll \in Seq(Message) /\ Len(GetAll) = count
    BY GetAllType
  <2>2. Append(GetAll, msg) =
           [j \in 1 .. count + 1 |-> IF j = count + 1 THEN msg ELSE GetAll[j]]
    BY <2>1, AppendIs
  <2>3. ASSUME NEW j \in 1 .. count + 1
        PROVE  buffer'[j - 1] = IF j = count + 1 THEN msg ELSE GetAll[j]
    <3>1. CASE j = count + 1
      BY <1>1, <3>1
    <3>2. CASE j \in 1 .. count
      <4>1. j - 1 # count /\ j - 1 \in 0 .. size - 1
        BY <1>1, <3>2
      <4>2. QED BY <1>1, <1>4, <3>2, <4>1
    <3>3. QED BY <1>1, <3>1, <3>2
  <2>4. QED BY <1>3, <2>2, <2>3

\* Once it is full, Add also drops the oldest.
LEMMA AddSlides ==
    ASSUME RingInv, NEW msg \in Message, Add(msg), count = size
    PROVE  GetAll' = SubSeq(Append(GetAll, msg), 2, size + 1)
<1> USE SizePositive
<1>1. /\ size' = size /\ count' = size /\ head \in 0 .. size - 1
      /\ buffer' = [buffer EXCEPT ![head] = msg]
      /\ buffer \in [0 .. size - 1 -> Message \cup {NoMessage}]
      /\ head' = IF head + 1 < size THEN head + 1 ELSE 0
  <2>1. size' = size
    BY DEF size
  <2>2. QED BY <2>1, NextHead DEF Add, RingInv, RingTypeOK
<1> DEFINE At(j) == IF head + j < size THEN head + j ELSE head + j - size
<1>2. ASSUME NEW j \in 1 .. size
      PROVE  (head' - count' + (j - 1) + size) % size = At(j)
  <2>1. CASE head + 1 < size
    <3> DEFINE x == head' - count' + (j - 1) + size
    <3>1. x = head + j
      BY <1>1, <2>1
    <3>2. /\ x \in Int /\ 0 <= x /\ x < size + size
          /\ At(j) = IF x < size THEN x ELSE x - size
      BY <1>1, <3>1
    <3> HIDE DEF x, At
    <3>3. x % size = At(j)
      BY <3>2, ModOnce
    <3>4. QED BY <3>3 DEF x
  <2>2. CASE head + 1 = size
    <3>1. head' - count' + (j - 1) + size = j - 1
      BY <1>1, <2>2
    <3>2. j - 1 \in 0 .. 2 * size - 1 /\ j - 1 < size /\ At(j) = j - 1
      BY <1>1, <2>2
    <3>3. QED BY <3>1, <3>2, ModOnce
  <2>3. QED BY <1>1, <2>1, <2>2
<1>3. GetAll' = [j \in 1 .. size |-> buffer'[At(j)]]
  BY SMTT(30), <1>1, <1>2 DEF GetAll, Slot
<1>4. ASSUME NEW j \in 1 .. size - 1 PROVE GetAll[j + 1] = buffer[At(j)]
  <2>1. j \in 0 .. count - 1 /\ j + 1 \in 1 .. count /\ (j + 1) - 1 = j
    BY <1>1
  <2>2. Slot(j) = At(j)
    BY <2>1, SlotValue
  <2>3. GetAll[j + 1] = buffer[Slot((j + 1) - 1)]
    BY <2>1 DEF GetAll
  <2>4. QED BY <2>1, <2>2, <2>3
<1>5. ASSUME NEW j \in 1 .. size
      PROVE  buffer'[At(j)] = IF j = size THEN msg ELSE GetAll[j + 1]
  <2>1. CASE j = size
    <3>1. At(j) = head
      BY <1>1, <2>1
    <3>2. QED BY <1>1, <2>1, <3>1
  <2>2. CASE j \in 1 .. size - 1
    <3>1. At(j) # head /\ At(j) \in 0 .. size - 1
      BY <1>1, <2>2
    <3>2. QED BY <1>1, <1>4, <2>2, <3>1
  <2>3. QED BY <2>1, <2>2
<1>6. GetAll \in Seq(Message) /\ Len(GetAll) = size
  BY GetAllType
<1>7. SubSeq(Append(GetAll, msg), 2, size + 1) =
         [j \in 1 .. size |-> IF j = size THEN msg ELSE GetAll[j + 1]]
  BY <1>6
<1>8. QED
  <2> HIDE DEF At
  <2>1. [j \in 1 .. size |-> buffer'[At(j)]] =
           [j \in 1 .. size |-> IF j = size THEN msg ELSE GetAll[j + 1]]
    BY <1>5
  <2>2. QED BY <1>3, <1>7, <2>1

\* What GetAll returns is the bounded log of the messages added.
THEOREM ImplementsBoundedLog == RingSpec => KeepsTheMostRecent
<1>1. NewRingBuffer => Recent!Init
  BY DEF NewRingBuffer, Recent!Init, GetAll
<1>2. RingInv /\ [RingNext]_ringVars => [Recent!Next]_GetAll
  <2> SUFFICES ASSUME RingInv, [RingNext]_ringVars PROVE [Recent!Next]_GetAll
    OBVIOUS
  <2>1. ASSUME NEW msg \in Message, Add(msg) PROVE Recent!Next
    <3>1. GetAll \in Seq(Message) /\ Len(GetAll) = count
      BY GetAllType
    <3>2. Append(GetAll, msg) \in Seq(Message) /\ Len(Append(GetAll, msg)) = count + 1
      BY <3>1
    <3>3. GetAll' = Recent!Record(GetAll, msg)
      <4>1. CASE count < size
        BY <2>1, <3>2, <4>1, AddGrows, SizePositive
        DEF Recent!Record, Recent!LastN, RingInv, RingTypeOK
      <4>2. CASE count = size
        BY <2>1, <3>2, <4>2, AddSlides, SizePositive
        DEF Recent!Record, Recent!LastN, RingInv, RingTypeOK
      <4>3. QED BY <4>1, <4>2, SizePositive DEF RingInv, RingTypeOK
    <3>4. QED BY <3>3 DEF Recent!Next, Recent!Log
  <2>2. CASE UNCHANGED ringVars
    BY <2>2 DEF ringVars, GetAll, Slot, size
  <2>3. QED BY <2>1, <2>2 DEF RingNext
<1>3. QED BY <1>1, <1>2, RingAlwaysInv, PTL DEF RingSpec, KeepsTheMostRecent, Recent!Spec

-----------------------------------------------------------------------------
(* What the client takes the ring for is what the ring implements.         *)

Window(t) == INSTANCE BoundedLog WITH Size <- BufferSize, Message <- Offset, window <- bufferedMessages[t]

\* Adding to the window of a topic is adding to the log that a ring implements.
LEMMA WindowRecords ==
    ASSUME NEW t \in Topics, NEW w, NEW m
    PROVE  RingAdd(w, m) = Window(t)!Record(w, m)
BY DEF RingAdd, LastN, Window!Record, Window!LastN

\* Whatever its readers, calls and close do, the buffer that the client keeps
\* for a topic changes as a ring does, whose refinement is ImplementsBoundedLog
\* (kafka.go:88-97, 247-251).
THEOREM BuffersAreRings ==
    ASSUME NEW t \in Topics
    PROVE  Spec => Window(t)!Spec
<1>1. Init => Window(t)!Init
  BY DEF Init, Window!Init
<1>2. TypeInv /\ [Next \/ Terminated]_vars => [Window(t)!Next]_(bufferedMessages[t])
  <2> SUFFICES ASSUME TypeInv, Next
               PROVE  Window(t)!Next \/ bufferedMessages'[t] = bufferedMessages[t]
    BY DEF vars, table, Terminated
  <2> USE DEF broker, reader, table, lifecycle, channels, replayer, finder, history
  <2>1. ASSUME NEW u \in Topics, BufferMessage(u)
        PROVE  Window(t)!Next \/ bufferedMessages'[t] = bufferedMessages[t]
    <3>1. /\ readerMsg[u] \in Offset /\ bufferedMessages \in [Topics -> Seq(Offset)]
          /\ bufferedMessages' = [bufferedMessages EXCEPT ![u] = RingAdd(@, readerMsg[u])]
      BY <2>1 DEF BufferMessage, TypeInv, TypeOK, ReaderHolds
    <3>2. CASE u = t
      <4>1. bufferedMessages'[t] = Window(t)!Record(bufferedMessages[t], readerMsg[t])
        BY <3>1, <3>2, WindowRecords
      <4> QED BY <3>1, <3>2, <4>1 DEF Window!Next, Window!Log
    <3> QED BY <3>1, <3>2
  <2>2. ASSUME NEW u \in Topics, ReaderStep(u), ~BufferMessage(u)
        PROVE  bufferedMessages' = bufferedMessages
    BY <2>2 DEF ReaderStep, ReaderTop, ReadCancelled, NextSubscriber,
            ReaderSend, ReaderDone, ReaderStop, ReaderBlock, ReaderPanic
  <2>3. ASSUME NEW f \in Finders,
               Subscribe(f) \/ SubscribeClosed(f) \/ Expire(f) \/ FinderStep(f) \/ ReplayStep(f)
        PROVE  bufferedMessages' = bufferedMessages
    BY <2>3 DEF ReplayStep, FinderStep, ReplaySend, ReplayEnd, ReplayBlock, ReplayPanic, Subscribe,
            SubscribeClosed, Receive, ReceiveClosed, GiveUp, Unsubscribe, Expire
  <2>4. ASSUME NEW u \in Topics, ReadMessage(u) \/ ReadError(u)
        PROVE  bufferedMessages' = bufferedMessages
    BY <2>4 DEF ReadMessage, ReadError
  <2>5. ASSUME Cancel \/ CloseSubscribers PROVE bufferedMessages' = bufferedMessages
    BY <2>5 DEF Cancel, CloseSubscribers
  <2> QED BY <2>1, <2>2, <2>3, <2>4, <2>5 DEF Next
<1> QED BY <1>1, <1>2, TypeAlways, PTL DEF Spec, Window!Spec
=============================================================================
