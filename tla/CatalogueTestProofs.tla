------------------------ MODULE CatalogueTestProofs ------------------------
(***************************************************************************)
(* What a request of the HTTP client does, for any paths, any parameters   *)
(* and values, and any status codes: the placeholders are filled in as if  *)
(* at once, in whatever order Go visits the map, and the Response tells    *)
(* the outcomes apart.  Then what the tests of the catalogue that make     *)
(* such requests may rely on, for any number of faults, and that the data  *)
(* made up for them is what the services accept, of any length.            *)
(***************************************************************************)
EXTENDS CatalogueTest, SequenceTheorems, FiniteSetTheorems, FunctionTheorems, WellFoundedInduction, TLAPS

-----------------------------------------------------------------------------
(* Induction over numbers and sequences, with a set of those for which a   *)
(* statement holds.                                                        *)

\* A set that holds zero and the successor of every number it holds holds all.
LEMMA NumbersAreIn ==
    ASSUME NEW G, 0 \in G, \A n \in Nat : n \in G => n + 1 \in G
    PROVE  Nat \subseteq G
<1> DEFINE R == {pair \in Nat \X Nat : pair[1] < pair[2]}
           B == Nat \ G
<1>1. IsWellFoundedOn(R, Nat)
  BY NatLessThanWellFounded DEF OpToRel
<1>2. ASSUME B # {} PROVE \E n \in B : \A k \in B : <<k, n>> \notin R
  <2> HIDE DEF R
  <2> QED BY <1>1, <1>2, WFMin
<1>3. ASSUME NEW n \in B, \A k \in B : <<k, n>> \notin R PROVE FALSE
  <2>1. n \in Nat /\ n # 0
    OBVIOUS
  <2>2. n - 1 \in Nat /\ n - 1 + 1 = n /\ <<n - 1, n>> \in R
    BY <2>1
  <2> QED BY <1>3, <2>1, <2>2
<1> HIDE DEF R
<1> QED BY <1>2, <1>3

\* A set that holds the empty sequence, and with a sequence every one that is
\* longer by an element, holds all.
LEMMA SequencesAreIn ==
    ASSUME NEW S, NEW G, << >> \in G,
           \A s \in Seq(S) : \A e \in S : s \in G => Append(s, e) \in G
    PROVE  Seq(S) \subseteq G
<1> DEFINE N == {n \in Nat : \A s \in Seq(S) : Len(s) = n => s \in G}
<1>1. 0 \in N
  <2>1. \A s \in Seq(S) : Len(s) = 0 => s = << >>
    OBVIOUS
  <2> QED BY <2>1
<1>2. ASSUME NEW n \in Nat, n \in N PROVE n + 1 \in N
  <2> SUFFICES ASSUME NEW s \in Seq(S), Len(s) = n + 1 PROVE s \in G
    BY <1>2
  <2> DEFINE front == SubSeq(s, 1, n)
  <2>1. front \in Seq(S) /\ Len(front) = n /\ s[n + 1] \in S
        /\ \A i \in 1 .. n : front[i] = s[i]
    OBVIOUS
  <2>2. Append(front, s[n + 1]) = s
    <3> HIDE DEF front
    <3>1. Append(front, s[n + 1]) \in Seq(S) /\ Len(Append(front, s[n + 1])) = Len(s)
      BY <2>1
    <3>2. \A i \in 1 .. Len(Append(front, s[n + 1])) : Append(front, s[n + 1])[i] = s[i]
      BY <2>1
    <3> QED BY <3>1, <3>2, SeqEqual
  <2> QED BY <1>2, <2>1, <2>2
<1>3. Nat \subseteq N
  <2> HIDE DEF N
  <2> QED BY <1>1, <1>2, NumbersAreIn
<1> QED BY <1>3

-----------------------------------------------------------------------------
(* FlattenSeq. *)

\* What FlattenSeq computes, element by element.
Flattens(f, seqs) ==
    f = [i \in 1 .. Len(seqs) |-> IF i = 1 THEN seqs[i] ELSE f[i - 1] \o seqs[i]]

\* There is one such function.
LEMMA FlattensOnce ==
    ASSUME NEW S, NEW seqs \in Seq(Seq(S)), NEW f, NEW g, Flattens(f, seqs), Flattens(g, seqs)
    PROVE  \A i \in 1 .. Len(seqs) : f[i] = g[i]
<1> DEFINE G == {n \in Nat : n \in 1 .. Len(seqs) => f[n] = g[n]}
<1>1. 0 \in G
  OBVIOUS
<1>2. ASSUME NEW n \in Nat, n \in G PROVE n + 1 \in G
  <2> SUFFICES ASSUME n + 1 \in 1 .. Len(seqs) PROVE f[n + 1] = g[n + 1]
    OBVIOUS
  <2>1. CASE n = 0
    BY <2>1 DEF Flattens
  <2>2. CASE n # 0
    <3>1. n \in 1 .. Len(seqs) /\ n + 1 # 1 /\ n + 1 - 1 = n
      BY <2>2
    <3>2. f[n] = g[n]
      BY <1>2, <3>1
    <3>3. \A i \in 1 .. Len(seqs) :
             /\ f[i] = IF i = 1 THEN seqs[i] ELSE f[i - 1] \o seqs[i]
             /\ g[i] = IF i = 1 THEN seqs[i] ELSE g[i - 1] \o seqs[i]
      BY DEF Flattens
    <3>4. /\ f[n + 1] = f[n] \o seqs[n + 1]
          /\ g[n + 1] = g[n] \o seqs[n + 1]
      <4>1. PICK i \in 1 .. Len(seqs) : i = n + 1 /\ i # 1 /\ i - 1 = n
        BY <3>1
      <4>2. f[i] = f[i - 1] \o seqs[i] /\ g[i] = g[i - 1] \o seqs[i]
        BY <3>3, <4>1
      <4> QED BY <4>1, <4>2
    <3> QED BY <3>2, <3>4
  <2> QED BY <2>1, <2>2
<1>3. Nat \subseteq G
  <2> HIDE DEF G
  <2> QED BY <1>1, <1>2, NumbersAreIn
<1> QED BY <1>3

\* FlattenSeq is its last element.
LEMMA FlattenIs ==
    ASSUME NEW S, NEW seqs \in Seq(Seq(S)), Len(seqs) # 0, NEW f, Flattens(f, seqs)
    PROVE  FlattenSeq(seqs) = f[Len(seqs)]
<1> DEFINE g == CHOOSE h : h = [i \in 1 .. Len(seqs) |->
                                   IF i = 1 THEN seqs[i] ELSE h[i - 1] \o seqs[i]]
<1>1. Flattens(g, seqs)
  BY Zenon DEF Flattens
<1>2. FlattenSeq(seqs) = g[Len(seqs)]
  BY DEF FlattenSeq
<1>3. Len(seqs) \in 1 .. Len(seqs)
  OBVIOUS
<1> HIDE DEF g
<1> QED BY <1>1, <1>2, <1>3, FlattensOnce

\* Nothing flattens to nothing.
LEMMA FlattenEmpty == FlattenSeq(<< >>) = << >>
BY DEF FlattenSeq

\* There is such a function for all sequences, and its elements are sequences.
LEMMA FlattensExists ==
    ASSUME NEW S, NEW seqs \in Seq(Seq(S))
    PROVE  \E f \in [1 .. Len(seqs) -> Seq(S)] : Flattens(f, seqs)
<1>a. PICK T : T = Seq(S)
  OBVIOUS
<1> DEFINE G == {s \in Seq(T) : \E f \in [1 .. Len(s) -> T] : Flattens(f, s)}
<1>1. << >> \in G
  <2>1. << >> \in [1 .. 0 -> T] /\ Len(<< >>) = 0 /\ << >> \in Seq(T)
    OBVIOUS
  <2>2. Flattens(<< >>, << >>)
    BY DEF Flattens
  <2> QED BY <2>1, <2>2
<1>2. ASSUME NEW s \in Seq(T), NEW e \in T, s \in G PROVE Append(s, e) \in G
  <2>1. PICK f \in [1 .. Len(s) -> T] : Flattens(f, s)
    BY <1>2
  <2>2. PICK t \in Seq(T) : t = Append(s, e)
    BY AppendProperties
  <2>3. PICK n \in Nat : n = Len(s)
    OBVIOUS
  <2>4. /\ Len(t) = n + 1 /\ t[n + 1] = e
        /\ \A i \in 1 .. n : t[i] = s[i]
    BY <2>2, <2>3
  <2> DEFINE last == IF n = 0 THEN e ELSE f[n] \o e
             h == [i \in 1 .. n + 1 |-> IF i = n + 1 THEN last ELSE f[i]]
  <2>5. last \in T
    <3>1. CASE n = 0
      BY <3>1
    <3>2. CASE n # 0
      <4>1. n \in 1 .. n
        BY <3>2
      <4>2. f[n] \in T
        BY <2>1, <2>3, <4>1
      <4>3. f[n] \o e \in Seq(S)
        BY <1>a, <4>2
      <4> QED BY <1>a, <3>2, <4>3
    <3> QED BY <3>1, <3>2
  <2>6. h \in [1 .. Len(t) -> T]
    BY <2>1, <2>3, <2>4, <2>5
  <2>7. ASSUME NEW i \in 1 .. n + 1
        PROVE  h[i] = IF i = 1 THEN t[i] ELSE h[i - 1] \o t[i]
    <3>1. CASE i = n + 1
      <4>1. CASE n = 0
        BY <2>4, <3>1, <4>1
      <4>2. CASE n # 0
        <5>1. i # 1 /\ i - 1 = n /\ n \in 1 .. n + 1 /\ n # n + 1
          BY <3>1, <4>2
        <5>2. h[i] = f[n] \o e /\ h[n] = f[n]
          BY <3>1, <4>2, <5>1
        <5> QED BY <2>4, <3>1, <5>1, <5>2
      <4> QED BY <4>1, <4>2
    <3>2. CASE i # n + 1
      <4>1. i \in 1 .. n /\ h[i] = f[i]
        BY <3>2
      <4>2. f[i] = IF i = 1 THEN s[i] ELSE f[i - 1] \o s[i]
        BY <2>1, <2>3, <4>1 DEF Flattens
      <4>3. i # 1 => h[i - 1] = f[i - 1]
        BY <4>1
      <4> QED BY <2>4, <4>1, <4>2, <4>3
    <3> QED BY <3>1, <3>2
  <2>8. Flattens(h, t)
    <3>1. h = [i \in 1 .. n + 1 |-> h[i]]
      OBVIOUS
    <3> HIDE DEF h
    <3> QED BY <2>4, <2>7, <3>1 DEF Flattens
  <2> QED BY <2>2, <2>6, <2>8
<1>3. Seq(T) \subseteq G
  <2> HIDE DEF G
  <2> QED BY <1>1, <1>2, SequencesAreIn
<1> QED BY <1>a, <1>3

\* One more sequence comes after what the others flatten to.
LEMMA FlattenAppend ==
    ASSUME NEW S, NEW seqs \in Seq(Seq(S)), NEW e \in Seq(S)
    PROVE  /\ FlattenSeq(seqs) \in Seq(S)
           /\ FlattenSeq(Append(seqs, e)) = FlattenSeq(seqs) \o e
<1>1. PICK T : T = Seq(S)
  OBVIOUS
<1>2. PICK t \in Seq(T) : t = Append(seqs, e)
  BY <1>1, AppendProperties
<1>3. PICK n \in Nat : n = Len(seqs)
  OBVIOUS
<1>4. /\ Len(t) = n + 1 /\ t[n + 1] = e
      /\ \A i \in 1 .. n : t[i] = seqs[i]
  BY <1>1, <1>2, <1>3
<1>5. PICK f \in [1 .. Len(t) -> Seq(S)] : Flattens(f, t)
  BY <1>1, FlattensExists
<1>6. FlattenSeq(t) = f[n + 1]
  <2>1. Len(t) # 0
    BY <1>3, <1>4
  <2> QED BY <1>1, <1>4, <1>5, <2>1, FlattenIs
<1>7. \A i \in 1 .. n + 1 : f[i] = IF i = 1 THEN t[i] ELSE f[i - 1] \o t[i]
  BY <1>4, <1>5 DEF Flattens
<1>8. CASE n = 0
  <2>1. seqs = << >>
    <3>1. seqs \in Seq(T) /\ Len(seqs) = 0
      BY <1>1, <1>3, <1>8
    <3> QED BY <3>1
  <2>2. n + 1 = 1 /\ f[1] = e
    BY <1>4, <1>7, <1>8
  <2>3. << >> \o e = e /\ << >> \in Seq(S)
    OBVIOUS
  <2>4. FlattenSeq(t) = e
    BY <1>6, <2>2
  <2> QED BY <1>2, <2>1, <2>3, <2>4, FlattenEmpty
<1>9. CASE n # 0
  <2> DEFINE g == [i \in 1 .. n |-> f[i]]
  <2>1. Flattens(g, seqs)
    <3>1. ASSUME NEW i \in 1 .. n
          PROVE  g[i] = IF i = 1 THEN seqs[i] ELSE g[i - 1] \o seqs[i]
      <4>1. f[i] = IF i = 1 THEN t[i] ELSE f[i - 1] \o t[i]
        BY <1>7
      <4>2. t[i] = seqs[i] /\ g[i] = f[i]
        BY <1>4
      <4>3. i # 1 => g[i - 1] = f[i - 1]
        OBVIOUS
      <4> QED BY <4>1, <4>2, <4>3
    <3>2. g = [i \in 1 .. n |-> g[i]]
      OBVIOUS
    <3> HIDE DEF g
    <3> QED BY <1>3, <3>1, <3>2 DEF Flattens
  <2>2. n \in 1 .. n /\ g[n] = f[n]
    BY <1>9
  <2>3. FlattenSeq(seqs) = f[n]
    <3> HIDE DEF g
    <3> QED BY <1>3, <1>9, <2>1, <2>2, FlattenIs
  <2>4. f[n + 1] = f[n] \o e
    <3>1. PICK i \in 1 .. n + 1 : i = n + 1 /\ i # 1 /\ i - 1 = n
      BY <1>9
    <3>2. f[i] = f[i - 1] \o t[i]
      BY <1>7, <3>1
    <3> QED BY <1>4, <3>1, <3>2
  <2>5. f[n] \in Seq(S)
    <3>1. n \in 1 .. Len(t)
      BY <1>4, <1>9
    <3> QED BY <1>5, <3>1
  <2> QED BY <1>2, <1>6, <2>3, <2>4, <2>5
<1> QED BY <1>8, <1>9

-----------------------------------------------------------------------------
(* Paths: every part replaced by a sequence of parts. *)

Rules == [Part -> Seq(Part)]
Replace(p, rule) == FlattenSeq([n \in DOMAIN p |-> rule[p[n]]])

\* A path that is longer by a part is replaced by what the parts before and
\* that part are replaced by.
LEMMA ReplaceAppend ==
    ASSUME NEW rule \in Rules, NEW p \in Seq(Part), NEW x \in Part
    PROVE  /\ Replace(<< >>, rule) = << >>
           /\ Replace(p, rule) \in Seq(Part)
           /\ Replace(Append(p, x), rule) = Replace(p, rule) \o rule[x]
<1>1. PICK T : T = Seq(Part)
  OBVIOUS
<1>2. /\ Len(p) \in Nat /\ DOMAIN p = 1 .. Len(p) /\ \A n \in DOMAIN p : p[n] \in Part
      /\ rule \in [Part -> T] /\ rule[x] \in T
  BY <1>1 DEF Rules
<1> DEFINE q == [n \in DOMAIN p |-> rule[p[n]]]
           r == [n \in DOMAIN Append(p, x) |-> rule[Append(p, x)[n]]]
<1>3. q \in Seq(T) /\ Len(q) = Len(p) /\ \A n \in 1 .. Len(p) : q[n] = rule[p[n]]
  <2>1. \A n \in 1 .. Len(p) : rule[p[n]] \in T
    BY <1>2
  <2>2. q = [n \in 1 .. Len(p) |-> rule[p[n]]]
    BY <1>2
  <2> QED BY <1>2, <2>1, <2>2
<1>4. /\ DOMAIN Append(p, x) = 1 .. Len(p) + 1
      /\ Append(p, x)[Len(p) + 1] = x
      /\ \A n \in 1 .. Len(p) : Append(p, x)[n] = p[n]
  OBVIOUS
<1>5. r \in Seq(T) /\ Len(r) = Len(p) + 1 /\ r[Len(p) + 1] = rule[x]
      /\ \A n \in 1 .. Len(p) : r[n] = rule[p[n]]
  <2>1. \A n \in 1 .. Len(p) + 1 : rule[Append(p, x)[n]] \in T
    BY <1>2, <1>4
  <2>2. r = [n \in 1 .. Len(p) + 1 |-> rule[Append(p, x)[n]]]
    BY <1>4
  <2>3. r \in Seq(T) /\ Len(r) = Len(p) + 1
    BY <1>2, <2>1, <2>2
  <2>4. Len(p) + 1 \in 1 .. Len(p) + 1 /\ \A n \in 1 .. Len(p) : n \in 1 .. Len(p) + 1
    BY <1>2
  <2> QED BY <1>4, <2>2, <2>3, <2>4
<1>6. r = Append(q, rule[x])
  <2> HIDE DEF q, r
  <2>1. /\ Append(q, rule[x]) \in Seq(T) /\ Len(Append(q, rule[x])) = Len(p) + 1
        /\ \A n \in 1 .. Len(p) + 1 : Append(q, rule[x])[n] = r[n]
    BY <1>2, <1>3, <1>5
  <2> QED BY <1>5, <2>1, SeqEqual
<1>7. FlattenSeq(q) \in Seq(Part) /\ FlattenSeq(Append(q, rule[x])) = FlattenSeq(q) \o rule[x]
  <2> HIDE DEF q, r
  <2> QED BY <1>1, <1>2, <1>3, FlattenAppend
<1>8. Replace(<< >>, rule) = << >>
  <2>1. [n \in DOMAIN << >> |-> rule[<< >>[n]]] = << >>
    OBVIOUS
  <2> QED BY <2>1, FlattenEmpty DEF Replace
<1> QED BY <1>6, <1>7, <1>8 DEF Replace

\* A part alone is replaced by what the rule says.
LEMMA ReplacePart ==
    ASSUME NEW rule \in Rules, NEW x \in Part
    PROVE  Replace(<<x>>, rule) = rule[x]
<1>1. << >> \in Seq(Part) /\ Append(<< >>, x) = <<x>> /\ rule[x] \in Seq(Part)
  BY DEF Rules
<1>2. Replace(<<x>>, rule) = << >> \o rule[x]
  BY <1>1, ReplaceAppend
<1> QED BY <1>1, <1>2

\* Three sequences in a row, whichever two are joined first.
LEMMA ConcatThree ==
    ASSUME NEW S, NEW a \in Seq(S), NEW b \in Seq(S), NEW c \in Seq(S)
    PROVE  (a \o b) \o c = a \o (b \o c)
<1> DEFINE l == (a \o b) \o c
           r == a \o (b \o c)
<1>1. /\ l \in Seq(S) /\ r \in Seq(S)
      /\ Len(l) = Len(a) + Len(b) + Len(c)
      /\ Len(r) = Len(a) + Len(b) + Len(c)
  OBVIOUS
<1>2. \A i \in 1 .. Len(l) : l[i] = r[i]
  BY <1>1
<1> HIDE DEF l, r
<1>3. l = r
  BY <1>1, <1>2, SeqEqual
<1> QED BY <1>3 DEF l, r

\* Three paths in a row can be read from either end.
Joins(a, b, c) == (a \o b) \o c = a \o (b \o c)

\* All paths can.
LEMMA ConcatParts ==
    \A a, b, c \in Seq(Part) : Joins(a, b, c)
<1> TAKE a \in Seq(Part), b \in Seq(Part), c \in Seq(Part)
<1> QED BY ConcatThree DEF Joins

\* Two paths in a row are replaced each.
LEMMA ReplaceConcat ==
    ASSUME NEW rule \in Rules, NEW p \in Seq(Part), NEW q \in Seq(Part)
    PROVE  Replace(p \o q, rule) = Replace(p, rule) \o Replace(q, rule)
<1> DEFINE G == {s \in Seq(Part) : Replace(p \o s, rule) = Replace(p, rule) \o Replace(s, rule)}
<1>1. << >> \in G
  <2>1. << >> \in Seq(Part) /\ p \o << >> = p /\ Text \in Part
    BY DEF Part
  <2>2. Replace(p, rule) \in Seq(Part) /\ Replace(<< >>, rule) = << >>
    BY <2>1, ReplaceAppend
  <2>3. Replace(p, rule) \o << >> = Replace(p, rule)
    BY <2>2
  <2> QED BY <2>1, <2>2, <2>3
<1>2. ASSUME NEW s \in Seq(Part), NEW e \in Part, s \in G PROVE Append(s, e) \in G
  <2>1. p \o Append(s, e) = Append(p \o s, e) /\ p \o s \in Seq(Part) /\ Append(s, e) \in Seq(Part)
    <3>1. /\ p \o Append(s, e) \in Seq(Part) /\ Append(p \o s, e) \in Seq(Part)
          /\ Append(s, e) \in Seq(Part) /\ p \o s \in Seq(Part)
          /\ Len(p \o Append(s, e)) = Len(p) + Len(s) + 1
          /\ Len(Append(p \o s, e)) = Len(p) + Len(s) + 1
      OBVIOUS
    <3>2. \A n \in 1 .. Len(p) + Len(s) + 1 : (p \o Append(s, e))[n] = Append(p \o s, e)[n]
      OBVIOUS
    <3> QED BY <3>1, <3>2, SeqEqual
  <2>2. /\ Replace(Append(p \o s, e), rule) = Replace(p \o s, rule) \o rule[e]
        /\ Replace(Append(s, e), rule) = Replace(s, rule) \o rule[e]
        /\ Replace(p, rule) \in Seq(Part) /\ Replace(s, rule) \in Seq(Part)
    BY <2>1, ReplaceAppend
  <2>3. rule[e] \in Seq(Part)
    BY DEF Rules
  <2>4. (Replace(p, rule) \o Replace(s, rule)) \o rule[e]
           = Replace(p, rule) \o (Replace(s, rule) \o rule[e])
    <3>1. PICK a \in Seq(Part), b \in Seq(Part), c \in Seq(Part) :
             a = Replace(p, rule) /\ b = Replace(s, rule) /\ c = rule[e]
      BY <2>2, <2>3
    <3>2. Joins(a, b, c)
      BY ConcatParts
    <3> QED BY <3>1, <3>2 DEF Joins
  <2> QED BY <1>2, <2>1, <2>2, <2>4
<1>3. Seq(Part) \subseteq G
  <2> HIDE DEF G
  <2> QED BY <1>1, <1>2, SequencesAreIn
<1> QED BY <1>3

\* A path without a part that the rule changes stays as it is.
LEMMA ReplaceNone ==
    ASSUME NEW rule \in Rules, NEW p \in Seq(Part), \A n \in DOMAIN p : rule[p[n]] = <<p[n]>>
    PROVE  Replace(p, rule) = p
<1> DEFINE G == {s \in Seq(Part) : (\A n \in DOMAIN s : rule[s[n]] = <<s[n]>>) => Replace(s, rule) = s}
<1>1. << >> \in G
  <2>1. Text \in Part /\ << >> \in Seq(Part)
    BY DEF Part
  <2> QED BY <2>1, ReplaceAppend
<1>2. ASSUME NEW s \in Seq(Part), NEW e \in Part, s \in G PROVE Append(s, e) \in G
  <2>1. /\ Append(s, e) \in Seq(Part) /\ Len(s) \in Nat
        /\ DOMAIN Append(s, e) = 1 .. Len(s) + 1 /\ DOMAIN s = 1 .. Len(s)
        /\ Append(s, e)[Len(s) + 1] = e
        /\ \A n \in DOMAIN s : Append(s, e)[n] = s[n] /\ n \in 1 .. Len(s) + 1
        /\ s \o <<e>> = Append(s, e)
    <3>1. s \o <<e>> = Append(s, e)
      BY AppendIsConcat
    <3> QED BY <3>1
  <2> SUFFICES ASSUME \A n \in DOMAIN Append(s, e) : rule[Append(s, e)[n]] = <<Append(s, e)[n]>>
               PROVE  Replace(Append(s, e), rule) = Append(s, e)
    BY <2>1
  <2>2. rule[e] = <<e>>
    <3>1. Len(s) + 1 \in DOMAIN Append(s, e)
      BY <2>1
    <3> QED BY <2>1, <3>1
  <2>3. \A n \in DOMAIN s : rule[s[n]] = <<s[n]>>
    BY <2>1
  <2>4. Replace(Append(s, e), rule) = Replace(s, rule) \o rule[e]
    BY ReplaceAppend
  <2>5. Replace(s, rule) = s
    BY <1>2, <2>3
  <2> QED BY <2>1, <2>2, <2>4, <2>5
<1>3. Seq(Part) \subseteq G
  <2> HIDE DEF G
  <2> QED BY <1>1, <1>2, SequencesAreIn
<1> QED BY <1>3

\* Two rules one after the other are one rule.
LEMMA ReplaceTwice ==
    ASSUME NEW first \in Rules, NEW second \in Rules, NEW both \in Rules,
           \A x \in Part : Replace(first[x], second) = both[x],
           NEW p \in Seq(Part)
    PROVE  Replace(Replace(p, first), second) = Replace(p, both)
<1> DEFINE G == {s \in Seq(Part) : Replace(Replace(s, first), second) = Replace(s, both)}
<1>1. << >> \in G
  <2>1. Text \in Part /\ << >> \in Seq(Part)
    BY DEF Part
  <2> QED BY <2>1, ReplaceAppend
<1>2. ASSUME NEW s \in Seq(Part), NEW e \in Part, s \in G PROVE Append(s, e) \in G
  <2>1. Append(s, e) \in Seq(Part) /\ first[e] \in Seq(Part)
    BY DEF Rules
  <2>2. /\ Replace(Append(s, e), first) = Replace(s, first) \o first[e]
        /\ Replace(Append(s, e), both) = Replace(s, both) \o both[e]
        /\ Replace(s, first) \in Seq(Part)
    BY ReplaceAppend
  <2>3. Replace(Replace(s, first) \o first[e], second)
           = Replace(Replace(s, first), second) \o Replace(first[e], second)
    BY <2>1, <2>2, ReplaceConcat
  <2> QED BY <1>2, <2>1, <2>2, <2>3
<1>3. Seq(Part) \subseteq G
  <2> HIDE DEF G
  <2> QED BY <1>1, <1>2, SequencesAreIn
<1> QED BY <1>3

-----------------------------------------------------------------------------
(* The invariant. *)

\* The rule of one step of the loop, and that of the parameters D at once.
FillRule(key, value) == [x \in Part |-> IF x = Hole(key) THEN PathEscape(value) ELSE <<x>>]
GivenRule(given, D) ==
    [x \in Part |-> IF x.kind = "hole" /\ x.key \in D THEN PathEscape(given[x.key]) ELSE <<x>>]

ParametersFit(given) ==
    DOMAIN given \subseteq Keys /\ \A k \in DOMAIN given : given[k] \in Seq(Part)

RequestInv ==
    /\ template \in Seq(Part)
    /\ ParametersFit(params)
    /\ todo \subseteq DOMAIN params

\* The loop has replaced the placeholders of the parameters that it visited,
\* as if it had replaced them at once in the template.
PathInv ==
    pc \notin {"idle", "returned"} =>
        /\ path = Replace(template, GivenRule(params, DOMAIN params \ todo))
        /\ pc # "path" => todo = {}

\* The Response is as it was at first until the request returns.
ResponseInv ==
    /\ pc \in {"idle", "path", "body", "headers", "send", "read", "decode", "returned"}
    /\ pc # "returned" => statusCode = 0 /\ decoded = "zero" /\ error = "nil"
    /\ pc \notin {"decode", "returned"} => answer = "none"
    /\ pc \in {"read", "decode"} => status \in Statuses
    /\ pc = "decode" => answer \in {"empty", "fits", "other", "garbage"}
    /\ OutcomeIsTold

HttpInv == RequestInv /\ PathInv /\ ResponseInv

-----------------------------------------------------------------------------
(* The loop over the parameters. *)

\* A value whose braces are encoded is a path without placeholders.
LEMMA EscapeFacts ==
    ASSUME NEW value \in Seq(Part)
    PROVE  /\ PathEscape(value) \in Seq(Part)
           /\ \A n \in DOMAIN PathEscape(value) : PathEscape(value)[n].kind # "hole"
<1>1. Len(value) \in Nat /\ DOMAIN value = 1 .. Len(value)
  OBVIOUS
<1> DEFINE e(n) == IF value[n].kind = "hole" THEN Encoded(value[n].key) ELSE value[n]
<1>2. ASSUME NEW n \in 1 .. Len(value)
      PROVE  e(n) \in Part /\ e(n).kind # "hole"
  <2>1. value[n] \in Part
    OBVIOUS
  <2>2. CASE value[n].kind = "hole"
    <3>1. PICK k \in Keys : value[n] = Hole(k)
      BY <2>1, <2>2 DEF Part, Text, Encoded, Hole
    <3> QED BY <2>2, <3>1 DEF Part, Hole, Encoded
  <2>3. CASE value[n].kind # "hole"
    BY <2>1, <2>3
  <2> QED BY <2>2, <2>3
<1>3. PathEscape(value) = [n \in 1 .. Len(value) |-> e(n)]
  BY <1>1 DEF PathEscape
<1> HIDE DEF e
<1>4. [n \in 1 .. Len(value) |-> e(n)] \in Seq(Part)
  BY <1>1, <1>2
<1> QED BY <1>2, <1>3, <1>4

\* The rules replace parts by paths.
LEMMA RuleFacts ==
    ASSUME NEW given, ParametersFit(given), NEW D, D \subseteq DOMAIN given
    PROVE  /\ GivenRule(given, D) \in Rules
           /\ \A k \in DOMAIN given : FillRule(k, given[k]) \in Rules
<1>1. \A k \in DOMAIN given : PathEscape(given[k]) \in Seq(Part)
  BY EscapeFacts DEF ParametersFit
<1>2. \A x \in Part : <<x>> \in Seq(Part)
  OBVIOUS
<1>3. PICK T : T = Seq(Part)
  OBVIOUS
<1>4. GivenRule(given, D) \in [Part -> T]
  BY <1>1, <1>2, <1>3 DEF GivenRule
<1>5. \A k \in DOMAIN given : FillRule(k, given[k]) \in [Part -> T]
  BY <1>1, <1>2, <1>3 DEF FillRule
<1> QED BY <1>3, <1>4, <1>5 DEF Rules

\* Filled is the rule of one parameter.
LEMMA FilledIs ==
    ASSUME NEW p \in Seq(Part), NEW key, NEW value
    PROVE  Filled(p, key, value) = Replace(p, FillRule(key, value))
<1>1. \A n \in DOMAIN p : p[n] \in Part
  OBVIOUS
<1>2. [n \in DOMAIN p |-> IF p[n] = Hole(key) THEN PathEscape(value) ELSE <<p[n]>>]
         = [n \in DOMAIN p |-> FillRule(key, value)[p[n]]]
  BY <1>1 DEF FillRule
<1> QED BY <1>2 DEF Filled, Replace

\* One step of the loop: the values that were put into the path before have no
\* placeholder left that it could take for its own.
LEMMA FillInOne ==
    ASSUME NEW given, ParametersFit(given), NEW D, D \subseteq DOMAIN given,
           NEW key \in DOMAIN given, key \notin D, NEW p \in Seq(Part)
    PROVE  Filled(Replace(p, GivenRule(given, D)), key, given[key])
             = Replace(p, GivenRule(given, D \cup {key}))
<1> DEFINE first == GivenRule(given, D)
           second == FillRule(key, given[key])
           both == GivenRule(given, D \cup {key})
<1>1. D \cup {key} \subseteq DOMAIN given
  OBVIOUS
<1>2. first \in Rules /\ second \in Rules /\ both \in Rules
  BY <1>1, RuleFacts
<1>3. ASSUME NEW x \in Part PROVE Replace(first[x], second) = both[x]
  <2>1. CASE x.kind = "hole" /\ x.key \in D
    <3>1. first[x] = PathEscape(given[x.key]) /\ both[x] = PathEscape(given[x.key])
      BY <2>1 DEF GivenRule
    <3>2. given[x.key] \in Seq(Part)
      BY <2>1 DEF ParametersFit
    <3>3. /\ first[x] \in Seq(Part)
          /\ \A n \in DOMAIN first[x] : first[x][n].kind # "hole" /\ first[x][n] \in Part
      <4>1. /\ first[x] \in Seq(Part)
            /\ \A n \in DOMAIN first[x] : first[x][n].kind # "hole"
        BY <3>1, <3>2, EscapeFacts
      <4>2. PICK t \in Seq(Part) : t = first[x]
        BY <4>1
      <4>3. \A n \in DOMAIN t : t[n] \in Part
        OBVIOUS
      <4> QED BY <4>1, <4>2, <4>3
    <3>4. \A n \in DOMAIN first[x] : second[first[x][n]] = <<first[x][n]>>
      BY <3>3 DEF FillRule, Hole
    <3> HIDE DEF first, second, both
    <3> QED BY <1>2, <3>1, <3>3, <3>4, ReplaceNone
  <2>2. CASE ~(x.kind = "hole" /\ x.key \in D)
    <3>1. first[x] = <<x>>
      BY <2>2 DEF GivenRule
    <3>2. second[x] = both[x]
      <4>1. CASE x = Hole(key)
        BY <4>1 DEF FillRule, GivenRule, Hole
      <4>2. CASE x # Hole(key)
        <5>1. ~(x.kind = "hole" /\ x.key = key)
          BY <4>2 DEF Part, Hole, Text, Encoded
        <5> QED BY <2>2, <4>2, <5>1 DEF FillRule, GivenRule
      <4> QED BY <4>1, <4>2
    <3> HIDE DEF first, second, both
    <3> QED BY <1>2, <3>1, <3>2, ReplacePart
  <2> QED BY <2>1, <2>2
<1>4. Replace(p, first) \in Seq(Part)
  <2>1. Text \in Part
    BY DEF Part
  <2> HIDE DEF first
  <2> QED BY <1>2, <2>1, ReplaceAppend
<1>5. Filled(Replace(p, first), key, given[key]) = Replace(Replace(p, first), second)
  <2> HIDE DEF first
  <2> QED BY <1>4, FilledIs
<1>6. Replace(Replace(p, first), second) = Replace(p, both)
  <2> HIDE DEF first, second, both
  <2> QED BY <1>2, <1>3, ReplaceTwice
<1> QED BY <1>5, <1>6

\* Before the loop nothing is replaced.
LEMMA FillInNone ==
    ASSUME NEW given, ParametersFit(given), NEW p \in Seq(Part)
    PROVE  Replace(p, GivenRule(given, {})) = p
<1>1. GivenRule(given, {}) \in Rules
  BY RuleFacts
<1>2. \A n \in DOMAIN p : p[n] \in Part
  OBVIOUS
<1>3. \A n \in DOMAIN p : GivenRule(given, {})[p[n]] = <<p[n]>>
  BY <1>2 DEF GivenRule
<1> QED BY <1>1, <1>3, ReplaceNone

-----------------------------------------------------------------------------
(* The steps of a request. *)

\* No request was made.
LEMMA IdleIsSafe ==
    Idle => HttpInv
<1> SUFFICES ASSUME Idle PROVE HttpInv
  OBVIOUS
<1>1. RequestInv
  <2>1. DOMAIN << >> = {} /\ << >> \in Seq(Part)
    OBVIOUS
  <2> QED BY <2>1 DEF Idle, RequestInv, ParametersFit
<1>2. PathInv
  BY DEF Idle, PathInv
<1>3. ResponseInv
  BY DEF Idle, ResponseInv, OutcomeIsTold
<1> QED BY <1>1, <1>2, <1>3 DEF HttpInv

\* A request begins, with any path and any parameters.
LEMMA DoRequestStep ==
    ASSUME HttpInv, NEW to \in Seq(Part), NEW given, ParametersFit(given),
           NEW b, NEW form, NEW type, DoRequest(to, given, b, form, type)
    PROVE  HttpInv'
<1>1. /\ template' = to /\ params' = given /\ path' = to /\ todo' = DOMAIN given
      /\ pc = "idle" /\ pc' = "path"
      /\ UNCHANGED <<status, answer, statusCode, decoded, error>>
  BY DEF DoRequest, response
<1>2. RequestInv'
  BY <1>1 DEF RequestInv, ParametersFit
<1>3. PathInv'
  <2>1. DOMAIN given \ DOMAIN given = {}
    OBVIOUS
  <2>2. (Replace(template, GivenRule(params, DOMAIN params \ todo)))' = Replace(to, GivenRule(given, {}))
    <3>1. DOMAIN params' \ todo' = {}
      BY <1>1, <2>1
    <3>2. (GivenRule(params, DOMAIN params \ todo))' = GivenRule(given, {})
      BY <1>1, <3>1 DEF GivenRule
    <3>3. PICK rule : rule = GivenRule(given, {})
      OBVIOUS
    <3> QED BY <1>1, <3>2, <3>3 DEF Replace
  <2> QED BY <1>1, <2>2, FillInNone DEF PathInv
<1>4. ResponseInv'
  BY <1>1 DEF HttpInv, ResponseInv, OutcomeIsTold
<1> QED BY <1>2, <1>3, <1>4 DEF HttpInv

\* A placeholder is filled in.
LEMMA FillInStep ==
    ASSUME HttpInv, NEW key, FillIn(key)
    PROVE  HttpInv'
<1>1. /\ pc = "path" /\ key \in todo
      /\ todo' = todo \ {key}
      /\ path' = Filled(path, key, params[key])
      /\ UNCHANGED <<template, params, pc, status, answer, statusCode, decoded, error>>
  BY DEF FillIn, request, response
<1>2. RequestInv'
  BY <1>1 DEF HttpInv, RequestInv, ParametersFit
<1>3. PathInv'
  <2> DEFINE D == DOMAIN params \ todo
  <2>1. /\ template \in Seq(Part) /\ ParametersFit(params)
        /\ D \subseteq DOMAIN params /\ key \in DOMAIN params /\ key \notin D
    BY <1>1 DEF HttpInv, RequestInv
  <2>2. path = Replace(template, GivenRule(params, D))
    BY <1>1 DEF HttpInv, PathInv
  <2>3. path' = Replace(template, GivenRule(params, D \cup {key}))
    <3> HIDE DEF D
    <3> QED BY <1>1, <2>1, <2>2, FillInOne
  <2>4. D \cup {key} = DOMAIN params \ (todo \ {key})
    BY <2>1
  <2>5. (Replace(template, GivenRule(params, DOMAIN params \ todo)))'
           = Replace(template, GivenRule(params, D \cup {key}))
    <3>1. PICK E : E = D \cup {key}
      OBVIOUS
    <3>2. DOMAIN params' \ todo' = E
      BY <1>1, <2>4, <3>1
    <3>3. (GivenRule(params, DOMAIN params \ todo))' = GivenRule(params, E)
      <4> HIDE DEF D
      <4> QED BY <1>1, <3>2 DEF GivenRule
    <3>4. PICK rule : rule = GivenRule(params, E)
      OBVIOUS
    <3> HIDE DEF D
    <3> QED BY <1>1, <3>1, <3>3, <3>4 DEF Replace
  <2> QED BY <1>1, <2>3, <2>5 DEF PathInv
<1>4. ResponseInv'
  BY <1>1 DEF HttpInv, ResponseInv, OutcomeIsTold
<1> QED BY <1>2, <1>3, <1>4 DEF HttpInv

\* The path is not touched any more, and not looked at when the request failed.
LEMMA PathStays ==
    ASSUME HttpInv, UNCHANGED <<template, params, path, todo>>,
           pc' # "returned" => /\ pc \notin {"idle", "returned"}
                               /\ (pc = "path" /\ pc' # "path") => todo = {}
    PROVE  RequestInv' /\ PathInv'
<1>1. RequestInv'
  BY DEF HttpInv, RequestInv, ParametersFit
<1>2. (Replace(template, GivenRule(params, DOMAIN params \ todo)))'
         = Replace(template, GivenRule(params, DOMAIN params \ todo))
  BY DEF Replace, GivenRule
<1> QED BY <1>1, <1>2 DEF HttpInv, PathInv

\* Every other step of a request, and its end.
LEMMA RequestStep ==
    ASSUME HttpInv,
           \/ Resolve \/ WriteBody \/ SetHeaders \/ TimesOut \/ ReturnError \/ ReturnBody
           \/ RequestFails \/ Expire \/ Respond \/ ConnectionFails \/ ReadBody
    PROVE  HttpInv'
<1>1. UNCHANGED <<template, params, path, todo>>
  BY DEF Resolve, WriteBody, SetHeaders, TimesOut, ReturnError, ReturnBody, RequestFails, Expire,
         Respond, ConnectionFails, ReadBody, request
<1>2. /\ pc' # "returned" => pc \notin {"idle", "returned"}
      /\ pc = "path" /\ pc' \notin {"path", "returned"} => todo = {}
  BY DEF Resolve, WriteBody, SetHeaders, TimesOut, ReturnError, ReturnBody, RequestFails, Expire,
         Respond, ConnectionFails, ReadBody, Abandon, AllFilled, Covered
<1>3. RequestInv' /\ PathInv'
  BY <1>1, <1>2, PathStays
<1> USE DEF HttpInv, ResponseInv, OutcomeIsTold, response
<1>4. CASE Resolve \/ WriteBody \/ SetHeaders \/ Expire
  <2>1. /\ UNCHANGED <<status, answer, statusCode, decoded, error>>
        /\ \/ pc \in {"path", "body", "headers"} /\ pc' \in {"body", "headers", "send"}
           \/ pc \in {"send", "read"} /\ pc' = pc
    BY <1>4 DEF Resolve, WriteBody, SetHeaders, Expire, Covered
  <2> QED BY <1>3, <2>1
<1>5. CASE TimesOut \/ RequestFails \/ ConnectionFails
  <2>1. /\ UNCHANGED <<status, answer, statusCode, decoded>>
        /\ pc \in {"path", "body", "send", "read"} /\ pc' = "returned" /\ error' = "client"
    BY <1>5 DEF TimesOut, RequestFails, ConnectionFails, Abandon
  <2> QED BY <1>3, <2>1
<1>6. CASE Respond \/ ReadBody
  BY <1>3, <1>6 DEF Respond, ReadBody
<1>7. CASE ReturnError
  <2>1. status \in Nat /\ status >= 400
    <3>1. status \in 100 .. 599
      BY <1>7, ZenonT(30), NumberAssumption DEF ReturnError
    <3> QED BY <1>7, <3>1 DEF ReturnError, IsError
  <2> QED BY <1>3, <1>7, <2>1 DEF ReturnError
<1>8. CASE ReturnBody
  <2>1. status \in 1 .. 399
    BY <1>8, NumberAssumption DEF ReturnBody, IsError
  <2> QED BY <1>3, <1>8, <2>1 DEF ReturnBody, DecodeError
<1> QED BY <1>4, <1>5, <1>6, <1>7, <1>8

\* The Response is forgotten.
LEMMA ForgetStep ==
    Forget => HttpInv'
<1> SUFFICES ASSUME Forget PROVE HttpInv'
  OBVIOUS
<1>1. Idle'
  BY DEF Forget, Idle
<1>2. (Idle => HttpInv)'
  BY IdleIsSafe, PTL
<1> QED BY <1>1, <1>2

\* Nothing happens.
LEMMA StutterStep ==
    HttpInv /\ UNCHANGED vars => HttpInv'
<1> SUFFICES ASSUME HttpInv, UNCHANGED vars PROVE HttpInv'
  OBVIOUS
<1>1. UNCHANGED <<template, params, path, todo, pc, status, answer, statusCode, decoded, error>>
  BY DEF vars, request, response
<1> QED BY <1>1 DEF HttpInv, RequestInv, ParametersFit, PathInv, Replace, GivenRule, ResponseInv,
          OutcomeIsTold

\* No step of a request breaks the invariant.
LEMMA HttpStep ==
    HttpInv /\ [Next]_vars => HttpInv'
<1> SUFFICES ASSUME HttpInv, [Next]_vars PROVE HttpInv'
  OBVIOUS
<1>1. ASSUME NEW to \in Templates, NEW given \in Parameters, NEW b, NEW form, NEW type,
             DoRequest(to, given, b, form, type)
      PROVE  HttpInv'
  <2>1. to \in Seq(Part) /\ ParametersFit(given)
    BY PathAssumption DEF ParametersFit
  <2> QED BY <1>1, <2>1, DoRequestStep
<1> QED BY <1>1, FillInStep, RequestStep, StutterStep DEF Next, ClientStep

\* The path is the template with every placeholder that has a parameter
\* replaced by its value.
LEMMA PathIsFilled ==
    HttpInv => PathIsOrderFree
<1> SUFFICES ASSUME HttpInv, pc \notin {"idle", "path", "returned"}
             PROVE  path = FlattenSeq([n \in DOMAIN template |->
                             IF template[n].kind = "hole" /\ template[n].key \in DOMAIN params
                             THEN PathEscape(params[template[n].key])
                             ELSE <<template[n]>>])
  BY DEF PathIsOrderFree
<1>1. template \in Seq(Part) /\ path = Replace(template, GivenRule(params, DOMAIN params))
  <2>1. todo = {} /\ DOMAIN params \ {} = DOMAIN params
    BY DEF HttpInv, PathInv
  <2> QED BY <2>1 DEF HttpInv, PathInv, RequestInv
<1>2. \A n \in DOMAIN template : template[n] \in Part
  BY <1>1
<1>3. [n \in DOMAIN template |-> GivenRule(params, DOMAIN params)[template[n]]]
        = [n \in DOMAIN template |->
             IF template[n].kind = "hole" /\ template[n].key \in DOMAIN params
             THEN PathEscape(params[template[n].key]) ELSE <<template[n]>>]
  BY <1>2 DEF GivenRule
<1> QED BY <1>1, <1>3 DEF Replace

\* Whatever the order in which the parameters are visited and whatever braces
\* their values contain, the path is what it would be if all placeholders were
\* replaced at once (client.go:25-30).
THEOREM PathsAreOrderFree ==
    Spec => []PathIsOrderFree
BY IdleIsSafe, HttpStep, PathIsFilled, PTL DEF Spec

\* The outcomes of a request can be told apart by its Response
\* (client.go:138-205).
THEOREM OutcomesAreTold ==
    Spec => []OutcomeIsTold
<1>1. HttpInv => OutcomeIsTold
  BY DEF HttpInv, ResponseInv
<1> QED BY <1>1, IdleIsSafe, HttpStep, PTL DEF Spec

-----------------------------------------------------------------------------
(* The methods of the two APIs. *)

\* The names of the methods.
Bodies == {"CreateCapBrand", "CreateCapCategory"}
OfItem == {"GetCapBrand", "DeleteCapBrand", "UpdateBrandStatus", "UpdateCapBrand", "UpdateCapBrandError",
           "GetCapCategory", "DeleteCapCategory", "UpdateCapCategory", "UpdateCapCategoryError",
           "UpdateCapCollectionStatus", "UpdateCapCategoryStatus"}
OfGame == {"GetGames", "UpdateGamesStatus", "UpdateGames"}
OfPlayer == {"UpdateBlockers", "GetBlockers", "CreateBalanceAdjustment", "CreateBlockAmount",
             "GetBlockAmountList", "GetWalletList"}

\* The names in each table.
LEMMA NamesAre ==
    /\ DOMAIN Gambling = Bodies \cup OfItem
    /\ DOMAIN Games = OfGame
    /\ DOMAIN Labels = {"CreateLabel", "GetLabel"}
    /\ DOMAIN Wallets = OfPlayer \cup {"GetPlayerLimits", "DeleteBlockAmount"}
    /\ DOMAIN CapPlayer = {"UpdateVerificationStatus"}
    /\ DOMAIN CheckAdmin = {"CheckAdmin"}
    /\ DOMAIN Limits =  {"SetSingleBetLimit", "SetCasinoLossLimit", "SetRestriction", "SetTurnoverLimit",
                         "GetTurnoverLimits", "GetSingleBetLimits", "GetRestriction", "GetCasinoLossLimits",
                         "UpdateSingleBetLimit", "UpdateRecalculatedLimit"}
    /\ DOMAIN PublicPlayer = {"FastRegistration", "FullRegistration", "TokenCheck", "UpdatePlayer",
               "RequestContactVerification", "ConfirmContact", "VerifyContact", "GetVerificationStatus", "VerifyIdentity"}
    /\ DOMAIN Payment = {"CreateDeposit"}
    /\ DOMAIN PublicWallets = {"GetWallets", "RemoveWallet", "CreateWallet", "SwitchWallet"}
BY DEF Gambling, Bodies, OfItem, Games, OfGame, Wallets, WalletMethods, OfPlayer, CapPlayer, Labels, CheckAdmin, Limits, PublicPlayer, Payment, PublicWallets

\* The parameters that the suites give.
LEMMA GivenAre ==
    /\ \A name \in OfItem \cup OfGame : GivenBySuites(name) = {"id"}
    /\ GivenBySuites("GetLabel") = {"labelUUID"}
    /\ GivenBySuites("GetPlayerLimits") = {"playerID"}
    /\ GivenBySuites("DeleteBlockAmount") = {"block_uuid"}
    /\ \A name \in OfPlayer : GivenBySuites(name) = {"player_uuid"}
    /\ GivenBySuites("UpdateVerificationStatus") = {"verification_id"}
    /\ GivenBySuites("UpdateSingleBetLimit") = {"limitID"}
    /\ GivenBySuites("UpdateRecalculatedLimit") = {"limitID"}
BY NamesAre DEF GivenBySuites, Bodies, OfItem, OfGame, OfPlayer

\* A method has placeholders of its parameters only, and what it appends is one
\* of them.
Parts(keys) == {Text} \cup {Hole(key) : key \in keys}
Suits(m, keys) == m.path \in Seq(Parts(keys)) /\ (m.appends \in keys \/ m.appends = "none")

\* So does every form that a table uses, with one of its keys as the parameter.
LEMMA FormsSuit ==
    ASSUME NEW keys
    PROVE  /\ Suits(Body(<<Text>>), keys) /\ Suits(Bare(<<Text>>), keys)
           /\ Suits(Method(<<Text>>, "none", "form"), keys)
           /\ \A key \in keys :
                /\ Suits(Bare(By(key)), keys) /\ Suits(Body(By(key)), keys)
                /\ Suits(Bare(Of(key)), keys) /\ Suits(Body(Of(key)), keys)
                /\ Suits(Formatted(key), keys)
<1> DEFINE S == Parts(keys)
<1>1. Text \in S /\ \A key \in keys : Hole(key) \in S
  BY DEF Parts
<1>2. PICK t : t = Text
  OBVIOUS
<1>3. ASSUME NEW key \in keys PROVE By(key) \in Seq(S) /\ Of(key) \in Seq(S)
  <2>1. PICK h : h = Hole(key)
    OBVIOUS
  <2>2. t \in S /\ h \in S
    BY <1>1, <1>2, <1>3, <2>1
  <2>3. <<t, h>> \in Seq(S) /\ <<t, h, t>> \in Seq(S)
    <3> HIDE DEF S
    <3> QED BY <2>2
  <2> QED BY <1>2, <2>1, <2>3 DEF By, Of
<1>4. <<Text>> \in Seq(S)
  <2> HIDE DEF S
  <2> QED BY <1>1
<1> HIDE DEF S
<1> QED BY <1>3, <1>4 DEF Suits, Body, Bare, Method, Formatted, S


\* So do those of every table.
Suit(table) == \A name \in DOMAIN table : Suits(table[name], GivenBySuites(name))

\* The methods of brands, categories and collections suit.
LEMMA GamblingSuits == Suit(Gambling)
<1>1. ASSUME NEW name \in OfItem PROVE Suits(Gambling[name], GivenBySuites(name))
  <2>1. \/ Gambling[name] = Bare(By("id")) \/ Gambling[name] = Body(By("id"))
        \/ Gambling[name] = Body(Of("id"))
    BY DEF Gambling, OfItem
  <2>2. GivenBySuites(name) = {"id"}
    BY GivenAre
  <2> QED BY <2>1, <2>2, FormsSuit
<1>2. ASSUME NEW name \in Bodies PROVE Suits(Gambling[name], GivenBySuites(name))
  <2>1. Gambling[name] = Body(<<Text>>)
    BY DEF Gambling, Bodies
  <2> QED BY <2>1, FormsSuit
<1> QED BY <1>1, <1>2, NamesAre DEF Suit

\* Those of games and labels suit.
LEMMA GamesSuit == Suit(Games) /\ Suit(Labels)
<1>1. ASSUME NEW name \in OfGame PROVE Suits(Games[name], GivenBySuites(name))
  <2>1. Games[name] = Bare(By("id")) \/ Games[name] = Body(By("id"))
    BY DEF Games, OfGame
  <2>2. GivenBySuites(name) = {"id"}
    BY GivenAre
  <2> QED BY <2>1, <2>2, FormsSuit
<1>2. Labels["CreateLabel"] = Body(<<Text>>) /\ Labels["GetLabel"] = Bare(By("labelUUID"))
  BY DEF Labels
<1> QED BY <1>1, <1>2, NamesAre, GivenAre, FormsSuit DEF Suit

\* Those of wallets and players suit.
LEMMA WalletsSuit == Suit(Wallets) /\ Suit(CapPlayer) /\ Suit(CheckAdmin)
<1>1. ASSUME NEW name \in OfPlayer PROVE Suits(Wallets[name], GivenBySuites(name))
  <2>1. Wallets[name] = Bare(Of("player_uuid")) \/ Wallets[name] = Body(Of("player_uuid"))
    BY DEF Wallets, WalletMethods, OfPlayer
  <2>2. GivenBySuites(name) = {"player_uuid"}
    BY GivenAre
  <2> QED BY <2>1, <2>2, FormsSuit
<1>2. /\ Wallets["GetPlayerLimits"] = Bare(Of("playerID"))
      /\ Wallets["DeleteBlockAmount"] = Bare(By("block_uuid"))
  BY DEF Wallets, WalletMethods
<1>3. /\ Suits(Wallets["GetPlayerLimits"], GivenBySuites("GetPlayerLimits"))
      /\ Suits(Wallets["DeleteBlockAmount"], GivenBySuites("DeleteBlockAmount"))
  BY <1>2, GivenAre, FormsSuit
<1>4. /\ CapPlayer["UpdateVerificationStatus"] = Formatted("verification_id")
      /\ CheckAdmin["CheckAdmin"] = Body(<<Text>>)
  BY DEF CapPlayer, CheckAdmin
<1>5. /\ Suits(CapPlayer["UpdateVerificationStatus"], GivenBySuites("UpdateVerificationStatus"))
      /\ Suits(CheckAdmin["CheckAdmin"], GivenBySuites("CheckAdmin"))
  <2>1. GivenBySuites("UpdateVerificationStatus") = {"verification_id"}
    BY GivenAre
  <2> QED BY <1>4, <2>1, FormsSuit
<1> QED BY <1>1, <1>3, <1>5, NamesAre DEF Suit

\* Those of the public API suit.
LEMMA PublicSuit == Suit(Limits) /\ Suit(PublicPlayer) /\ Suit(Payment) /\ Suit(PublicWallets)
<1>1. ASSUME NEW name \in DOMAIN Limits PROVE Suits(Limits[name], GivenBySuites(name))
  <2>1. CASE name \in {"UpdateSingleBetLimit", "UpdateRecalculatedLimit"}
    <3>1. Limits[name] = Formatted("limitID") /\ GivenBySuites(name) = {"limitID"}
      BY <2>1, GivenAre DEF Limits
    <3> QED BY <3>1, FormsSuit
  <2>2. CASE name \notin {"UpdateSingleBetLimit", "UpdateRecalculatedLimit"}
    <3>1. Limits[name] = Body(<<Text>>) \/ Limits[name] = Bare(<<Text>>)
      BY <2>2 DEF Limits
    <3> QED BY <3>1, FormsSuit
  <2> QED BY <2>1, <2>2
<1>2. ASSUME NEW name \in DOMAIN PublicPlayer
      PROVE  Suits(PublicPlayer[name], GivenBySuites(name))
  <2>1. \/ PublicPlayer[name] = Body(<<Text>>) \/ PublicPlayer[name] = Bare(<<Text>>)
        \/ PublicPlayer[name] = Method(<<Text>>, "none", "form")
    BY <1>2 DEF PublicPlayer
  <2> QED BY <2>1, FormsSuit
<1>3. Payment["CreateDeposit"] = Body(<<Text>>)
  BY DEF Payment
<1>4. ASSUME NEW name \in DOMAIN PublicWallets
      PROVE  Suits(PublicWallets[name], GivenBySuites(name))
  <2>1. PublicWallets[name] = Body(<<Text>>) \/ PublicWallets[name] = Bare(<<Text>>)
    BY <1>4 DEF PublicWallets
  <2> QED BY <2>1, FormsSuit
<1> QED BY <1>1, <1>2, <1>3, <1>4, NamesAre, FormsSuit DEF Suit

\* Every method suits.
LEMMA MethodsSuit ==
    /\ \A name \in DOMAIN Methods : Suits(Methods[name], GivenBySuites(name))
    /\ DOMAIN Gambling \cup DOMAIN Games \cup DOMAIN Labels \subseteq DOMAIN Methods
<1> DEFINE tables == {Gambling, Games, Labels, Wallets, CapPlayer, CheckAdmin,
                      Limits, PublicPlayer, Payment, PublicWallets}
<1>1. \A table \in tables : Suit(table)
  BY GamblingSuits, GamesSuit, WalletsSuit, PublicSuit
<1>2. Gambling \in tables /\ Games \in tables /\ Labels \in tables
  OBVIOUS
<1>3. Methods = [name \in UNION {DOMAIN table : table \in tables} |->
                    (CHOOSE table \in tables : name \in DOMAIN table)[name]]
  BY DEF Methods
<1> HIDE DEF tables
<1>4. DOMAIN Methods = UNION {DOMAIN table : table \in tables}
  BY <1>3
<1>5. ASSUME NEW name \in DOMAIN Methods PROVE Suits(Methods[name], GivenBySuites(name))
  <2>1. \E table \in tables : name \in DOMAIN table
    BY <1>4, <1>5
  <2>2. PICK table \in tables : name \in DOMAIN table /\ Methods[name] = table[name]
    BY <1>3, <1>4, <1>5, <2>1
  <2> QED BY <1>1, <2>2 DEF Suit
<1> QED BY <1>2, <1>4, <1>5

\* The methods that the programs call.
LEMMA ProgramsCall ==
    {"CreateCapBrand", "GetCapBrand", "DeleteCapBrand", "UpdateBrandStatus", "UpdateCapBrand",
     "CreateCapCategory", "GetCapCategory", "DeleteCapCategory", "UpdateCapCategory",
     "UpdateCapCategoryStatus", "GetGames", "UpdateGames", "CreateLabel", "GetLabel"}
        \subseteq DOMAIN Methods
BY MethodsSuit, NamesAre DEF Bodies, OfItem, OfGame

\* A call of a method by the suites has a path of texts and placeholders of
\* its parameters.
LEMMA CallSuits ==
    ASSUME NEW name \in DOMAIN Methods, NEW value \in Seq({Text}),
           Call(name, [key \in GivenBySuites(name) |-> value])
    PROVE  LET given == [key \in GivenBySuites(name) |-> value]
           IN  \E to \in Seq(Parts(DOMAIN given)), b, form \in BOOLEAN :
                  DoRequest(to, given, b, form, "none")
<1> DEFINE given == [key \in GivenBySuites(name) |-> value]
           m == Methods[name]
<1>1. Suits(m, GivenBySuites(name)) /\ DOMAIN given = GivenBySuites(name)
  BY MethodsSuit
<1>2. Seq({Text}) \subseteq Seq(Parts(DOMAIN given))
  BY DEF Parts
<1>3. Appended(m.appends, given) \in Seq(Parts(DOMAIN given))
  <2>1. CASE m.appends \in DOMAIN given
    BY <1>2, <2>1 DEF Appended
  <2>2. CASE m.appends \notin DOMAIN given
    BY <2>2 DEF Appended
  <2> QED BY <2>1, <2>2
<1>4. m.path \o Appended(m.appends, given) \in Seq(Parts(DOMAIN given))
  BY <1>1, <1>3, ConcatProperties DEF Suits
<1>5. (m.sends # "nothing") \in BOOLEAN /\ (m.sends = "form") \in BOOLEAN
  OBVIOUS
<1> HIDE DEF m, given
<1> QED BY <1>4, <1>5 DEF Call, m, given

-----------------------------------------------------------------------------
(* What the programs of the tests have in common. *)

\* A step that sends a request, one that does something to the item, and what
\* the item is once it has.  A game that is picked is there already.
Sends(step) == step.does \in {"create", "change", "get", "delete"}
Acts(step) == step.does \in {"create", "pick", "change", "delete"}
Effect(step) ==
    CASE step.does = "delete" -> "deleted" [] step.does = "change" -> step.to [] OTHER -> "made"

\* The step after which the item stays as it is: one that deletes it or, in a
\* program without such a step, any that creates or changes it.
Deletes(P) == \E k \in DOMAIN P : P[k].does = "delete"
Seals(P, k) == P[k].does = "delete" \/ (P[k].does \in {"create", "change"} /\ ~Deletes(P))

\* Each step is one of these.
HasShape(P) ==
    \A k \in DOMAIN P :
        /\ P[k].does \in {"create", "pick", "change", "get", "delete", "row", "absent", "message"}
        /\ P[k].method # "none" <=> Sends(P[k])
        /\ Sends(P[k]) => P[k].method \in DOMAIN Methods
        /\ P[k].does \in {"create", "get"} => GoodStatus(P[k]) = 200
        /\ IF P[k].does = "change" THEN P[k].to \in Live ELSE P[k].to = "none"
        /\ P[k].check = "id" => P[k].does = "create"
        /\ Acts(P[k]) => ~P[k].async

\* The first step makes or picks the item, and no other does.
MakesFirst(P) == \A k \in DOMAIN P : P[k].does \in {"create", "pick"} <=> k = 1

\* A request after the first is for an item that is there, and in the state
\* that it is compared with; nothing is done to the item beside or after an
\* asynchronous one.
Before(P, j, k) == j < k /\ Acts(P[j]) /\ \A l \in DOMAIN P : j < l /\ l < k => ~Acts(P[l])
FollowsItem(P) ==
    \A k \in DOMAIN P : Sends(P[k]) /\ k # 1 =>
        /\ \E j \in DOMAIN P :
              /\ Before(P, j, k)
              /\ Effect(P[j]) \in Live
              /\ P[k].does = "get" /\ P[k].check = "assert" => Effect(P[j]) \in P[k].fits
        /\ P[k].async => \A l \in DOMAIN P : Acts(P[l]) => l < k

\* The item has one last state, and the test looks whether it has come to it.
SealsOnce(P) ==
    /\ \E k \in DOMAIN P : Seals(P, k)
    /\ \A k \in DOMAIN P : Seals(P, k) => P[k].check \notin {"none", "id"}
    /\ \A k, l \in DOMAIN P : Seals(P, k) /\ Seals(P, l) => Effect(P[k]) = Effect(P[l])

WellFormed(name) ==
    LET P == Program[name]
    IN  /\ Len(P) \in Nat \ {0} /\ DOMAIN P = 1 .. Len(P)
        /\ HasShape(P) /\ MakesFirst(P) /\ FollowsItem(P) /\ SealsOnce(P)
        /\ P[1].does = "pick" <=> name \in OfGames

\* The parts of a step that the program tells apart.
Is(step, does, method, check, to, async) ==
    /\ step.does = does /\ step.method = method /\ step.check = check
    /\ step.to = to /\ step.async = async

\* DeleteBrand is well formed.
LEMMA DeleteBrandFits == WellFormed("deleteBrand")
<1> DEFINE P == DeleteBrand
<1>1. Program["deleteBrand"] = P /\ Len(P) = 4 /\ DOMAIN P = 1 .. 4
  BY DEF Program, DeleteBrand
<1>2. /\ Is(P[1], "create", "CreateCapBrand", "id", "none", FALSE)
      /\ Is(P[2], "row", "none", "require", "none", TRUE)
      /\ Is(P[3], "delete", "DeleteCapBrand", "assert", "none", FALSE)
      /\ Is(P[4], "row", "none", "require", "none", TRUE)
  BY DEF Is, Async, BrandRow, Create, Delete, DeleteBrand, Retried, Row, Step
<1> HIDE DEF P
<1>4. HasShape(P)
  BY <1>1, <1>2, ProgramsCall DEF Is, HasShape, Sends, Acts, GoodStatus, Live
<1>5. MakesFirst(P) /\ P[1].does = "create"
  BY <1>1, <1>2 DEF Is, MakesFirst
<1>6. Before(P, 1, 3)
  BY <1>1, <1>2 DEF Is, Before, Acts
<1>7. /\ Effect(P[1]) = "made"
      /\ Effect(P[3]) = "deleted"
  BY <1>2 DEF Is, Effect
<1>8. FollowsItem(P)
  BY <1>1, <1>2, <1>6, <1>7 DEF Is, FollowsItem, Sends, Acts, Live
<1>9. SealsOnce(P)
  BY <1>1, <1>2, <1>7 DEF Is, SealsOnce, Seals, Deletes
<1> QED BY <1>1, <1>4, <1>5, <1>8, <1>9 DEF WellFormed, OfGames

\* CreateBrand is well formed.
LEMMA CreateBrandFits == WellFormed("createBrand")
<1> DEFINE P == CreateBrand
<1>1. Program["createBrand"] = P /\ Len(P) = 3 /\ DOMAIN P = 1 .. 3
  BY DEF Program, CreateBrand
<1>2. /\ Is(P[1], "create", "CreateCapBrand", "none", "none", FALSE)
      /\ Is(P[2], "row", "none", "require", "none", FALSE)
      /\ Is(P[3], "delete", "DeleteCapBrand", "assert", "none", FALSE)
  BY DEF Is, BrandRow, Create, CreateBrand, Delete, Retried, Row, Step
<1> HIDE DEF P
<1>4. HasShape(P)
  BY <1>1, <1>2, ProgramsCall DEF Is, HasShape, Sends, Acts, GoodStatus, Live
<1>5. MakesFirst(P) /\ P[1].does = "create"
  BY <1>1, <1>2 DEF Is, MakesFirst
<1>6. Before(P, 1, 3)
  BY <1>1, <1>2 DEF Is, Before, Acts
<1>7. /\ Effect(P[1]) = "made"
      /\ Effect(P[3]) = "deleted"
  BY <1>2 DEF Is, Effect
<1>8. FollowsItem(P)
  BY <1>1, <1>2, <1>6, <1>7 DEF Is, FollowsItem, Sends, Acts, Live
<1>9. SealsOnce(P)
  BY <1>1, <1>2, <1>7 DEF Is, SealsOnce, Seals, Deletes
<1> QED BY <1>1, <1>4, <1>5, <1>8, <1>9 DEF WellFormed, OfGames

\* RussianBrand is well formed.
LEMMA RussianBrandFits == WellFormed("russianBrand")
<1> DEFINE P == RussianBrand
<1>1. Program["russianBrand"] = P /\ Len(P) = 3 /\ DOMAIN P = 1 .. 3
  BY DEF Program, RussianBrand
<1>2. /\ Is(P[1], "create", "CreateCapBrand", "status", "none", FALSE)
      /\ Is(P[2], "row", "none", "require", "none", FALSE)
      /\ Is(P[3], "delete", "DeleteCapBrand", "assert", "none", FALSE)
  BY DEF Is, BrandRow, Create, Delete, Retried, Row, RussianBrand, Step
<1> HIDE DEF P
<1>4. HasShape(P)
  BY <1>1, <1>2, ProgramsCall DEF Is, HasShape, Sends, Acts, GoodStatus, Live
<1>5. MakesFirst(P) /\ P[1].does = "create"
  BY <1>1, <1>2 DEF Is, MakesFirst
<1>6. Before(P, 1, 3)
  BY <1>1, <1>2 DEF Is, Before, Acts
<1>7. /\ Effect(P[1]) = "made"
      /\ Effect(P[3]) = "deleted"
  BY <1>2 DEF Is, Effect
<1>8. FollowsItem(P)
  BY <1>1, <1>2, <1>6, <1>7 DEF Is, FollowsItem, Sends, Acts, Live
<1>9. SealsOnce(P)
  BY <1>1, <1>2, <1>7 DEF Is, SealsOnce, Seals, Deletes
<1> QED BY <1>1, <1>4, <1>5, <1>8, <1>9 DEF WellFormed, OfGames

\* PositiveBrand is well formed.
LEMMA PositiveBrandFits == WellFormed("positiveBrand")
<1> DEFINE P == PositiveBrand
<1>1. Program["positiveBrand"] = P /\ Len(P) = 3 /\ DOMAIN P = 1 .. 3
  BY DEF Program, PositiveBrand
<1>2. /\ Is(P[1], "create", "CreateCapBrand", "status", "none", FALSE)
      /\ Is(P[2], "row", "none", "assert", "none", FALSE)
      /\ Is(P[3], "delete", "DeleteCapBrand", "assert", "none", FALSE)
  BY DEF Is, BrandRow, Create, Delete, Guarded, PositiveBrand, Retried, Row, Step
<1> HIDE DEF P
<1>4. HasShape(P)
  BY <1>1, <1>2, ProgramsCall DEF Is, HasShape, Sends, Acts, GoodStatus, Live
<1>5. MakesFirst(P) /\ P[1].does = "create"
  BY <1>1, <1>2 DEF Is, MakesFirst
<1>6. Before(P, 1, 3)
  BY <1>1, <1>2 DEF Is, Before, Acts
<1>7. /\ Effect(P[1]) = "made"
      /\ Effect(P[3]) = "deleted"
  BY <1>2 DEF Is, Effect
<1>8. FollowsItem(P)
  BY <1>1, <1>2, <1>6, <1>7 DEF Is, FollowsItem, Sends, Acts, Live
<1>9. SealsOnce(P)
  BY <1>1, <1>2, <1>7 DEF Is, SealsOnce, Seals, Deletes
<1> QED BY <1>1, <1>4, <1>5, <1>8, <1>9 DEF WellFormed, OfGames

\* BrandTable is well formed.
LEMMA BrandTableFits == WellFormed("brandTable")
<1> DEFINE P == BrandTable
<1>1. Program["brandTable"] = P /\ Len(P) = 3 /\ DOMAIN P = 1 .. 3
  BY DEF Program, BrandTable
<1>2. /\ Is(P[1], "create", "CreateCapBrand", "required", "none", FALSE)
      /\ Is(P[2], "row", "none", "assert", "none", FALSE)
      /\ Is(P[3], "delete", "DeleteCapBrand", "assert", "none", FALSE)
  BY DEF Is, BrandRow, BrandTable, Create, Delete, Guarded, Retried, Row, Step
<1> HIDE DEF P
<1>4. HasShape(P)
  BY <1>1, <1>2, ProgramsCall DEF Is, HasShape, Sends, Acts, GoodStatus, Live
<1>5. MakesFirst(P) /\ P[1].does = "create"
  BY <1>1, <1>2 DEF Is, MakesFirst
<1>6. Before(P, 1, 3)
  BY <1>1, <1>2 DEF Is, Before, Acts
<1>7. /\ Effect(P[1]) = "made"
      /\ Effect(P[3]) = "deleted"
  BY <1>2 DEF Is, Effect
<1>8. FollowsItem(P)
  BY <1>1, <1>2, <1>6, <1>7 DEF Is, FollowsItem, Sends, Acts, Live
<1>9. SealsOnce(P)
  BY <1>1, <1>2, <1>7 DEF Is, SealsOnce, Seals, Deletes
<1> QED BY <1>1, <1>4, <1>5, <1>8, <1>9 DEF WellFormed, OfGames

\* BrandStatus is well formed.
LEMMA BrandStatusFits == WellFormed("brandStatus")
<1> DEFINE P == BrandStatus
<1>1. Program["brandStatus"] = P /\ Len(P) = 6 /\ DOMAIN P = 1 .. 6
  BY DEF Program, BrandStatus
<1>2. /\ Is(P[1], "create", "CreateCapBrand", "status", "none", FALSE)
      /\ Is(P[2], "change", "UpdateBrandStatus", "assert", "enabled", FALSE)
      /\ Is(P[3], "get", "GetCapBrand", "assert", "none", FALSE)
      /\ Is(P[4], "change", "UpdateBrandStatus", "assert", "disabled", FALSE)
      /\ Is(P[5], "get", "GetCapBrand", "assert", "none", FALSE)
      /\ Is(P[6], "delete", "DeleteCapBrand", "assert", "none", FALSE)
  BY DEF Is, BrandStatus, Change, Create, Delete, Fetch, Step
<1>3. /\ P[3].fits = {"enabled"}
      /\ P[5].fits = {"disabled"}
  BY DEF BrandStatus, Change, Create, Delete, Fetch, Step
<1> HIDE DEF P
<1>4. HasShape(P)
  BY <1>1, <1>2, <1>3, ProgramsCall DEF Is, HasShape, Sends, Acts, GoodStatus, Live
<1>5. MakesFirst(P) /\ P[1].does = "create"
  BY <1>1, <1>2 DEF Is, MakesFirst
<1>6. Before(P, 1, 2) /\ Before(P, 2, 3) /\ Before(P, 2, 4) /\ Before(P, 4, 5) /\ Before(P, 4, 6)
  BY <1>1, <1>2 DEF Is, Before, Acts
<1>7. /\ Effect(P[1]) = "made"
      /\ Effect(P[2]) = "enabled"
      /\ Effect(P[4]) = "disabled"
      /\ Effect(P[6]) = "deleted"
  BY <1>2, <1>3 DEF Is, Effect
<1>8. FollowsItem(P)
  BY <1>1, <1>2, <1>3, <1>6, <1>7 DEF Is, FollowsItem, Sends, Acts, Live
<1>9. SealsOnce(P)
  BY <1>1, <1>2, <1>7 DEF Is, SealsOnce, Seals, Deletes
<1> QED BY <1>1, <1>4, <1>5, <1>8, <1>9 DEF WellFormed, OfGames

\* UpdateBrand is well formed.
LEMMA UpdateBrandFits == WellFormed("updateBrand")
<1> DEFINE P == UpdateBrand
<1>1. Program["updateBrand"] = P /\ Len(P) = 3 /\ DOMAIN P = 1 .. 3
  BY DEF Program, UpdateBrand
<1>2. /\ Is(P[1], "create", "CreateCapBrand", "status", "none", FALSE)
      /\ Is(P[2], "change", "UpdateCapBrand", "assert", "updated", FALSE)
      /\ Is(P[3], "delete", "DeleteCapBrand", "assert", "none", FALSE)
  BY DEF Is, Change, Create, Delete, Step, UpdateBrand
<1> HIDE DEF P
<1>4. HasShape(P)
  BY <1>1, <1>2, ProgramsCall DEF Is, HasShape, Sends, Acts, GoodStatus, Live
<1>5. MakesFirst(P) /\ P[1].does = "create"
  BY <1>1, <1>2 DEF Is, MakesFirst
<1>6. Before(P, 1, 2) /\ Before(P, 2, 3)
  BY <1>1, <1>2 DEF Is, Before, Acts
<1>7. /\ Effect(P[1]) = "made"
      /\ Effect(P[2]) = "updated"
      /\ Effect(P[3]) = "deleted"
  BY <1>2 DEF Is, Effect
<1>8. FollowsItem(P)
  BY <1>1, <1>2, <1>6, <1>7 DEF Is, FollowsItem, Sends, Acts, Live
<1>9. SealsOnce(P)
  BY <1>1, <1>2, <1>7 DEF Is, SealsOnce, Seals, Deletes
<1> QED BY <1>1, <1>4, <1>5, <1>8, <1>9 DEF WellFormed, OfGames

\* CategoryFields is well formed.
LEMMA CategoryFieldsFits == WellFormed("categoryFields")
<1> DEFINE P == CategoryFields
<1>1. Program["categoryFields"] = P /\ Len(P) = 3 /\ DOMAIN P = 1 .. 3
  BY DEF Program, CategoryFields
<1>2. /\ Is(P[1], "create", "CreateCapCategory", "status", "none", FALSE)
      /\ Is(P[2], "row", "none", "assert", "none", FALSE)
      /\ Is(P[3], "delete", "DeleteCapCategory", "assert", "none", FALSE)
  BY DEF Is, CategoryFields, CategoryRow, Create, Delete, Guarded, Row, Step
<1> HIDE DEF P
<1>4. HasShape(P)
  BY <1>1, <1>2, ProgramsCall DEF Is, HasShape, Sends, Acts, GoodStatus, Live
<1>5. MakesFirst(P) /\ P[1].does = "create"
  BY <1>1, <1>2 DEF Is, MakesFirst
<1>6. Before(P, 1, 3)
  BY <1>1, <1>2 DEF Is, Before, Acts
<1>7. /\ Effect(P[1]) = "made"
      /\ Effect(P[3]) = "deleted"
  BY <1>2 DEF Is, Effect
<1>8. FollowsItem(P)
  BY <1>1, <1>2, <1>6, <1>7 DEF Is, FollowsItem, Sends, Acts, Live
<1>9. SealsOnce(P)
  BY <1>1, <1>2, <1>7 DEF Is, SealsOnce, Seals, Deletes
<1> QED BY <1>1, <1>4, <1>5, <1>8, <1>9 DEF WellFormed, OfGames

\* CreateCategory is well formed.
LEMMA CreateCategoryFits == WellFormed("createCategory")
<1> DEFINE P == CreateCategory
<1>1. Program["createCategory"] = P /\ Len(P) = 4 /\ DOMAIN P = 1 .. 4
  BY DEF Program, CreateCategory
<1>2. /\ Is(P[1], "create", "CreateCapCategory", "both", "none", FALSE)
      /\ Is(P[2], "get", "GetCapCategory", "assert", "none", FALSE)
      /\ Is(P[3], "row", "none", "require", "none", FALSE)
      /\ Is(P[4], "delete", "DeleteCapCategory", "assert", "none", FALSE)
  BY DEF Is, CategoryRow, Create, CreateCategory, Delete, Fetch, Row, Step
<1>3. P[2].fits = {"made"}
  BY DEF CategoryRow, Create, CreateCategory, Delete, Fetch, Row, Step
<1> HIDE DEF P
<1>4. HasShape(P)
  BY <1>1, <1>2, <1>3, ProgramsCall DEF Is, HasShape, Sends, Acts, GoodStatus, Live
<1>5. MakesFirst(P) /\ P[1].does = "create"
  BY <1>1, <1>2 DEF Is, MakesFirst
<1>6. Before(P, 1, 2) /\ Before(P, 1, 4)
  BY <1>1, <1>2 DEF Is, Before, Acts
<1>7. /\ Effect(P[1]) = "made"
      /\ Effect(P[4]) = "deleted"
  BY <1>2, <1>3 DEF Is, Effect
<1>8. FollowsItem(P)
  BY <1>1, <1>2, <1>3, <1>6, <1>7 DEF Is, FollowsItem, Sends, Acts, Live
<1>9. SealsOnce(P)
  BY <1>1, <1>2, <1>7 DEF Is, SealsOnce, Seals, Deletes
<1> QED BY <1>1, <1>4, <1>5, <1>8, <1>9 DEF WellFormed, OfGames

\* CreateCollection is well formed.
LEMMA CreateCollectionFits == WellFormed("createCollection")
<1> DEFINE P == CreateCollection
<1>1. Program["createCollection"] = P /\ Len(P) = 4 /\ DOMAIN P = 1 .. 4
  BY DEF Program, CreateCollection, CreateCategory
<1>2. /\ Is(P[1], "create", "CreateCapCategory", "both", "none", FALSE)
      /\ Is(P[2], "get", "GetCapCategory", "assert", "none", FALSE)
      /\ Is(P[3], "row", "none", "require", "none", FALSE)
      /\ Is(P[4], "delete", "DeleteCapCategory", "assert", "none", FALSE)
  <2> DEFINE Q == CreateCategory
  <2>1. P[1] = Q[1] /\ P[2] = Q[2] /\ P[3] = Q[3] /\ P[4] = Thrice(Q[4])
    <3>1. Q \in [1 .. 4 -> {Q[1], Q[2], Q[3], Q[4]}]
      BY DEF CreateCategory
    <3>2. P = [Q EXCEPT ![4] = Thrice(Q[4])]
      BY DEF CreateCollection
    <3> HIDE DEF P, Q
    <3> QED BY <3>1, <3>2
  <2>2. /\ Is(Q[1], "create", "CreateCapCategory", "both", "none", FALSE)
        /\ Is(Q[2], "get", "GetCapCategory", "assert", "none", FALSE)
        /\ Is(Q[3], "row", "none", "require", "none", FALSE)
        /\ Is(Q[4], "delete", "DeleteCapCategory", "assert", "none", FALSE)
    BY DEF Is, CategoryRow, Create, CreateCategory, Delete, Fetch, Row, Step
  <2> QED BY <2>1, <2>2 DEF Is, Thrice
<1>3. P[2].fits = {"made"}
  BY DEF CategoryRow, Create, CreateCategory, CreateCollection, Delete, Fetch, Row, Step, Thrice
<1> HIDE DEF P
<1>4. HasShape(P)
  BY <1>1, <1>2, <1>3, ProgramsCall DEF Is, HasShape, Sends, Acts, GoodStatus, Live
<1>5. MakesFirst(P) /\ P[1].does = "create"
  BY <1>1, <1>2 DEF Is, MakesFirst
<1>6. Before(P, 1, 2) /\ Before(P, 1, 4)
  BY <1>1, <1>2 DEF Is, Before, Acts
<1>7. /\ Effect(P[1]) = "made"
      /\ Effect(P[4]) = "deleted"
  BY <1>2, <1>3 DEF Is, Effect
<1>8. FollowsItem(P)
  BY <1>1, <1>2, <1>3, <1>6, <1>7 DEF Is, FollowsItem, Sends, Acts, Live
<1>9. SealsOnce(P)
  BY <1>1, <1>2, <1>7 DEF Is, SealsOnce, Seals, Deletes
<1> QED BY <1>1, <1>4, <1>5, <1>8, <1>9 DEF WellFormed, OfGames

\* CategoryTable is well formed.
LEMMA CategoryTableFits == WellFormed("categoryTable")
<1> DEFINE P == CategoryTable
<1>1. Program["categoryTable"] = P /\ Len(P) = 3 /\ DOMAIN P = 1 .. 3
  BY DEF Program, CategoryTable
<1>2. /\ Is(P[1], "create", "CreateCapCategory", "required", "none", FALSE)
      /\ Is(P[2], "get", "GetCapCategory", "require", "none", FALSE)
      /\ Is(P[3], "row", "none", "require", "none", FALSE)
  BY DEF Is, CategoryRow, CategoryTable, Create, Fetch, Live, Row, Step
<1> HIDE DEF P
<1>4. HasShape(P)
  BY <1>1, <1>2, ProgramsCall DEF Is, HasShape, Sends, Acts, GoodStatus, Live
<1>5. MakesFirst(P) /\ P[1].does = "create"
  BY <1>1, <1>2 DEF Is, MakesFirst
<1>6. Before(P, 1, 2)
  BY <1>1, <1>2 DEF Is, Before, Acts
<1>7. /\ Effect(P[1]) = "made"
  BY <1>2 DEF Is, Effect
<1>8. FollowsItem(P)
  BY <1>1, <1>2, <1>6, <1>7 DEF Is, FollowsItem, Sends, Acts, Live
<1>9. SealsOnce(P)
  BY <1>1, <1>2, <1>7 DEF Is, SealsOnce, Seals, Deletes
<1> QED BY <1>1, <1>4, <1>5, <1>8, <1>9 DEF WellFormed, OfGames

\* DeleteCategory is well formed.
LEMMA DeleteCategoryFits == WellFormed("deleteCategory")
<1> DEFINE P == DeleteCategory
<1>1. Program["deleteCategory"] = P /\ Len(P) = 4 /\ DOMAIN P = 1 .. 4
  BY DEF Program, DeleteCategory
<1>2. /\ Is(P[1], "create", "CreateCapCategory", "both", "none", FALSE)
      /\ Is(P[2], "row", "none", "require", "none", FALSE)
      /\ Is(P[3], "delete", "DeleteCapCategory", "assert", "none", FALSE)
      /\ Is(P[4], "absent", "none", "assert", "none", FALSE)
  BY DEF Is, Absent, CategoryRow, Create, Delete, DeleteCategory, Row, Step
<1> HIDE DEF P
<1>4. HasShape(P)
  BY <1>1, <1>2, ProgramsCall DEF Is, HasShape, Sends, Acts, GoodStatus, Live
<1>5. MakesFirst(P) /\ P[1].does = "create"
  BY <1>1, <1>2 DEF Is, MakesFirst
<1>6. Before(P, 1, 3)
  BY <1>1, <1>2 DEF Is, Before, Acts
<1>7. /\ Effect(P[1]) = "made"
      /\ Effect(P[3]) = "deleted"
  BY <1>2 DEF Is, Effect
<1>8. FollowsItem(P)
  BY <1>1, <1>2, <1>6, <1>7 DEF Is, FollowsItem, Sends, Acts, Live
<1>9. SealsOnce(P)
  BY <1>1, <1>2, <1>7 DEF Is, SealsOnce, Seals, Deletes
<1> QED BY <1>1, <1>4, <1>5, <1>8, <1>9 DEF WellFormed, OfGames

\* DeleteCollection is well formed.
LEMMA DeleteCollectionFits == WellFormed("deleteCollection")
<1> DEFINE P == DeleteCollection
<1>1. Program["deleteCollection"] = P /\ Len(P) = 4 /\ DOMAIN P = 1 .. 4
  BY DEF Program, DeleteCollection, DeleteCategory
<1>2. /\ Is(P[1], "create", "CreateCapCategory", "both", "none", FALSE)
      /\ Is(P[2], "row", "none", "require", "none", FALSE)
      /\ Is(P[3], "delete", "DeleteCapCategory", "assert", "none", FALSE)
      /\ Is(P[4], "absent", "none", "assert", "none", FALSE)
  <2> DEFINE Q == DeleteCategory
  <2>1. P[1] = Q[1] /\ P[2] = Q[2] /\ P[3] = Thrice(Q[3]) /\ P[4] = Q[4]
    <3>1. Q \in [1 .. 4 -> {Q[1], Q[2], Q[3], Q[4]}]
      BY DEF DeleteCategory
    <3>2. P = [Q EXCEPT ![3] = Thrice(Q[3])]
      BY DEF DeleteCollection
    <3> HIDE DEF P, Q
    <3> QED BY <3>1, <3>2
  <2>2. /\ Is(Q[1], "create", "CreateCapCategory", "both", "none", FALSE)
        /\ Is(Q[2], "row", "none", "require", "none", FALSE)
        /\ Is(Q[3], "delete", "DeleteCapCategory", "assert", "none", FALSE)
        /\ Is(Q[4], "absent", "none", "assert", "none", FALSE)
    BY DEF Is, Absent, CategoryRow, Create, Delete, DeleteCategory, Row, Step
  <2> QED BY <2>1, <2>2 DEF Is, Thrice
<1> HIDE DEF P
<1>4. HasShape(P)
  BY <1>1, <1>2, ProgramsCall DEF Is, HasShape, Sends, Acts, GoodStatus, Live
<1>5. MakesFirst(P) /\ P[1].does = "create"
  BY <1>1, <1>2 DEF Is, MakesFirst
<1>6. Before(P, 1, 3)
  BY <1>1, <1>2 DEF Is, Before, Acts
<1>7. /\ Effect(P[1]) = "made"
      /\ Effect(P[3]) = "deleted"
  BY <1>2 DEF Is, Effect
<1>8. FollowsItem(P)
  BY <1>1, <1>2, <1>6, <1>7 DEF Is, FollowsItem, Sends, Acts, Live
<1>9. SealsOnce(P)
  BY <1>1, <1>2, <1>7 DEF Is, SealsOnce, Seals, Deletes
<1> QED BY <1>1, <1>4, <1>5, <1>8, <1>9 DEF WellFormed, OfGames

\* UpdateCategory is well formed.
LEMMA UpdateCategoryFits == WellFormed("updateCategory")
<1> DEFINE P == UpdateCategory
<1>1. Program["updateCategory"] = P /\ Len(P) = 5 /\ DOMAIN P = 1 .. 5
  BY DEF Program, UpdateCategory
<1>2. /\ Is(P[1], "create", "CreateCapCategory", "both", "none", FALSE)
      /\ Is(P[2], "change", "UpdateCapCategory", "assert", "updated", FALSE)
      /\ Is(P[3], "row", "none", "require", "none", FALSE)
      /\ Is(P[4], "delete", "DeleteCapCategory", "assert", "none", FALSE)
      /\ Is(P[5], "absent", "none", "assert", "none", FALSE)
  BY DEF Is, Absent, CategoryRow, Change, Create, Delete, Row, Step, UpdateCategory
<1> HIDE DEF P
<1>4. HasShape(P)
  BY <1>1, <1>2, ProgramsCall DEF Is, HasShape, Sends, Acts, GoodStatus, Live
<1>5. MakesFirst(P) /\ P[1].does = "create"
  BY <1>1, <1>2 DEF Is, MakesFirst
<1>6. Before(P, 1, 2) /\ Before(P, 2, 4)
  BY <1>1, <1>2 DEF Is, Before, Acts
<1>7. /\ Effect(P[1]) = "made"
      /\ Effect(P[2]) = "updated"
      /\ Effect(P[4]) = "deleted"
  BY <1>2 DEF Is, Effect
<1>8. FollowsItem(P)
  BY <1>1, <1>2, <1>6, <1>7 DEF Is, FollowsItem, Sends, Acts, Live
<1>9. SealsOnce(P)
  BY <1>1, <1>2, <1>7 DEF Is, SealsOnce, Seals, Deletes
<1> QED BY <1>1, <1>4, <1>5, <1>8, <1>9 DEF WellFormed, OfGames

\* StatusTable is well formed.
LEMMA StatusTableFits == WellFormed("statusTable")
<1> DEFINE P == StatusTable
<1>1. Program["statusTable"] = P /\ Len(P) = 7 /\ DOMAIN P = 1 .. 7
  BY DEF Program, StatusTable
<1>2. /\ Is(P[1], "create", "CreateCapCategory", "required", "none", FALSE)
      /\ Is(P[2], "get", "GetCapCategory", "require", "none", FALSE)
      /\ Is(P[3], "change", "UpdateCapCategoryStatus", "assert", "enabled", FALSE)
      /\ Is(P[4], "row", "none", "require", "none", FALSE)
      /\ Is(P[5], "row", "none", "require", "none", FALSE)
      /\ Is(P[6], "delete", "DeleteCapCategory", "require", "none", FALSE)
      /\ Is(P[7], "absent", "none", "require", "none", FALSE)
  BY DEF Is, Absent, CategoryRow, Change, Checked, Create, Delete, Fetch, Live, Required, Row,
         StatusTable, Step, TableAwaits, TableBegins, TableLooks, TableRemoves, Thrice
<1> HIDE DEF P
<1>4. HasShape(P)
  BY <1>1, <1>2, ProgramsCall DEF Is, HasShape, Sends, Acts, GoodStatus, Live
<1>5. MakesFirst(P) /\ P[1].does = "create"
  BY <1>1, <1>2 DEF Is, MakesFirst
<1>6. Before(P, 1, 2) /\ Before(P, 1, 3) /\ Before(P, 3, 6)
  BY <1>1, <1>2 DEF Is, Before, Acts
<1>7. /\ Effect(P[1]) = "made"
      /\ Effect(P[3]) = "enabled"
      /\ Effect(P[6]) = "deleted"
  BY <1>2 DEF Is, Effect
<1>8. FollowsItem(P)
  BY <1>1, <1>2, <1>6, <1>7 DEF Is, FollowsItem, Sends, Acts, Live
<1>9. SealsOnce(P)
  BY <1>1, <1>2, <1>7 DEF Is, SealsOnce, Seals, Deletes
<1> QED BY <1>1, <1>4, <1>5, <1>8, <1>9 DEF WellFormed, OfGames

\* FieldTable is well formed.
LEMMA FieldTableFits == WellFormed("fieldTable")
<1> DEFINE P == FieldTable
<1>1. Program["fieldTable"] = P /\ Len(P) = 6 /\ DOMAIN P = 1 .. 6
  BY DEF Program, FieldTable
<1>2. /\ Is(P[1], "create", "CreateCapCategory", "required", "none", FALSE)
      /\ Is(P[2], "get", "GetCapCategory", "require", "none", FALSE)
      /\ Is(P[3], "change", "UpdateCapCategory", "require", "updated", FALSE)
      /\ Is(P[4], "row", "none", "require", "none", FALSE)
      /\ Is(P[5], "delete", "DeleteCapCategory", "require", "none", FALSE)
      /\ Is(P[6], "absent", "none", "require", "none", FALSE)
  BY DEF Is, Absent, CategoryRow, Change, Checked, Create, Delete, Fetch, FieldTable, Live,
         Required, Row, Step, TableAwaits, TableBegins, TableLooks, TableRemoves, Thrice
<1> HIDE DEF P
<1>4. HasShape(P)
  BY <1>1, <1>2, ProgramsCall DEF Is, HasShape, Sends, Acts, GoodStatus, Live
<1>5. MakesFirst(P) /\ P[1].does = "create"
  BY <1>1, <1>2 DEF Is, MakesFirst
<1>6. Before(P, 1, 2) /\ Before(P, 1, 3) /\ Before(P, 3, 5)
  BY <1>1, <1>2 DEF Is, Before, Acts
<1>7. /\ Effect(P[1]) = "made"
      /\ Effect(P[3]) = "updated"
      /\ Effect(P[5]) = "deleted"
  BY <1>2 DEF Is, Effect
<1>8. FollowsItem(P)
  BY <1>1, <1>2, <1>6, <1>7 DEF Is, FollowsItem, Sends, Acts, Live
<1>9. SealsOnce(P)
  BY <1>1, <1>2, <1>7 DEF Is, SealsOnce, Seals, Deletes
<1> QED BY <1>1, <1>4, <1>5, <1>8, <1>9 DEF WellFormed, OfGames

\* UpdateGame is well formed.
LEMMA UpdateGameFits == WellFormed("updateGame")
<1> DEFINE P == UpdateGame
<1>1. Program["updateGame"] = P /\ Len(P) = 4 /\ DOMAIN P = 1 .. 4
  BY DEF Program, UpdateGame
<1>2. /\ Is(P[1], "pick", "none", "require", "none", FALSE)
      /\ Is(P[2], "change", "UpdateGames", "both", "updated", FALSE)
      /\ Is(P[3], "row", "none", "require", "none", FALSE)
      /\ Is(P[4], "get", "GetGames", "assert", "none", FALSE)
  BY DEF Is, Change, Checked, Fetch, GameRow, Pick, Retried, Row, Step, UpdateGame
<1>3. P[4].fits = {"updated"}
  BY DEF Change, Checked, Fetch, GameRow, Pick, Retried, Row, Step, UpdateGame
<1> HIDE DEF P
<1>4. HasShape(P)
  BY <1>1, <1>2, <1>3, ProgramsCall DEF Is, HasShape, Sends, Acts, GoodStatus, Live
<1>5. MakesFirst(P) /\ P[1].does = "pick"
  BY <1>1, <1>2 DEF Is, MakesFirst
<1>6. Before(P, 1, 2) /\ Before(P, 2, 4)
  BY <1>1, <1>2 DEF Is, Before, Acts
<1>7. /\ Effect(P[1]) = "made"
      /\ Effect(P[2]) = "updated"
  BY <1>2, <1>3 DEF Is, Effect
<1>8. FollowsItem(P)
  BY <1>1, <1>2, <1>3, <1>6, <1>7 DEF Is, FollowsItem, Sends, Acts, Live
<1>9. SealsOnce(P)
  BY <1>1, <1>2, <1>7 DEF Is, SealsOnce, Seals, Deletes
<1> QED BY <1>1, <1>4, <1>5, <1>8, <1>9 DEF WellFormed, OfGames

\* GameTable is well formed.
LEMMA GameTableFits == WellFormed("gameTable")
<1> DEFINE P == GameTable
<1>1. Program["gameTable"] = P /\ Len(P) = 5 /\ DOMAIN P = 1 .. 5
  BY DEF Program, GameTable
<1>2. /\ Is(P[1], "pick", "none", "require", "none", FALSE)
      /\ Is(P[2], "change", "UpdateGames", "required", "updated", FALSE)
      /\ Is(P[3], "row", "none", "require", "none", TRUE)
      /\ Is(P[4], "get", "GetGames", "assert", "none", TRUE)
      /\ Is(P[5], "message", "none", "assert", "none", TRUE)
  BY DEF Is, Async, Change, Checked, Fetch, GameRow, GameTable, Message, Pick, Retried, Row, Step
<1>3. P[4].fits = {"updated"}
  BY DEF Async, Change, Checked, Fetch, GameRow, GameTable, Message, Pick, Retried, Row, Step
<1> HIDE DEF P
<1>4. HasShape(P)
  BY <1>1, <1>2, <1>3, ProgramsCall DEF Is, HasShape, Sends, Acts, GoodStatus, Live
<1>5. MakesFirst(P) /\ P[1].does = "pick"
  BY <1>1, <1>2 DEF Is, MakesFirst
<1>6. Before(P, 1, 2) /\ Before(P, 2, 4)
  BY <1>1, <1>2 DEF Is, Before, Acts
<1>7. /\ Effect(P[1]) = "made"
      /\ Effect(P[2]) = "updated"
  BY <1>2, <1>3 DEF Is, Effect
<1>8. FollowsItem(P)
  BY <1>1, <1>2, <1>3, <1>6, <1>7 DEF Is, FollowsItem, Sends, Acts, Live
<1>9. SealsOnce(P)
  BY <1>1, <1>2, <1>7 DEF Is, SealsOnce, Seals, Deletes
<1> QED BY <1>1, <1>4, <1>5, <1>8, <1>9 DEF WellFormed, OfGames

\* CreateLabel is well formed.
LEMMA CreateLabelFits == WellFormed("createLabel")
<1> DEFINE P == CreateLabel
<1>1. Program["createLabel"] = P /\ Len(P) = 3 /\ DOMAIN P = 1 .. 3
  BY DEF Program, CreateLabel
<1>2. /\ Is(P[1], "create", "CreateLabel", "both", "none", FALSE)
      /\ Is(P[2], "get", "GetLabel", "assert", "none", FALSE)
      /\ Is(P[3], "row", "none", "require", "none", FALSE)
  BY DEF Is, Create, CreateLabel, Fetch, Indexing, Retried, Row, Step
<1>3. P[2].fits = {"made"}
  BY DEF Create, CreateLabel, Fetch, Indexing, Retried, Row, Step
<1> HIDE DEF P
<1>4. HasShape(P)
  BY <1>1, <1>2, <1>3, ProgramsCall DEF Is, HasShape, Sends, Acts, GoodStatus, Live
<1>5. MakesFirst(P) /\ P[1].does = "create"
  BY <1>1, <1>2 DEF Is, MakesFirst
<1>6. Before(P, 1, 2)
  BY <1>1, <1>2 DEF Is, Before, Acts
<1>7. /\ Effect(P[1]) = "made"
  BY <1>2, <1>3 DEF Is, Effect
<1>8. FollowsItem(P)
  BY <1>1, <1>2, <1>3, <1>6, <1>7 DEF Is, FollowsItem, Sends, Acts, Live
<1>9. SealsOnce(P)
  BY <1>1, <1>2, <1>7 DEF Is, SealsOnce, Seals, Deletes
<1> QED BY <1>1, <1>4, <1>5, <1>8, <1>9 DEF WellFormed, OfGames

\* Every program is well formed.
LEMMA ProgramsFit == \A name \in DOMAIN Program : WellFormed(name)
<1>1. DOMAIN Program = {"deleteBrand", "createBrand", "russianBrand", "positiveBrand",
                        "brandTable", "brandStatus", "updateBrand", "categoryFields",
                        "createCategory", "createCollection", "categoryTable", "deleteCategory",
                        "deleteCollection", "updateCategory", "statusTable", "fieldTable",
                        "updateGame", "gameTable", "createLabel"}
  BY DEF Program
<1> QED
  BY <1>1, DeleteBrandFits, CreateBrandFits, RussianBrandFits, PositiveBrandFits, BrandTableFits,
     BrandStatusFits, UpdateBrandFits, CategoryFieldsFits, CreateCategoryFits,
     CreateCollectionFits, CategoryTableFits, DeleteCategoryFits, DeleteCollectionFits,
     UpdateCategoryFits, StatusTableFits, FieldTableFits, UpdateGameFits, GameTableFits,
     CreateLabelFits


-----------------------------------------------------------------------------
(* The tests: what holds while one runs, whichever it is.  The steps that  *)
(* are under way are the asynchronous ones before at, and at itself.       *)

StepsInv ==
    /\ test \in Alone \cup DOMAIN Program
    /\ at \in 1 .. Len(Steps) + 1
    /\ \A k \in open : k \in 1 .. at - 1 /\ Steps[k].async
    /\ \A k \in failed : k \in DOMAIN Steps /\ k <= at
    /\ stopped => failed # {}

\* The request under way is that of a step, and its path has placeholders of
\* its parameters only.
CallInv ==
    /\ calling # 0 => calling \in UnderWay(Steps) /\ Sends(Steps[calling]) /\ pc # "idle"
    /\ test \notin {"client", "api"} /\ calling = 0 => pc = "idle"
    /\ test # "client" /\ pc \notin {"idle", "returned"} =>
         /\ template \in Seq({Text} \cup {Hole(key) : key \in DOMAIN params})
         /\ \A key \in DOMAIN params : params[key] \in Seq({Text})

\* As long as nothing was lost, the item is known and every request is answered
\* as the test expects.
GoodCallInv ==
    /\ faults \in Nat
    /\ at > 1 /\ id # "known" => faults > 0
    /\ faults = 0 => late = {}
    /\ faults = 0 /\ test \notin {"client", "api"} => ~expired
    /\ faults = 0 /\ calling # 0 =>
         LET good == GoodStatus(Steps[calling])
         IN  /\ pc \in {"read", "decode"} => status = good
             /\ pc = "decode" /\ good = 200 => answer = "fits"
             /\ pc = "returned" => statusCode = good
             /\ pc = "returned" /\ good = 200 => decoded = "all"

\* As long as nothing was lost, the item is what the last step made of it that
\* has reached the server.
Served(k) == k < at \/ (k = calling /\ pc \in {"read", "decode", "returned"})
ServedLast(k) ==
    /\ Acts(Steps[k]) /\ Served(k)
    /\ \A l \in DOMAIN Steps : k < l /\ Acts(Steps[l]) => ~Served(l)
ItemInv ==
    faults = 0 =>
        /\ \A k \in DOMAIN Steps : ServedLast(k) => item = Effect(Steps[k])
        /\ \A k \in DOMAIN Steps : k = 1 /\ ~Served(k) =>
              item = IF Steps[k].does = "pick" THEN "made" ELSE "none"

\* A step that seals the item, and passed or is about to, has done so.
SealedInv ==
    /\ \A k \in late : k \in DOMAIN Steps /\ Steps[k].does \in {"create", "change", "delete"}
    /\ \A k \in DOMAIN Steps : Seals(Steps, k) =>
         /\ k < at /\ k \notin failed => item = Effect(Steps[k])
         /\ k = calling /\ pc \in {"read", "decode"} /\ status = GoodStatus(Steps[k]) =>
              item = Effect(Steps[k])
         /\ k = calling /\ pc = "returned" /\ statusCode = GoodStatus(Steps[k]) =>
              item = Effect(Steps[k])
         /\ ~Deletes(Steps) => item \in {"none", "made", Effect(Steps[k])}

TestInv ==
    HttpInv /\ StepsInv /\ CallInv /\ GoodCallInv /\ ItemInv /\ SealedInv /\ OnlyRowsFail

-----------------------------------------------------------------------------
(* Facts about the definitions. *)

\* A test that makes steps has one of the programs.
LEMMA StepsAre ==
    ASSUME StepsInv
    PROVE  /\ test \in Alone => Steps = << >> /\ DOMAIN Steps = {} /\ Len(Steps) = 0 /\ open = {}
           /\ test \notin Alone => WellFormed(test) /\ Steps = Program[test]
           /\ DOMAIN Steps = 1 .. Len(Steps) /\ Len(Steps) \in Nat
           /\ at \in Nat \ {0} /\ at <= Len(Steps) + 1
<1>1. CASE test \in Alone
  <2>1. Steps = << >> /\ Len(Steps) = 0 /\ DOMAIN Steps = {}
    BY <1>1 DEF Steps
  <2> QED BY <1>1, <2>1 DEF StepsInv
<1>2. CASE test \notin Alone
  <2>1. WellFormed(test) /\ Steps = Program[test]
    BY <1>2, ProgramsFit DEF StepsInv, Steps
  <2>2. Len(Steps) \in Nat /\ DOMAIN Steps = 1 .. Len(Steps)
    BY <2>1 DEF WellFormed
  <2> QED BY <1>2, <2>1, <2>2 DEF StepsInv
<1> QED BY <1>1, <1>2

\* A step that is under way belongs to a test that makes steps.
LEMMA UnderWayIs ==
    ASSUME StepsInv, NEW k \in UnderWay(Steps)
    PROVE  /\ test \notin Alone
           /\ k \in DOMAIN Steps /\ k \in Nat \ {0} /\ k <= at
           /\ k \in open => k < at /\ Steps[k].async
           /\ k \notin open => k = at /\ ~stopped /\ ~Steps[k].async
<1>1. k \in 1 .. Len(Steps) /\ at \in Nat /\ Len(Steps) \in Nat
  BY StepsAre DEF StepsInv, UnderWay
<1>2. test \notin Alone
  BY <1>1, StepsAre
<1> QED BY <1>1, <1>2, StepsAre DEF StepsInv, UnderWay

\* What a program says of its steps.
LEMMA ProgramIs ==
    ASSUME StepsInv, test \notin Alone
    PROVE  HasShape(Steps) /\ MakesFirst(Steps) /\ FollowsItem(Steps) /\ SealsOnce(Steps)
           /\ 1 \in DOMAIN Steps /\ (Steps[1].does = "pick" <=> test \in OfGames)
<1>1. WellFormed(test) /\ Steps = Program[test]
  BY StepsAre
<1>2. 1 \in DOMAIN Steps
  BY <1>1 DEF WellFormed
<1> QED BY <1>1, <1>2 DEF WellFormed

\* The statuses that a test wants.
LEMMA GoodIs == \A step : GoodStatus(step) \in {200, 204}
BY DEF GoodStatus

\* A step that does something to the item is the one that the test has reached.
LEMMA ActsIsNow ==
    ASSUME StepsInv, NEW k \in UnderWay(Steps), Acts(Steps[k])
    PROVE  k = at /\ k \notin open /\ ~stopped
BY UnderWayIs, ProgramIs DEF HasShape

\* What a step that ends does to the others: nothing.
LEMMA EndsStep ==
    ASSUME StepsInv, NEW k \in UnderWay(Steps), NEW verdict, Ends(k, verdict), test' = test
    PROVE  /\ StepsInv' /\ Steps' = Steps
           /\ at' \in {at, at + 1} /\ (at' = at + 1 => k = at)
           /\ k \notin open /\ verdict # "fatal" => at' = at + 1
           /\ \A l \in DOMAIN Steps : l < at' /\ l \notin failed' =>
                (l < at /\ l \notin failed) \/ (l = k /\ verdict = "passed")
           /\ failed' = IF verdict = "passed" THEN failed ELSE failed \cup {k}
           /\ \A l \in UnderWay(Steps) : l # k => l \in UnderWay(Steps)'
<1>1. /\ Len(Steps) \in Nat /\ DOMAIN Steps = 1 .. Len(Steps)
      /\ at \in Nat \ {0} /\ Steps' = Steps
  BY StepsAre DEF Steps
<1>2. failed' = IF verdict = "passed" THEN failed ELSE failed \cup {k}
  BY DEF Ends
<1>3. CASE k \in open
  <2>1. open' = open \ {k} /\ at' = at /\ stopped' = stopped
    BY <1>3 DEF Ends
  <2>2. StepsInv'
    BY <1>1, <1>2, <2>1, UnderWayIs DEF StepsInv
  <2>3. \A l \in UnderWay(Steps) : l # k => l \in UnderWay(Steps)'
    BY <1>1, <2>1 DEF UnderWay
  <2> QED BY <1>1, <1>2, <1>3, <2>1, <2>2, <2>3
<1>4. CASE k \notin open
  <2>1. /\ open' = open /\ k = at /\ ~stopped /\ k \in DOMAIN Steps
        /\ (stopped' <=> verdict = "fatal") /\ at' = IF verdict = "fatal" THEN at ELSE at + 1
    BY <1>4, UnderWayIs DEF Ends
  <2>2. StepsInv'
    BY <1>1, <1>2, <2>1 DEF StepsInv
  <2>3. \A l \in UnderWay(Steps) : l # k => l \in UnderWay(Steps)'
    BY <1>1, <2>1 DEF UnderWay
  <2> QED BY <1>1, <1>2, <1>4, <2>1, <2>2, <2>3
<1> QED BY <1>3, <1>4

\* A request does not undo what a step that seals the item has made of it.
LEMMA SealStays ==
    ASSUME StepsInv, NEW k \in DOMAIN Steps, NEW l \in DOMAIN Steps, Seals(Steps, l)
    PROVE  /\ item = Effect(Steps[l]) => After(Steps[k]) = Effect(Steps[l])
           /\ ~Deletes(Steps) /\ item \in {"none", "made", Effect(Steps[l])} =>
                After(Steps[k]) \in {"none", "made", Effect(Steps[l])}
<1>1. test \notin Alone
  BY StepsAre
<1>2. /\ \A i, j \in DOMAIN Steps : Seals(Steps, i) /\ Seals(Steps, j) => Effect(Steps[i]) = Effect(Steps[j])
      /\ \A j \in DOMAIN Steps : Steps[j].does = "change" => Steps[j].to \in Live
  BY <1>1, ProgramIs DEF SealsOnce, HasShape
<1>3. CASE Deletes(Steps)
  <2>1. Steps[l].does = "delete" /\ Effect(Steps[l]) = "deleted"
    BY <1>3 DEF Seals, Effect
  <2>2. item = "deleted" => ~Reached /\ item # "none"
    BY DEF Reached, Live
  <2> QED BY <1>3, <2>1, <2>2 DEF After
<1>4. CASE ~Deletes(Steps)
  <2>1. Steps[k].does # "delete"
    BY <1>4 DEF Deletes
  <2>2. CASE Steps[k].does \in {"create", "change"}
    <3>1. Effect(Steps[k]) = Effect(Steps[l])
      BY <1>2, <1>4, <2>2 DEF Seals
    <3>2. Effect(Steps[k]) = IF Steps[k].does = "change" THEN Steps[k].to ELSE "made"
      BY <2>2 DEF Effect
    <3>3. Effect(Steps[k]) # "none"
      BY <1>2, <2>2, <3>2 DEF Live
    <3> QED BY <2>1, <2>2, <3>1, <3>2, <3>3 DEF After
  <2>3. CASE Steps[k].does \notin {"create", "change"}
    BY <2>1, <2>3 DEF After
  <2> QED BY <2>2, <2>3
<1> QED BY <1>3, <1>4

\* A request that seals the item does so when it is served well.
LEMMA SealIsMade ==
    ASSUME StepsInv, SealedInv, NEW k \in DOMAIN Steps, Seals(Steps, k),
           Steps[k].does = "create" \/ Reached
    PROVE  After(Steps[k]) = Effect(Steps[k])
<1>1. Steps[k].does \in {"create", "change", "delete"}
  BY DEF Seals
<1>2. CASE Steps[k].does = "create"
  <2>1. ~Deletes(Steps) /\ Effect(Steps[k]) = "made"
    BY <1>2 DEF Seals, Effect
  <2>2. item \in {"none", "made"}
    BY <2>1 DEF SealedInv
  <2> QED BY <1>2, <2>1, <2>2 DEF After
<1>3. CASE Steps[k].does # "create"
  BY <1>1, <1>3 DEF After, Effect
<1> QED BY <1>2, <1>3

\* As long as nothing was lost, a request after the first finds the item in the
\* state that the program says.
LEMMA ItemIsThere ==
    ASSUME StepsInv, ItemInv, faults = 0, NEW k \in UnderWay(Steps), Sends(Steps[k]), k # 1,
           calling \in {0, k}, Acts(Steps[k]) => ~Served(k)
    PROVE  /\ item \in Live
           /\ Steps[k].does = "get" /\ Steps[k].check = "assert" => item \in Steps[k].fits
<1>1. /\ k \in DOMAIN Steps /\ DOMAIN Steps = 1 .. Len(Steps) /\ Len(Steps) \in Nat /\ at \in Nat
      /\ k <= at /\ (~Steps[k].async => k = at) /\ test \notin Alone
  BY UnderWayIs, StepsAre
<1>2. /\ \E j \in DOMAIN Steps :
            /\ Before(Steps, j, k)
            /\ Effect(Steps[j]) \in Live
            /\ Steps[k].does = "get" /\ Steps[k].check = "assert" => Effect(Steps[j]) \in Steps[k].fits
      /\ Steps[k].async => \A l \in DOMAIN Steps : Acts(Steps[l]) => l < k
  BY <1>1, ProgramIs DEF FollowsItem
<1>3. PICK j \in DOMAIN Steps :
        /\ Before(Steps, j, k)
        /\ Effect(Steps[j]) \in Live
        /\ Steps[k].does = "get" /\ Steps[k].check = "assert" => Effect(Steps[j]) \in Steps[k].fits
  BY <1>2
<1>4. ServedLast(j)
  <2>1. Acts(Steps[j]) /\ j < k /\ Served(j)
    BY <1>1, <1>3 DEF Before, Served
  <2>2. ASSUME NEW l \in DOMAIN Steps, j < l, Acts(Steps[l]) PROVE ~Served(l)
    <3>1. ~(l < k)
      BY <1>3, <2>2 DEF Before
    <3>2. CASE l = k
      BY <2>2, <3>2
    <3>3. CASE l > k
      <4>1. ~Steps[k].async
        BY <1>1, <1>2, <2>2, <3>3
      <4> QED BY <1>1, <3>3, <4>1 DEF Served
    <3> QED BY <1>1, <3>1, <3>2, <3>3
  <2> QED BY <2>1, <2>2 DEF ServedLast
<1>5. item = Effect(Steps[j])
  BY <1>4 DEF ItemInv
<1> QED BY <1>3, <1>5

-----------------------------------------------------------------------------
(* What a step leaves alone. *)

\* The steps of the test go on as before.
LEMMA StepsStay ==
    ASSUME StepsInv, UNCHANGED <<test, at, open, failed, stopped>>
    PROVE  StepsInv' /\ Steps' = Steps /\ UnderWay(Steps)' = UnderWay(Steps)
<1>1. Steps' = Steps
  BY DEF Steps
<1> QED BY <1>1 DEF StepsInv, UnderWay

\* What was served stays served.
LEMMA ItemStays ==
    ASSUME StepsInv, ItemInv, test' = test, at' = at,
           faults' = 0 => /\ faults = 0 /\ item' = item
                          /\ \A k \in DOMAIN Steps : Served(k)' <=> Served(k)
    PROVE  ItemInv'
<1>1. Steps' = Steps
  BY DEF Steps
<1> SUFFICES ASSUME faults' = 0 PROVE ItemInv'
  BY DEF ItemInv
<1>2. faults = 0 /\ item' = item /\ \A k \in DOMAIN Steps : Served(k)' <=> Served(k)
  OBVIOUS
<1>3. \A k \in DOMAIN Steps : ServedLast(k)' => ServedLast(k)
  BY <1>1, <1>2 DEF ServedLast
<1> QED BY <1>1, <1>2, <1>3 DEF ItemInv

\* The item stays sealed, whatever request is served.
LEMMA SealedStays ==
    ASSUME StepsInv, SealedInv, UNCHANGED <<test, at, failed>>,
           item' = item \/ \E k \in DOMAIN Steps : item' = After(Steps[k]),
           \A k \in late' : k \in DOMAIN Steps /\ Steps[k].does \in {"create", "change", "delete"},
           \A k \in DOMAIN Steps : Seals(Steps, k) /\ k = calling' =>
              /\ pc' \in {"read", "decode"} /\ status' = GoodStatus(Steps[k]) =>
                   item' = Effect(Steps[k])
              /\ pc' = "returned" /\ statusCode' = GoodStatus(Steps[k]) => item' = Effect(Steps[k])
    PROVE  SealedInv'
<1>1. Steps' = Steps
  BY DEF Steps
<1>2. ASSUME NEW k \in DOMAIN Steps, Seals(Steps, k)
      PROVE  /\ item = Effect(Steps[k]) => item' = Effect(Steps[k])
             /\ ~Deletes(Steps) => item' \in {"none", "made", Effect(Steps[k])}
  <2>1. ~Deletes(Steps) => item \in {"none", "made", Effect(Steps[k])}
    BY <1>2 DEF SealedInv
  <2> QED BY <1>2, <2>1, SealStays
<1>3. ASSUME NEW k \in DOMAIN Steps, Seals(Steps, k), k < at, k \notin failed
      PROVE  item' = Effect(Steps[k])
  BY <1>2, <1>3 DEF SealedInv
<1> QED BY <1>1, <1>2, <1>3 DEF SealedInv

-----------------------------------------------------------------------------
(* The steps of the services and of a request. *)

\* The step whose request is under way.
LEMMA CallingIs ==
    ASSUME StepsInv, CallInv, calling # 0
    PROVE  /\ test \notin Alone /\ calling \in UnderWay(Steps) /\ calling \in DOMAIN Steps
           /\ Sends(Steps[calling]) /\ calling \in Nat \ {0} /\ calling <= at
           /\ Steps[calling].does = "create" <=> calling = 1
<1>1. calling \in UnderWay(Steps) /\ Sends(Steps[calling])
  BY DEF CallInv
<1>2. test \notin Alone /\ calling \in DOMAIN Steps /\ calling \in Nat \ {0} /\ calling <= at
  BY <1>1, UnderWayIs
<1>3. Steps[calling].does = "create" <=> calling = 1
  BY <1>1, <1>2, ProgramIs DEF MakesFirst, Sends
<1> QED BY <1>1, <1>2, <1>3

\* The server answers.
LEMMA ServeStep == TestInv /\ Serve => TestInv'
<1> SUFFICES ASSUME TestInv, Serve PROVE TestInv'
  OBVIOUS
<1> USE DEF TestInv
<1>1. /\ calling # 0 /\ pc = "send" /\ pc' = "read"
      /\ UNCHANGED <<test, at, open, failed, stopped, calling, id, late, template, params, expired>>
      /\ \/ /\ status' = (IF Steps[calling].does = "create" \/ Reached
                          THEN GoodStatus(Steps[calling]) ELSE 404)
            /\ item' = After(Steps[calling]) /\ faults' = faults
         \/ status' = 500 /\ faults' = faults + 1 /\ item' = item
  BY DEF Serve, Respond, Fault, stepVars, request
<1>2. /\ test \notin Alone /\ calling \in UnderWay(Steps) /\ calling \in DOMAIN Steps
      /\ Sends(Steps[calling]) /\ calling \in Nat \ {0} /\ calling <= at
      /\ Steps[calling].does = "create" <=> calling = 1
  BY <1>1, CallingIs
<1>3. HttpInv'
  BY RequestStep DEF Serve
<1>4. StepsInv' /\ Steps' = Steps /\ UnderWay(Steps)' = UnderWay(Steps)
  BY <1>1, StepsStay
<1>5. CallInv'
  BY <1>1, <1>4 DEF CallInv
<1>6. faults \in Nat /\ at \in Nat /\ (faults' = 0 => faults = 0)
  BY <1>1, StepsAre DEF GoodCallInv
<1>7. Acts(Steps[calling]) => calling = at /\ ~Served(calling)
  BY <1>1, <1>2, <1>6, ActsIsNow DEF Served
<1>8. ASSUME faults' = 0
      PROVE  /\ status' = GoodStatus(Steps[calling]) /\ item' = After(Steps[calling])
             /\ Steps[calling].does # "create" => Reached
  <2>1. item' = After(Steps[calling]) /\ faults = 0
    BY <1>1, <1>6, <1>8
  <2>2. ASSUME calling # 1 PROVE Reached
    <3>1. id = "known"
      BY <1>2, <1>6, <2>1, <2>2 DEF GoodCallInv
    <3>2. item \in Live
      BY <1>2, <1>7, <2>1, <2>2, ItemIsThere
    <3> QED BY <3>1, <3>2 DEF Reached
  <2> QED BY <1>1, <1>2, <1>6, <1>8, <2>1, <2>2
<1>9. GoodCallInv'
  BY <1>1, <1>4, <1>6, <1>8 DEF GoodCallInv
<1>10. ItemInv'
  <2> SUFFICES ASSUME faults' = 0 PROVE ItemInv'
    BY DEF ItemInv
  <2>1. faults = 0 /\ item' = After(Steps[calling]) /\ (Steps[calling].does # "create" => Reached)
    BY <1>6, <1>8
  <2>2. /\ \A k \in DOMAIN Steps : Served(k)' <=> (k = calling \/ Served(k))
        /\ DOMAIN Steps \subseteq Nat \ {0}
    BY <1>1, <1>6, StepsAre DEF Served
  <2>3. 1 \in DOMAIN Steps /\ Served(1)'
    BY <1>1, <1>2, <1>6, <2>2, ProgramIs DEF Served
  <2>4. CASE Acts(Steps[calling])
    <3>1. item' = Effect(Steps[calling])
      <4>1. CASE Steps[calling].does = "create"
        <5>1. item = "none"
          BY <1>2, <1>7, <2>1, <2>4, <4>1 DEF ItemInv
        <5> QED BY <2>1, <4>1, <5>1 DEF After, Effect
      <4>2. CASE Steps[calling].does # "create"
        BY <1>2, <2>1, <2>4, <4>2 DEF After, Effect, Sends, Acts
      <4> QED BY <4>1, <4>2
    <3>2. \A k \in DOMAIN Steps : ServedLast(k)' => k = calling
      <4> SUFFICES ASSUME NEW k \in DOMAIN Steps, ServedLast(k)' PROVE k = calling
        OBVIOUS
      <4>1. k <= at
        BY <1>1, <1>2, <1>6, <2>2 DEF ServedLast, Served
      <4>2. ~(k < calling)
        BY <1>2, <1>4, <2>2, <2>4 DEF ServedLast
      <4> QED BY <1>2, <1>6, <1>7, <2>2, <2>4, <4>1, <4>2
    <3> QED BY <1>4, <2>3, <3>1, <3>2 DEF ItemInv
  <2>5. CASE ~Acts(Steps[calling])
    <3>1. item' = item
      BY <1>2, <2>1, <2>5 DEF After, Acts
    <3>2. \A k \in DOMAIN Steps : ServedLast(k)' => ServedLast(k)
      BY <1>2, <1>4, <2>2, <2>5 DEF ServedLast
    <3> QED BY <1>4, <2>1, <2>3, <3>1, <3>2 DEF ItemInv
  <2> QED BY <2>4, <2>5
<1>11. SealedInv'
  <2>1. ASSUME NEW k \in DOMAIN Steps, Seals(Steps, k), k = calling', status' = GoodStatus(Steps[k])
        PROVE  item' = Effect(Steps[k])
    <3>1. /\ item' = After(Steps[k])
          /\ Steps[k].does = "create" \/ Reached
      BY <1>1, <2>1, GoodIs
    <3> QED BY <2>1, <3>1, SealIsMade
  <2>2. \A k \in late' : k \in DOMAIN Steps /\ Steps[k].does \in {"create", "change", "delete"}
    BY <1>1 DEF SealedInv
  <2>3. item' = item \/ \E k \in DOMAIN Steps : item' = After(Steps[k])
    BY <1>1, <1>2
  <2> QED BY <1>1, <2>1, <2>2, <2>3, SealedStays
<1>12. OnlyRowsFail'
  BY <1>1, <1>4, <1>6 DEF OnlyRowsFail
<1> QED BY <1>3, <1>4, <1>5, <1>9, <1>10, <1>11, <1>12

\* The answer arrives.
LEMMA DeliverStep == TestInv /\ Deliver => TestInv'
<1> SUFFICES ASSUME TestInv, Deliver PROVE TestInv'
  OBVIOUS
<1> USE DEF TestInv
<1>1. /\ calling # 0 /\ pc = "read" /\ pc' = "decode"
      /\ UNCHANGED <<test, at, open, failed, stopped, calling, id, item, late, template, params,
                     expired, status, statusCode>>
      /\ \/ answer' = (IF status = 200 THEN "fits" ELSE "empty") /\ faults' = faults
         \/ faults' = faults + 1
  BY DEF Deliver, ReadBody, Fault, stepVars, request, response
<1>2. HttpInv'
  BY RequestStep DEF Deliver
<1>3. StepsInv' /\ Steps' = Steps /\ UnderWay(Steps)' = UnderWay(Steps)
  BY <1>1, StepsStay
<1>4. CallInv'
  BY <1>1, <1>3 DEF CallInv
<1>5. faults \in Nat /\ (faults' = 0 => faults = 0)
  BY <1>1 DEF GoodCallInv
<1>6. GoodCallInv'
  BY <1>1, <1>3, <1>5 DEF GoodCallInv
<1>7. ItemInv'
  <2>1. \A k \in DOMAIN Steps : Served(k)' <=> Served(k)
    BY <1>1 DEF Served
  <2> QED BY <1>1, <1>5, <2>1, ItemStays
<1>8. SealedInv'
  BY <1>1, SealedStays DEF SealedInv
<1>9. OnlyRowsFail'
  BY <1>1, <1>3, <1>5 DEF OnlyRowsFail
<1> QED BY <1>2, <1>3, <1>4, <1>6, <1>7, <1>8, <1>9

\* A request that was given up is served.
LEMMA ServeLateStep == TestInv /\ (\E k \in late : ServeLate(k)) => TestInv'
<1> SUFFICES ASSUME TestInv, NEW k \in late, ServeLate(k) PROVE TestInv'
  OBVIOUS
<1> USE DEF TestInv
<1>1. /\ pc \notin {"read", "decode", "returned"} /\ late' = late \ {k} /\ item' = After(Steps[k])
      /\ UNCHANGED <<vars, test, at, open, failed, stopped, calling, id, faults>>
  BY DEF ServeLate, stepVars
<1>2. UNCHANGED <<template, params, pc, expired, status, answer, statusCode, decoded>>
  BY <1>1 DEF vars, request, response
<1>3. HttpInv'
  BY <1>1, StutterStep
<1>4. StepsInv' /\ Steps' = Steps /\ UnderWay(Steps)' = UnderWay(Steps)
  BY <1>1, StepsStay
<1>5. CallInv'
  BY <1>1, <1>2, <1>4 DEF CallInv
<1>6. faults \in Nat /\ faults > 0 /\ faults' > 0
  BY <1>1 DEF GoodCallInv
<1>7. GoodCallInv'
  BY <1>1, <1>2, <1>4, <1>6 DEF GoodCallInv
<1>8. ItemInv'
  BY <1>6 DEF ItemInv
<1>9. SealedInv'
  BY <1>1, <1>2, SealedStays DEF SealedInv
<1>10. OnlyRowsFail'
  BY <1>6 DEF OnlyRowsFail
<1> QED BY <1>3, <1>4, <1>5, <1>7, <1>8, <1>9, <1>10

\* The database follows, or a text is made up: the test does not see it.
LEMMA ShowStep == TestInv /\ (Show \/ Draw) => TestInv'
<1> SUFFICES ASSUME TestInv, Show \/ Draw PROVE TestInv'
  OBVIOUS
<1> USE DEF TestInv
<1>1. UNCHANGED <<vars, test, at, open, failed, stopped, calling, id, item, late, faults>>
  BY DEF Show, Draw, stepVars, remote
<1>2. UNCHANGED <<template, params, pc, expired, status, answer, statusCode, decoded>>
  BY <1>1 DEF vars, request, response
<1>3. HttpInv'
  BY <1>1, StutterStep
<1>4. StepsInv' /\ Steps' = Steps /\ UnderWay(Steps)' = UnderWay(Steps)
  BY <1>1, StepsStay
<1>5. CallInv' /\ GoodCallInv' /\ SealedInv' /\ OnlyRowsFail'
  BY <1>1, <1>2, <1>4 DEF CallInv, GoodCallInv, SealedInv, OnlyRowsFail
<1>6. ItemInv'
  <2>1. \A k \in DOMAIN Steps : Served(k)' <=> Served(k)
    BY <1>1, <1>2 DEF Served
  <2> QED BY <1>1, <2>1, ItemStays
<1> QED BY <1>3, <1>4, <1>5, <1>6

\* The timer fires: that is a fault.
LEMMA ExpireStep == TestInv /\ CallExpires => TestInv'
<1> SUFFICES ASSUME TestInv, CallExpires PROVE TestInv'
  OBVIOUS
<1> USE DEF TestInv
<1>1. /\ calling # 0
      /\ UNCHANGED <<test, at, open, failed, stopped, calling, id, item, late, template, params,
                     pc, status, statusCode>>
      /\ faults' = IF faults < MaxFaults THEN faults + 1 ELSE faults
  BY DEF CallExpires, Expire, stepVars, request, response
<1>2. HttpInv'
  BY RequestStep DEF CallExpires
<1>3. StepsInv' /\ Steps' = Steps /\ UnderWay(Steps)' = UnderWay(Steps)
  BY <1>1, StepsStay
<1>4. CallInv'
  BY <1>1, <1>3 DEF CallInv
<1>5. faults' \in Nat /\ faults' > 0
  <2>1. faults \in Nat /\ MaxFaults \in Nat \ {0}
    BY FaultsAssumption DEF GoodCallInv
  <2> QED BY <1>1, <2>1
<1>6. GoodCallInv' /\ ItemInv' /\ OnlyRowsFail'
  BY <1>5 DEF GoodCallInv, ItemInv, OnlyRowsFail
<1>7. SealedInv'
  BY <1>1, SealedStays DEF SealedInv
<1> QED BY <1>2, <1>3, <1>4, <1>6, <1>7

\* A request is given up: that is a fault, or comes of one.
LEMMA GiveUpStep == TestInv /\ (CallBreaks \/ CallTimesOut) => TestInv'
<1> SUFFICES ASSUME TestInv, CallBreaks \/ CallTimesOut PROVE TestInv'
  OBVIOUS
<1> USE DEF TestInv
<1>1. /\ calling # 0 /\ pc \in {"send", "read"} /\ pc' = "returned"
      /\ UNCHANGED <<test, at, open, failed, stopped, calling, id, item, template, params, statusCode>>
      /\ late' = late \/ (late' = late \cup {calling} /\ Steps[calling].does # "get")
      /\ faults' = faults + 1 \/ (faults' = faults /\ expired)
  BY DEF CallBreaks, CallTimesOut, ConnectionFails, TimesOut, Abandon, GiveUp, Fault, stepVars, request
<1>2. HttpInv'
  BY RequestStep DEF CallBreaks, CallTimesOut
<1>3. StepsInv' /\ Steps' = Steps /\ UnderWay(Steps)' = UnderWay(Steps)
  BY <1>1, StepsStay
<1>4. CallInv'
  BY <1>1, <1>3 DEF CallInv
<1>5. test \notin Alone /\ calling \in DOMAIN Steps /\ Sends(Steps[calling])
  BY <1>1, CallingIs
<1>6. faults' \in Nat /\ faults' > 0
  BY <1>1, <1>5 DEF GoodCallInv, Alone
<1>7. GoodCallInv' /\ ItemInv' /\ OnlyRowsFail'
  BY <1>6 DEF GoodCallInv, ItemInv, OnlyRowsFail
<1>8. SealedInv'
  <2>1. statusCode' = 0
    BY <1>1 DEF HttpInv, ResponseInv
  <2>2. \A k \in late' : k \in DOMAIN Steps /\ Steps[k].does \in {"create", "change", "delete"}
    BY <1>1, <1>5 DEF SealedInv, Sends
  <2> QED BY <1>1, <2>1, <2>2, GoodIs, SealedStays
<1> QED BY <1>2, <1>3, <1>4, <1>7, <1>8

\* A request goes on.
LEMMA GoesOnStep == TestInv /\ CallGoesOn => TestInv'
<1> SUFFICES ASSUME TestInv, CallGoesOn PROVE TestInv'
  OBVIOUS
<1> USE DEF TestInv
<1>1. /\ calling # 0
      /\ UNCHANGED <<test, at, open, failed, stopped, calling, id, item, late, faults>>
  BY DEF CallGoesOn, testVars, remote, stepVars
<1>2. /\ UNCHANGED <<template, params, expired, status>>
      /\ \/ /\ pc \notin {"read", "decode", "returned", "idle"}
            /\ pc' \notin {"read", "decode", "returned", "idle"}
         \/ /\ pc = "decode" /\ pc' = "returned" /\ statusCode' = status
            /\ status < 400 /\ answer = "fits" => decoded' = "all"
  <2>1. CASE \E key \in Keys : FillIn(key)
    BY <2>1 DEF FillIn, request
  <2>2. CASE Resolve \/ WriteBody \/ SetHeaders
    BY <2>2 DEF Resolve, WriteBody, SetHeaders, request
  <2>3. CASE ReturnError
    <3>1. status >= 400 /\ status \in 100 .. 599
      BY <2>3, ZenonT(30), NumberAssumption DEF ReturnError, IsError, HttpInv, ResponseInv
    <3> QED BY <2>3, <3>1 DEF ReturnError, request
  <2>4. CASE ReturnBody
    BY <2>4 DEF ReturnBody, request
  <2> QED BY <2>1, <2>2, <2>3, <2>4 DEF CallGoesOn
<1>3. HttpInv'
  BY FillInStep, RequestStep DEF CallGoesOn
<1>4. StepsInv' /\ Steps' = Steps /\ UnderWay(Steps)' = UnderWay(Steps)
  BY <1>1, StepsStay
<1>5. CallInv'
  BY <1>1, <1>2, <1>4 DEF CallInv
<1>6. GoodCallInv'
  BY <1>1, <1>2, <1>4 DEF GoodCallInv
<1>7. ItemInv'
  <2>1. \A k \in DOMAIN Steps : Served(k)' <=> Served(k)
    BY <1>1, <1>2 DEF Served
  <2> QED BY <1>1, <2>1, ItemStays
<1>8. SealedInv'
  BY <1>1, <1>2, SealedStays DEF SealedInv
<1>9. OnlyRowsFail'
  BY <1>1, <1>4 DEF OnlyRowsFail
<1> QED BY <1>3, <1>4, <1>5, <1>6, <1>7, <1>8, <1>9

\* A value is a text, or empty.
LEMMA TextIsPath == <<Text>> \in Seq({Text}) /\ << >> \in Seq({Text})
<1>1. PICK t : t = Text
  OBVIOUS
<1>2. <<t>> \in Seq({t}) /\ << >> \in Seq({t})
  OBVIOUS
<1> QED BY <1>1, <1>2

\* A request by a method of the API has placeholders of its parameters only.
LEMMA MethodStep ==
    ASSUME HttpInv, NEW name \in DOMAIN Methods, NEW value \in Seq({Text}),
           Call(name, [key \in GivenBySuites(name) |-> value])
    PROVE  /\ HttpInv'
           /\ pc = "idle" /\ pc' = "path"
           /\ UNCHANGED <<expired, status, answer, statusCode, decoded>>
           /\ template' \in Seq({Text} \cup {Hole(key) : key \in DOMAIN params'})
           /\ \A key \in DOMAIN params' : params'[key] \in Seq({Text})
<1>1. PICK given : given = [key \in GivenBySuites(name) |-> value]
  OBVIOUS
<1>2. PICK to \in Seq(Parts(DOMAIN given)), b \in BOOLEAN, form \in BOOLEAN :
         DoRequest(to, given, b, form, "none")
  BY <1>1, CallSuits
<1>3. DOMAIN given \subseteq Keys /\ \A key \in DOMAIN given : given[key] \in Seq({Text})
  BY <1>1, KeysAssumption
<1>4. Parts(DOMAIN given) \subseteq Part /\ {Text} \subseteq Part
  BY <1>3 DEF Parts, Part
<1>5. to \in Seq(Part) /\ ParametersFit(given)
  BY <1>3, <1>4 DEF ParametersFit
<1>6. HttpInv'
  BY <1>2, <1>5, DoRequestStep
<1>7. /\ pc = "idle" /\ pc' = "path" /\ template' = to /\ params' = given
      /\ UNCHANGED <<expired, status, answer, statusCode, decoded>>
  BY <1>2 DEF DoRequest, response
<1> QED BY <1>3, <1>6, <1>7 DEF Parts

\* A step begins its request.
LEMMA BeginCallStep ==
    TestInv /\ (\E k \in UnderWay(Steps) : BeginCall(k)) => TestInv'
<1> SUFFICES ASSUME TestInv, NEW k \in UnderWay(Steps), BeginCall(k) PROVE TestInv'
  OBVIOUS
<1> USE DEF TestInv
<1>1. /\ calling = 0 /\ calling' = k /\ Steps[k].method # "none"
      /\ UNCHANGED <<test, at, open, failed, stopped, id, item, late, faults>>
  BY DEF BeginCall, remote, stepVars
<1>2. /\ test \notin Alone /\ k \in DOMAIN Steps /\ k \in Nat \ {0}
      /\ Sends(Steps[k]) /\ Steps[k].method \in DOMAIN Methods
  BY <1>1, UnderWayIs, ProgramIs DEF HasShape
<1>3. IdValue \in Seq({Text})
  BY TextIsPath DEF IdValue
<1>4. /\ HttpInv'
      /\ pc = "idle" /\ pc' = "path"
      /\ UNCHANGED <<expired, status, answer, statusCode, decoded>>
      /\ template' \in Seq({Text} \cup {Hole(key) : key \in DOMAIN params'})
      /\ \A key \in DOMAIN params' : params'[key] \in Seq({Text})
  BY <1>2, <1>3, MethodStep DEF BeginCall, ItemKey
<1>5. StepsInv' /\ Steps' = Steps /\ UnderWay(Steps)' = UnderWay(Steps)
  BY <1>1, StepsStay
<1>6. CallInv'
  BY <1>1, <1>2, <1>4, <1>5 DEF CallInv
<1>7. GoodCallInv'
  BY <1>1, <1>2, <1>4, <1>5 DEF GoodCallInv
<1>8. ItemInv'
  <2>1. \A l \in DOMAIN Steps : Served(l)' <=> Served(l)
    BY <1>1, <1>4 DEF Served
  <2> QED BY <1>1, <2>1, ItemStays
<1>9. SealedInv'
  BY <1>1, <1>4, SealedStays DEF SealedInv
<1>10. OnlyRowsFail'
  BY <1>1, <1>5 DEF OnlyRowsFail
<1> QED BY <1>4, <1>5, <1>6, <1>7, <1>8, <1>9, <1>10

-----------------------------------------------------------------------------
(* The steps of the test. *)

\* A request that is sent again is one that something went wrong with.
LEMMA CallAgainStep ==
    TestInv /\ (\E k \in UnderWay(Steps) : CallAgain(k)) => TestInv'
<1> SUFFICES ASSUME TestInv, NEW k \in UnderWay(Steps), CallAgain(k) PROVE TestInv'
  OBVIOUS
<1> USE DEF TestInv
<1>1. /\ calling = k /\ calling' = 0 /\ pc = "returned" /\ pc' = "idle" /\ Forget
      /\ statusCode # GoodStatus(Steps[k])
      /\ UNCHANGED <<test, at, open, failed, stopped, id, item, late, faults>>
  BY DEF CallAgain, Forget, SendsAgain, Done, remote, stepVars
<1>2. HttpInv'
  BY <1>1, ForgetStep
<1>3. StepsInv' /\ Steps' = Steps /\ UnderWay(Steps)' = UnderWay(Steps)
  BY <1>1, StepsStay
<1>4. CallInv'
  BY <1>1, <1>3 DEF CallInv
<1>5. calling # 0
  BY <1>1, UnderWayIs
<1>6. faults' \in Nat /\ faults' > 0
  BY <1>1, <1>5 DEF GoodCallInv
<1>7. GoodCallInv' /\ ItemInv' /\ OnlyRowsFail'
  BY <1>6 DEF GoodCallInv, ItemInv, OnlyRowsFail
<1>8. SealedInv'
  BY <1>1, SealedStays DEF SealedInv
<1> QED BY <1>2, <1>3, <1>4, <1>7, <1>8

\* As long as nothing was lost, a request returns what the test expects of it.
LEMMA AnswerIsGood ==
    ASSUME TestInv, faults = 0, NEW k \in UnderWay(Steps), calling = k, pc = "returned",
           NEW idShown \in IdShown
    PROVE  /\ Good(Steps[k], idShown)
           /\ Steps[k].does = "create" => idShown = "known"
<1> USE DEF TestInv
<1>1. /\ k # 0 /\ k \in DOMAIN Steps /\ test \notin Alone /\ Sends(Steps[k])
      /\ Steps[k].does = "create" <=> k = 1
  BY UnderWayIs, CallingIs
<1>2. /\ Steps[k].does \in {"create", "get"} => GoodStatus(Steps[k]) = 200
      /\ Steps[k].check = "id" => Steps[k].does = "create"
  BY <1>1, ProgramIs DEF HasShape
<1>3. Done(Steps[k])
  BY <1>1 DEF GoodCallInv, Done
<1>4. GoodStatus(Steps[k]) = 200 => decoded = "all" /\ idShown = "known"
  BY <1>1 DEF GoodCallInv, IdShown
<1>5. Steps[k].does = "get" /\ Steps[k].check = "assert" => item \in Steps[k].fits
  <2>1. Steps[k].does = "get" => k # 1 /\ ~Acts(Steps[k])
    BY <1>1 DEF Acts
  <2> QED BY <1>1, <2>1, ItemIsThere
<1> QED BY <1>2, <1>3, <1>4, <1>5 DEF Good

\* A step passes when its checks hold, and only then.
LEMMA VerdictIs ==
    ASSUME NEW step, NEW good, NEW verdict \in Verdicts(step, good)
    PROVE  /\ verdict \in {"passed", "failed", "fatal"}
           /\ verdict = "passed" <=> good
<1>1. CASE good
  BY <1>1 DEF Verdicts
<1>2. CASE ~good /\ step.indexes /\ decoded # "all"
  BY <1>2 DEF Verdicts
<1>3. CASE ~good /\ ~(step.indexes /\ decoded # "all")
  BY <1>3 DEF Verdicts, Marked
<1> QED BY <1>1, <1>2, <1>3

\* A step is over with its request.
LEMMA EndCallStep ==
    TestInv /\ (\E k \in UnderWay(Steps) : EndCall(k)) => TestInv'
<1> SUFFICES ASSUME TestInv, NEW k \in UnderWay(Steps), EndCall(k) PROVE TestInv'
  OBVIOUS
<1> USE DEF TestInv
<1>1. PICK idShown \in IdShown, verdict \in {"passed", "failed", "fatal"} :
        /\ calling = k /\ calling' = 0 /\ pc = "returned" /\ pc' = "idle" /\ Forget
        /\ id' = IF Steps[k].does = "create" THEN idShown ELSE id
        /\ Ends(k, verdict) /\ (verdict = "passed" <=> Good(Steps[k], idShown))
        /\ UNCHANGED <<test, item, late, faults>>
        /\ expired' = FALSE
  <2>1. PICK idShown \in IdShown :
          /\ id' = IF Steps[k].does = "create" THEN idShown ELSE id
          /\ \E verdict \in Verdicts(Steps[k], Good(Steps[k], idShown)) : Ends(k, verdict)
    BY DEF EndCall
  <2>2. PICK verdict \in Verdicts(Steps[k], Good(Steps[k], idShown)) : Ends(k, verdict)
    BY <2>1
  <2>3. /\ verdict \in {"passed", "failed", "fatal"}
        /\ verdict = "passed" <=> Good(Steps[k], idShown)
    BY <2>2, VerdictIs
  <2>4. /\ calling = k /\ calling' = 0 /\ pc = "returned" /\ pc' = "idle" /\ Forget
        /\ UNCHANGED <<test, item, late, faults>> /\ expired' = FALSE
    BY DEF EndCall, Forget, remote
  <2> QED BY <2>1, <2>2, <2>3, <2>4
<1>3. /\ verdict = "passed" <=> Good(Steps[k], idShown)
      /\ faults = 0 => verdict = "passed"
      /\ faults = 0 /\ Steps[k].does = "create" => id' = "known"
  BY <1>1, AnswerIsGood
<1>4. /\ k # 0 /\ k \in DOMAIN Steps /\ test \notin Alone /\ Sends(Steps[k]) /\ k \in Nat /\ k <= at
      /\ Steps[k].does = "create" <=> k = 1
      /\ k \notin open => k = at
      /\ k \in open => k < at
  BY <1>1, UnderWayIs, CallingIs
<1>5. /\ StepsInv' /\ Steps' = Steps
      /\ at' \in {at, at + 1} /\ (at' = at + 1 => k = at)
      /\ k \notin open /\ verdict # "fatal" => at' = at + 1
      /\ \A l \in DOMAIN Steps : l < at' /\ l \notin failed' =>
           (l < at /\ l \notin failed) \/ (l = k /\ verdict = "passed")
      /\ failed' = IF verdict = "passed" THEN failed ELSE failed \cup {k}
  <2>1. Ends(k, verdict) /\ test' = test
    BY <1>1
  <2> QED BY <2>1, EndsStep
<1>6. at \in Nat /\ faults \in Nat /\ DOMAIN Steps \subseteq Nat
  BY StepsAre DEF GoodCallInv
<1>7. HttpInv'
  BY <1>1, ForgetStep
<1>8. CallInv'
  BY <1>1 DEF CallInv
<1>9. GoodCallInv'
  <2>1. at' > 1 /\ id' # "known" => faults' > 0
    BY <1>1, <1>3, <1>4, <1>6 DEF GoodCallInv
  <2> QED BY <1>1, <2>1 DEF GoodCallInv
<1>10. ItemInv'
  <2> SUFFICES ASSUME faults' = 0 PROVE ItemInv'
    BY DEF ItemInv
  <2>1. faults = 0 /\ verdict = "passed" /\ item' = item
    BY <1>1, <1>3
  <2>2. \A l \in DOMAIN Steps : Served(l)' <=> Served(l)
    BY <1>1, <1>4, <1>5, <1>6, <2>1 DEF Served
  <2>3. \A l \in DOMAIN Steps : ServedLast(l)' => ServedLast(l)
    BY <1>5, <2>2 DEF ServedLast
  <2> QED BY <1>5, <2>1, <2>2, <2>3 DEF ItemInv
<1>11. SealedInv'
  <2>1. ASSUME NEW l \in DOMAIN Steps, Seals(Steps, l), l < at', l \notin failed'
        PROVE  item = Effect(Steps[l])
    <3>1. CASE l < at /\ l \notin failed
      BY <2>1, <3>1 DEF SealedInv
    <3>2. CASE l = k /\ verdict = "passed"
      <4>1. Good(Steps[k], idShown) /\ Steps[k].check \notin {"none", "id"} /\ Steps[k].does # "get"
        BY <1>3, <1>4, <2>1, <3>2, ProgramIs DEF SealsOnce, Seals
      <4>2. Done(Steps[k])
        BY <4>1 DEF Good
      <4> QED BY <1>1, <2>1, <3>2, <4>2 DEF SealedInv, Done
    <3> QED BY <1>5, <2>1, <3>1, <3>2
  <2> QED BY <1>1, <1>5, <2>1 DEF SealedInv
<1>12. OnlyRowsFail'
  BY <1>1, <1>3, <1>5 DEF OnlyRowsFail
<1> QED BY <1>5, <1>7, <1>8, <1>9, <1>10, <1>11, <1>12

\* A step ends that sends no request.
LEMMA LookStep ==
    ASSUME TestInv, NEW k \in UnderWay(Steps), ~Sends(Steps[k]), NEW verdict, Ends(k, verdict),
           UNCHANGED <<vars, test, calling, item, late>>,
           faults' \in {faults, faults + 1}, id' \in {id, "known"},
           faults' = 0 => verdict = "passed" \/ Steps[k].does \in {"row", "absent"},
           Steps[k].does = "pick" /\ faults' = 0 => id' = "known"
    PROVE  TestInv'
<1> USE DEF TestInv
<1>1. UNCHANGED <<template, params, pc, expired, status, answer, statusCode, decoded>>
  BY DEF vars, request, response
<1>2. /\ k # 0 /\ k \in DOMAIN Steps /\ test \notin Alone /\ k \in Nat /\ k <= at
      /\ k = 1 => Steps[k].does = "pick"
      /\ k # 1 => ~Acts(Steps[k])
      /\ k \notin open => k = at
      /\ k \in open => k < at
      /\ ~Seals(Steps, k)
  <2>1. k \in DOMAIN Steps /\ test \notin Alone
    BY UnderWayIs
  <2>2. Steps[k].does \in {"create", "pick"} <=> k = 1
    BY <2>1, ProgramIs DEF MakesFirst
  <2> QED BY <2>1, <2>2, UnderWayIs DEF Sends, Acts, Seals
<1>3. /\ StepsInv' /\ Steps' = Steps
      /\ at' \in {at, at + 1} /\ (at' = at + 1 => k = at)
      /\ \A l \in DOMAIN Steps : l < at' /\ l \notin failed' =>
           (l < at /\ l \notin failed) \/ (l = k /\ verdict = "passed")
      /\ failed' = IF verdict = "passed" THEN failed ELSE failed \cup {k}
      /\ \A l \in UnderWay(Steps) : l # k => l \in UnderWay(Steps)'
  BY EndsStep
<1>4. at \in Nat /\ faults \in Nat /\ DOMAIN Steps \subseteq Nat \ {0} /\ (faults' = 0 => faults = 0)
  BY StepsAre DEF GoodCallInv
<1>5. HttpInv'
  BY StutterStep
<1>6. calling # k
  BY <1>2 DEF CallInv
<1>7. CallInv'
  BY <1>1, <1>3, <1>6 DEF CallInv
<1>8. GoodCallInv'
  <2>1. at' > 1 /\ id' # "known" => faults' > 0
    BY <1>2, <1>3, <1>4 DEF GoodCallInv
  <2> QED BY <1>1, <1>3, <1>4, <2>1 DEF GoodCallInv
<1>9. ItemInv'
  <2> SUFFICES ASSUME faults' = 0 PROVE ItemInv'
    BY DEF ItemInv
  <2>1. faults = 0 /\ item' = item
    BY <1>4
  <2>2. \A l \in DOMAIN Steps : /\ Served(l) => Served(l)'
                                /\ l # k => (Served(l)' <=> Served(l))
    BY <1>1, <1>3, <1>4 DEF Served
  <2>3. CASE k # 1
    <3>1. \A l \in DOMAIN Steps : ServedLast(l)' => ServedLast(l)
      BY <1>2, <1>3, <2>2, <2>3 DEF ServedLast
    <3> QED BY <1>3, <2>1, <2>2, <3>1 DEF ItemInv
  <2>4. CASE k = 1
    <3>1. at = 1 /\ calling = 0
      <4>1. at = 1
        <5>1. ~Steps[1].async
          BY <1>2, <2>4, ProgramIs DEF HasShape, Acts
        <5> QED BY <1>2, <2>4, <5>1, UnderWayIs
      <4>2. ASSUME calling # 0 PROVE FALSE
        <5>1. calling \in Nat \ {0} /\ calling <= at
          BY <4>2, CallingIs
        <5> QED BY <1>6, <2>4, <4>1, <5>1
      <4> QED BY <4>1, <4>2
    <3>2. item = "made" /\ Effect(Steps[1]) = "made"
      <4>1. 1 \in DOMAIN Steps /\ ~Served(1) /\ Steps[1].does = "pick"
        BY <1>2, <2>4, <3>1 DEF Served
      <4> QED BY <2>1, <4>1 DEF ItemInv, Effect
    <3>3. \A l \in DOMAIN Steps : Served(l)' => l = 1
      BY <1>3, <1>4, <3>1 DEF Served
    <3>4. \A l \in DOMAIN Steps : ServedLast(l)' => l = 1
      BY <3>3 DEF ServedLast
    <3>5. ~Served(1)' => item' = IF Steps[1].does = "pick" THEN "made" ELSE "none"
      BY <1>2, <2>1, <2>4, <3>2
    <3> QED BY <1>3, <2>1, <3>2, <3>4, <3>5 DEF ItemInv
  <2> QED BY <2>3, <2>4
<1>10. SealedInv'
  BY <1>1, <1>2, <1>3 DEF SealedInv
<1>11. OnlyRowsFail'
  BY <1>3, <1>4 DEF OnlyRowsFail
<1> QED BY <1>3, <1>5, <1>7, <1>8, <1>9, <1>10, <1>11

\* The steps that send no request: they read rows, look for an absence, pick a
\* game or find a message.
LEMMA ReadStep ==
    ASSUME TestInv, NEW k \in UnderWay(Steps),
           \/ ReadRow(k) \/ ReadRowLate(k) \/ PickRow(k) \/ FindMessage(k) \/ FindAbsence(k) \/ QueryFails(k)
    PROVE  TestInv'
<1> DEFINE Looks(verdict) ==
             /\ ~Sends(Steps[k]) /\ Ends(k, verdict)
             /\ UNCHANGED <<vars, test, calling, item, late>>
             /\ faults' \in {faults, faults + 1} /\ id' \in {id, "known"}
             /\ faults' = 0 => verdict = "passed" \/ Steps[k].does \in {"row", "absent"}
             /\ Steps[k].does = "pick" /\ faults' = 0 => id' = "known"
<1>1. faults \in Nat
  BY DEF TestInv, GoodCallInv
<1>2. \E verdict : Looks(verdict)
  <2>1. CASE ReadRow(k)
    BY <2>1 DEF ReadRow, Sends, remote
  <2>2. CASE ReadRowLate(k)
    BY <2>2 DEF ReadRowLate, Sends
  <2>3. CASE PickRow(k)
    BY <2>3 DEF PickRow, Sends, remote
  <2>4. CASE FindMessage(k)
    BY <1>1, <2>4 DEF FindMessage, Sends, Fault
  <2>5. CASE FindAbsence(k)
    BY <2>5 DEF FindAbsence, Sends
  <2>6. CASE QueryFails(k)
    <3>1. /\ faults' = faults + 1 /\ id' \in {id, "known"}
          /\ UNCHANGED <<vars, test, calling, item, late>>
          /\ Steps[k].does \in {"row", "pick", "absent"}
          /\ \E verdict : Ends(k, verdict)
      BY <2>6 DEF QueryFails, Fault
    <3> QED BY <1>1, <3>1 DEF Sends
  <2> QED BY <2>1, <2>2, <2>3, <2>4, <2>5, <2>6
<1> QED BY <1>2, LookStep

\* An asynchronous step is started.
LEMMA SpawnStep == TestInv /\ Spawn => TestInv'
<1> SUFFICES ASSUME TestInv, Spawn PROVE TestInv'
  OBVIOUS
<1> USE DEF TestInv
<1>1. /\ calling = 0 /\ ~stopped /\ at <= Len(Steps) /\ Steps[at].async
      /\ open' = open \cup {at} /\ at' = at + 1
      /\ UNCHANGED <<vars, test, calling, id, item, late, faults, failed, stopped>>
  BY DEF Spawn, SpawnNext, remote
<1>2. /\ UNCHANGED <<template, params, pc, expired, status, answer, statusCode, decoded>>
      /\ Steps' = Steps
  BY <1>1 DEF vars, request, response, Steps
<1>3. /\ test \notin Alone /\ at \in DOMAIN Steps /\ at \in Nat
      /\ DOMAIN Steps = 1 .. Len(Steps) /\ Len(Steps) \in Nat
  BY <1>1, StepsAre
<1>4. at # 1 /\ ~Acts(Steps[at]) /\ ~Seals(Steps, at)
  BY <1>1, <1>3, ProgramIs DEF HasShape, MakesFirst, Acts, Seals
<1>5. HttpInv'
  BY <1>1, StutterStep
<1>6. StepsInv'
  BY <1>1, <1>2, <1>3 DEF StepsInv
<1>7. CallInv'
  BY <1>1, <1>2 DEF CallInv
<1>8. GoodCallInv'
  BY <1>1, <1>2, <1>3, <1>4 DEF GoodCallInv
<1>9. ItemInv'
  <2>1. \A l \in DOMAIN Steps : /\ Served(l) => Served(l)'
                                /\ l # at => (Served(l)' <=> Served(l))
    BY <1>1, <1>2, <1>3 DEF Served
  <2>2. \A l \in DOMAIN Steps : ServedLast(l)' => ServedLast(l)
    BY <1>2, <1>4, <2>1 DEF ServedLast
  <2> QED BY <1>1, <1>2, <2>1, <2>2 DEF ItemInv
<1>10. SealedInv'
  BY <1>1, <1>2, <1>3, <1>4 DEF SealedInv
<1>11. OnlyRowsFail'
  BY <1>1, <1>2 DEF OnlyRowsFail
<1> QED BY <1>5, <1>6, <1>7, <1>8, <1>9, <1>10, <1>11

\* The tests of the client and of the methods alone: no step of a test runs.
LEMMA AloneStep == TestInv /\ (CallAlone \/ ApiAlone) => TestInv'
<1> SUFFICES ASSUME TestInv, CallAlone \/ ApiAlone PROVE TestInv'
  OBVIOUS
<1> USE DEF TestInv
<1>1. /\ test \in {"client", "api"}
      /\ UNCHANGED <<test, at, open, failed, stopped, calling, id, item, late, faults>>
  BY DEF CallAlone, ApiAlone, testVars, remote, stepVars
<1>2. DOMAIN Steps = {} /\ calling = 0
  <2>1. test \in Alone
    BY <1>1 DEF Alone
  <2> QED BY <2>1, StepsAre, CallingIs
<1>3. StepsInv' /\ Steps' = Steps
  BY <1>1, StepsStay
<1>4. HttpInv' /\ CallInv'
  <2>1. CASE CallAlone
    <3>1. HttpInv'
      BY <2>1, HttpStep DEF CallAlone
    <3>2. test = "client"
      BY <2>1 DEF CallAlone
    <3> QED BY <1>1, <1>2, <3>1, <3>2 DEF CallInv
  <2>2. ASSUME NEW name \in DOMAIN Methods, test = "api",
               Call(name, [key \in GivenBySuites(name) |-> <<Text>>])
        PROVE  HttpInv' /\ CallInv'
    <3>1. PICK value \in Seq({Text}) : value = <<Text>>
      BY TextIsPath
    <3>2. Call(name, [key \in GivenBySuites(name) |-> value])
      BY <2>2, <3>1
    <3>3. /\ HttpInv'
          /\ template' \in Seq({Text} \cup {Hole(key) : key \in DOMAIN params'})
          /\ \A key \in DOMAIN params' : params'[key] \in Seq({Text})
      BY <3>2, MethodStep
    <3> QED BY <1>1, <1>2, <2>2, <3>3 DEF CallInv
  <2>3. CASE ClientStep /\ test = "api"
    <3>1. HttpInv'
      BY <2>3, FillInStep, RequestStep DEF ClientStep
    <3>2. UNCHANGED <<template, params>> /\ (pc' \notin {"idle", "returned"} => pc \notin {"idle", "returned"})
      BY <2>3 DEF ClientStep, FillIn, Resolve, WriteBody, SetHeaders, TimesOut, ReturnError, ReturnBody,
                  Abandon, request
    <3> QED BY <1>1, <1>2, <2>3, <3>1, <3>2 DEF CallInv
  <2> QED BY <2>1, <2>2, <2>3 DEF ApiAlone
<1>5. GoodCallInv' /\ ItemInv' /\ SealedInv' /\ OnlyRowsFail'
  <2>1. GoodCallInv'
    BY <1>1, <1>2 DEF GoodCallInv
  <2>2. ItemInv' /\ OnlyRowsFail'
    BY <1>1, <1>2, <1>3 DEF ItemInv, OnlyRowsFail
  <2>3. SealedInv'
    BY <1>1, <1>2, <1>3 DEF SealedInv
  <2> QED BY <2>1, <2>2, <2>3
<1> QED BY <1>3, <1>4, <1>5

-----------------------------------------------------------------------------
(* The theorems. *)

\* The invariant holds at first.
LEMMA TestInitInv == TestInit => TestInv
<1> SUFFICES ASSUME TestInit PROVE TestInv
  OBVIOUS
<1>1. /\ at = 1 /\ open = {} /\ failed = {} /\ stopped = FALSE
      /\ pc = "idle" /\ expired = FALSE /\ test \in Alone \cup DOMAIN Program
      /\ calling = 0 /\ id = "none" /\ late = {} /\ faults = 0
      /\ item = IF test \in OfGames THEN "made" ELSE "none"
  BY DEF TestInit, Idle, NothingDone
<1>2. HttpInv
  BY IdleIsSafe DEF TestInit
<1>3. StepsInv
  <2>1. Len(Steps) \in Nat
    <3>1. CASE test \in Alone
      BY <3>1 DEF Steps
    <3>2. CASE test \notin Alone
      BY <1>1, <3>2, ProgramsFit DEF Steps, WellFormed
    <3> QED BY <3>1, <3>2
  <2> QED BY <1>1, <2>1 DEF StepsInv
<1>4. CallInv /\ GoodCallInv /\ OnlyRowsFail
  BY <1>1 DEF CallInv, GoodCallInv, OnlyRowsFail
<1>5. \A k \in DOMAIN Steps : ~Served(k) /\ k \in Nat \ {0} /\ test \notin Alone
  BY <1>1, <1>3, StepsAre DEF Served
<1>6. ItemInv
  <2>1. \A k \in DOMAIN Steps : k = 1 => item = IF Steps[k].does = "pick" THEN "made" ELSE "none"
    BY <1>1, <1>3, <1>5, ProgramIs
  <2> QED BY <1>5, <2>1 DEF ItemInv, ServedLast
<1>7. SealedInv
  BY <1>1, <1>3, <1>5 DEF SealedInv
<1> QED BY <1>2, <1>3, <1>4, <1>6, <1>7 DEF TestInv

\* No step breaks it.
LEMMA TestNextInv == TestInv /\ [TestNext]_allVars => TestInv'
<1> SUFFICES ASSUME TestInv, [TestNext]_allVars PROVE TestInv'
  OBVIOUS
<1>1. CASE UNCHANGED allVars
  <2>1. /\ UNCHANGED <<vars, test, at, open, failed, stopped, calling, id, item, late, faults>>
        /\ UNCHANGED <<template, params, pc, expired, status, answer, statusCode, decoded>>
        /\ Steps' = Steps
    BY <1>1 DEF allVars, testVars, remote, stepVars, vars, request, response, Steps
  <2>2. HttpInv'
    BY <2>1, StutterStep DEF TestInv
  <2>3. StepsInv' /\ UnderWay(Steps)' = UnderWay(Steps)
    BY <2>1, StepsStay DEF TestInv
  <2>4. CallInv' /\ GoodCallInv' /\ SealedInv' /\ OnlyRowsFail'
    BY <2>1, <2>3 DEF TestInv, CallInv, GoodCallInv, SealedInv, OnlyRowsFail
  <2>5. ItemInv'
    <3>1. \A k \in DOMAIN Steps : Served(k)' <=> Served(k)
      BY <2>1 DEF Served
    <3> QED BY <2>1, <3>1, ItemStays DEF TestInv
  <2> QED BY <2>2, <2>3, <2>4, <2>5 DEF TestInv
<1>2. ASSUME NEW k \in UnderWay(Steps), StepOf(k) PROVE TestInv'
  BY <1>2, BeginCallStep, CallAgainStep, EndCallStep, ReadStep DEF StepOf
<1>3. CASE TestNext
  BY <1>2, <1>3, ServeStep, DeliverStep, ServeLateStep, ShowStep, ExpireStep, GiveUpStep, GoesOnStep, SpawnStep,
     AloneStep DEF TestNext, Services, TestStep
<1> QED BY <1>1, <1>3

\* The invariant holds whenever a test runs.
LEMMA TestAlwaysInv == TestSpec => []TestInv
BY TestInitInv, TestNextInv, PTL DEF TestSpec

\* A path whose placeholders all have a parameter consists of texts.
LEMMA PathIsText ==
    ASSUME HttpInv, CallInv, pc = "send", test # "client"
    PROVE  path \in Seq({Text})
<1>1. /\ template \in Seq({Text} \cup {Hole(key) : key \in DOMAIN params})
      /\ \A key \in DOMAIN params : params[key] \in Seq({Text})
  BY DEF CallInv
<1> DEFINE parts == [n \in DOMAIN template |->
                       IF template[n].kind = "hole" /\ template[n].key \in DOMAIN params
                       THEN PathEscape(params[template[n].key])
                       ELSE <<template[n]>>]
<1>2. path = FlattenSeq(parts)
  <2>1. PathIsOrderFree
    BY PathIsFilled
  <2>2. pc \notin {"idle", "path", "returned"}
    OBVIOUS
  <2>3. path = FlattenSeq([n \in DOMAIN template |->
                 IF template[n].kind = "hole" /\ template[n].key \in DOMAIN params
                 THEN PathEscape(params[template[n].key])
                 ELSE <<template[n]>>])
    BY <2>1, <2>2, Zenon DEF PathIsOrderFree
  <2> QED BY <2>3, Zenon
<1>3. ASSUME NEW n \in DOMAIN template PROVE parts[n] \in Seq({Text})
  <2>1. CASE template[n] = Text
    <3>1. parts[n] = <<Text>>
      BY <1>3, <2>1 DEF Text
    <3> QED BY <3>1, TextIsPath
  <2>2. ASSUME NEW key \in DOMAIN params, template[n] = Hole(key) PROVE parts[n] \in Seq({Text})
    <3>1. parts[n] = PathEscape(params[key])
      BY <1>3, <2>2 DEF Hole
    <3>2. params[key] \in Seq({Text})
      BY <1>1
    <3>3. PathEscape(params[key]) \in Seq({Text})
      <4>1. PICK value \in Seq({Text}) : value = params[key]
        BY <3>2
      <4>2. \A i \in DOMAIN value : value[i] = Text
        BY <4>1
      <4>3. \A i \in DOMAIN value : PathEscape(value)[i] = Text
        BY <4>2 DEF PathEscape, Text
      <4>4. Len(value) \in Nat /\ DOMAIN PathEscape(value) = 1 .. Len(value)
        BY <4>1 DEF PathEscape
      <4>5. PathEscape(value) = [i \in 1 .. Len(value) |-> Text]
        BY <4>2, <4>3, <4>4 DEF PathEscape
      <4> QED BY <4>1, <4>4, <4>5
    <3> QED BY <3>1, <3>3
  <2>3. template[n] \in {Text} \cup {Hole(key) : key \in DOMAIN params}
    BY <1>1
  <2> QED BY <2>1, <2>2, <2>3
<1>4. parts \in Seq(Seq({Text}))
  <2>1. Len(template) \in Nat /\ DOMAIN template = 1 .. Len(template)
    BY <1>1
  <2>2. parts = [n \in 1 .. Len(template) |-> parts[n]]
    BY <2>1
  <2>3. \A n \in 1 .. Len(template) : parts[n] \in Seq({Text})
    BY <1>3, <2>1
  <2> HIDE DEF parts
  <2> QED BY <2>1, <2>2, <2>3
<1> HIDE DEF parts
<1> QED BY <1>2, <1>4, TextIsPath, FlattenAppend

\* Every request of the suites has all placeholders of its path replaced, and
\* one for an item without an id is sent only after a fault, for any number of
\* faults (brand_status_test.go:60-73, update_brand_positive_test.go:70-85).
THEOREM PathsNameItems == TestSpec => []PathNamesItem
<1>1. TestInv => PathNamesItem
  <2> SUFFICES ASSUME TestInv, pc = "send", test # "client"
               PROVE  /\ \A n \in DOMAIN path : path[n].kind = "text"
                      /\ calling # 0 /\ Steps[calling].does # "create" /\ id # "known" => faults > 0
    BY DEF PathNamesItem
  <2>1. \A n \in DOMAIN path : path[n].kind = "text"
    <3>1. path \in Seq({Text})
      BY PathIsText DEF TestInv
    <3>2. \A n \in DOMAIN path : path[n] = Text
      BY <3>1
    <3> QED BY <3>2 DEF Text
  <2>2. ASSUME calling # 0, Steps[calling].does # "create", id # "known" PROVE faults > 0
    <3>1. calling \in Nat \ {0} /\ calling # 1 /\ calling <= at /\ at \in Nat
      BY <2>2, CallingIs, StepsAre DEF TestInv
    <3>2. at > 1
      BY <3>1
    <3> QED BY <2>2, <3>2 DEF TestInv, GoodCallInv
  <2> QED BY <2>1, <2>2
<1> QED BY <1>1, TestAlwaysInv, PTL

\* A test that passed has done all that it says, whatever was lost, late or sent
\* twice on the way (create_brand_test.go, delete_category_test.go).
THEOREM PassedTestsAreDone == TestSpec => []PassedMeansDone
<1>1. TestInv => PassedMeansDone
  <2> SUFFICES ASSUME TestInv, Ended(Steps), failed = {}, test \notin Alone
               PROVE  LET does == {Steps[k].does : k \in DOMAIN Steps}
                          changes == {Steps[k].to : k \in DOMAIN Steps} \ {"none"}
                      IN  IF "delete" \in does THEN item = "deleted"
                          ELSE item \in IF changes = {} THEN {"made"} ELSE changes
    BY DEF PassedMeansDone
  <2> DEFINE does == {Steps[k].does : k \in DOMAIN Steps}
             changes == {Steps[k].to : k \in DOMAIN Steps} \ {"none"}
  <2> USE DEF TestInv
  <2>1. HasShape(Steps) /\ SealsOnce(Steps) /\ DOMAIN Steps = 1 .. Len(Steps) /\ Len(Steps) \in Nat
        /\ at \in Nat
    BY ProgramIs, StepsAre
  <2>2. at > Len(Steps)
    BY DEF Ended, StepsInv
  <2>3. PICK k \in DOMAIN Steps : Seals(Steps, k)
    BY <2>1 DEF SealsOnce
  <2>4. item = Effect(Steps[k])
    BY <2>1, <2>2, <2>3 DEF SealedInv
  <2>5. CASE Deletes(Steps)
    <3>1. Steps[k].does = "delete" /\ "delete" \in does
      BY <2>3, <2>5 DEF Seals
    <3> QED BY <2>4, <3>1 DEF Effect
  <2>6. CASE ~Deletes(Steps)
    <3>1. "delete" \notin does
      BY <2>6 DEF Deletes
    <3>2. CASE \E l \in DOMAIN Steps : Steps[l].does = "change"
      <4>1. PICK l \in DOMAIN Steps : Steps[l].does = "change"
        BY <3>2
      <4>2. Effect(Steps[l]) = Steps[l].to /\ Seals(Steps, l) /\ Steps[l].to # "none"
        BY <2>1, <2>6, <4>1 DEF Effect, Seals, HasShape, Live
      <4>3. item = Steps[l].to
        BY <2>1, <2>3, <2>4, <4>2 DEF SealsOnce
      <4> QED BY <3>1, <4>2, <4>3
    <3>3. CASE \A l \in DOMAIN Steps : Steps[l].does # "change"
      <4>1. item = "made"
        BY <2>3, <2>4, <2>6, <3>3 DEF Seals, Deletes, Effect
      <4>2. changes = {}
        BY <2>1, <3>3 DEF HasShape
      <4> QED BY <3>1, <4>1, <4>2
    <3> QED BY <3>2, <3>3
  <2> QED BY <2>5, <2>6
<1> QED BY <1>1, TestAlwaysInv, PTL

\* As long as nothing is lost and every query works, only the steps that read
\* the database before it shows what the API did fail.
THEOREM OnlyHastyRowsFail == TestSpec => []OnlyRowsFail
<1>1. TestInv => OnlyRowsFail
  BY DEF TestInv
<1> QED BY <1>1, TestAlwaysInv, PTL

\* The requests of the tests keep what a request promises: its path does not
\* depend on the order of its parameters, and its outcomes can be told apart.
THEOREM RequestsInTests == TestSpec => [](PathIsOrderFree /\ OutcomeIsTold)
<1>1. TestInv => PathIsOrderFree /\ OutcomeIsTold
  BY PathIsFilled DEF TestInv, HttpInv, ResponseInv
<1> QED BY <1>1, TestAlwaysInv, PTL

-----------------------------------------------------------------------------
(* What RandomStrings makes up, for any lengths and limits. *)

\* A text of a number of characters of a set; none for a negative number.
LEMMA TextIs ==
    ASSUME NEW set, NEW length \in Int, NEW s \in FromSet(set, length)
    PROVE  /\ s \in Seq(set) /\ DOMAIN s = 1 .. Len(s) /\ Len(s) \in Nat
           /\ Len(s) = IF length < 0 THEN 0 ELSE length
           /\ \A n \in DOMAIN s : s[n] \in set
<1> DEFINE size == IF length < 0 THEN 0 ELSE length
<1>1. size \in Nat /\ 1 .. length = 1 .. size
  OBVIOUS
<1>2. s \in [1 .. size -> set]
  BY <1>1 DEF FromSet
<1> HIDE DEF size
<1>3. s \in Seq(set) /\ DOMAIN s = 1 .. size /\ Len(s) = size
  BY <1>1, <1>2
<1> QED BY <1>1, <1>2, <1>3 DEF size

\* The classes of characters, of which only the Cyrillic texts have halves.
LEMMA ClassesDiffer ==
    /\ "half" \notin Digit \cup Latin \cup Cyrillic \cup {"special", "lower", "blank", "dash"}
    /\ "dash" \notin Digit \cup Latin
BY DEF Digit, Latin, Cyrillic

Plain == {"integer", "letters", "alphanum", "number", "name", "cyrillic", "special", "hex",
          "non_hex", "brandTitle"}

\* Texts without a form of their own are as long as asked.
LEMMA PlainFits ==
    ASSUME NEW config \in Plain, NEW length \in Int, NEW s \in Get(config, length)
    PROVE  /\ length >= 0 => Len(s) = length
           /\ "half" \in {s[n] : n \in DOMAIN s} => config = "cyrillic"
<1>1. CASE config \in {"integer", "letters", "alphanum", "special", "hex", "non_hex"}
  <2>1. PICK set : s \in FromSet(set, length) /\ "half" \notin set
    <3>1. "half" \notin Digit /\ "half" \notin Latin
      BY ClassesDiffer
    <3>2. CASE config \in {"integer"}
      BY <3>1, <3>2 DEF Get
    <3>3. CASE config = "letters"
      BY <3>1, <3>3 DEF Get
    <3>4. CASE config = "alphanum"
      BY <3>1, <3>4 DEF Get
    <3>5. CASE config = "special"
      BY <3>5 DEF Get
    <3>6. CASE config = "hex"
      BY <3>1, <3>6 DEF Get
    <3>7. CASE config = "non_hex"
      BY <3>7 DEF Get
    <3> QED BY <1>1, <3>2, <3>3, <3>4, <3>5, <3>6, <3>7
  <2> QED BY <2>1, TextIs
<1>2. CASE config = "cyrillic"
  <2>1. s \in FromSet(HalfLetter, length)
    BY <1>2 DEF Get
  <2> QED BY <1>2, <2>1, TextIs
<1>3. CASE config = "number"
  <2>1. PICK t \in FromSet(Digit, length) : s = [n \in DOMAIN t |-> IF n = 1 THEN "digit" ELSE t[n]]
    BY <1>3 DEF Get, Number
  <2>2. t \in Seq(Digit) /\ DOMAIN t = 1 .. Len(t) /\ Len(t) \in Nat
        /\ Len(t) = (IF length < 0 THEN 0 ELSE length) /\ \A n \in DOMAIN t : t[n] \in Digit
    BY TextIs
  <2>3. DOMAIN s = 1 .. Len(t) /\ \A n \in DOMAIN s : s[n] \in Digit
    BY <2>1, <2>2 DEF Digit
  <2>4. s \in Seq(Digit) /\ Len(s) = Len(t)
    BY <2>1, <2>2, <2>3
  <2> QED BY <2>2, <2>3, <2>4, ClassesDiffer
<1>4. CASE config = "name"
  <2>1. s = [n \in 1 .. length |-> IF n = 1 THEN "upper" ELSE "lower"]
    BY <1>4 DEF Get, Name
  <2>2. s \in FromSet({"upper", "lower"}, length)
    BY <2>1 DEF FromSet
  <2> QED BY <2>2, TextIs
<1>5. CASE config = "brandTitle"
  <2>1. s \in RandomString(Latin \cup Digit, length)
    BY <1>5 DEF Get
  <2>2. CASE length < 0
    <3>1. s = << "panic" >>
      BY <2>1, <2>2 DEF RandomString
    <3>2. \A n \in DOMAIN s : s[n] = "panic"
      BY <3>1
    <3> QED BY <2>2, <3>2
  <2>3. CASE ~(length < 0)
    <3>1. s \in FromSet(Latin \cup Digit, length)
      BY <2>1, <2>3 DEF RandomString
    <3> QED BY <3>1, TextIs, ClassesDiffer
  <2> QED BY <2>2, <2>3
<1> QED BY <1>1, <1>2, <1>3, <1>4, <1>5 DEF Plain

\* An alias is as long as asked, up to its limit, and has no two dashes in a row.
LEMMA AliasFits ==
    ASSUME NEW length \in Int, NEW s \in Alias(length)
    PROVE  /\ 0 <= length /\ length <= Size.alias => Len(s) = length
           /\ \A n \in 2 .. Len(s) : ~(s[n - 1] = "dash" /\ s[n] = "dash")
<1>1. Clamp(length, Size.alias) \in Int
      /\ (length <= Size.alias => Clamp(length, Size.alias) = length)
  BY SizeAssumption DEF Clamp
<1>2. s \in FromSet({"lower", "dash"} \cup Digit, Clamp(length, Size.alias))
  BY DEF Alias
<1>3. s \in Seq({"lower", "dash"} \cup Digit) /\ Len(s) \in Nat
  BY <1>1, <1>2, TextIs
<1>4. 0 <= length /\ length <= Size.alias => Len(s) = length
  BY <1>1, <1>2, TextIs
<1>5. ASSUME NEW n \in 2 .. Len(s), s[n - 1] = "dash", s[n] = "dash" PROVE FALSE
  <2>1. n - 1 \in 1 .. Len(s)
    BY <1>3
  <2>2. Len(SubSeq(s, 1, n - 1)) = n - 1 /\ SubSeq(s, 1, n - 1)[n - 1] = s[n - 1]
    BY <1>3, <2>1
  <2>3. AfterDash(SubSeq(s, 1, n - 1))
    BY <1>5, <2>2 DEF AfterDash, Last
  <2> QED BY <1>5, <2>3 DEF Alias
<1> QED BY <1>4, <1>5

\* A title that was trimmed has the length it had, and no blank at its ends.
LEMMA TrimmedFits ==
    ASSUME NEW set, NEW length \in Int, NEW t \in FromSet(set, length), NEW s,
           s = Trimmed(t, "upper", "lower")
    PROVE  /\ length >= 0 => Len(s) = length
           /\ s # << >> => s[1] # "blank" /\ s[Len(s)] # "blank"
<1>1. t \in Seq(set) /\ DOMAIN t = 1 .. Len(t) /\ Len(t) \in Nat
      /\ Len(t) = IF length < 0 THEN 0 ELSE length
  BY TextIs
<1> DEFINE begun == [t EXCEPT ![1] = IF @ = "blank" THEN "upper" ELSE @]
           S == set \cup {"upper", "lower"}
<1>2. begun \in Seq(S) /\ Len(begun) = Len(t) /\ DOMAIN begun = 1 .. Len(t)
      /\ (t # << >> => begun[1] # "blank")
  <2>1. DOMAIN begun = 1 .. Len(t)
        /\ \A n \in 1 .. Len(t) : begun[n] = IF n = 1 /\ t[n] = "blank" THEN "upper" ELSE t[n]
    BY <1>1
  <2>2. \A n \in 1 .. Len(t) : t[n] \in set
    BY <1>1
  <2>3. begun = [n \in 1 .. Len(t) |-> begun[n]] /\ \A n \in 1 .. Len(t) : begun[n] \in S
    BY <2>1, <2>2
  <2> HIDE DEF begun, S
  <2>4. begun \in Seq(S) /\ Len(begun) = Len(t)
    <3>1. PICK k \in Nat : k = Len(t)
      BY <1>1
    <3>2. begun \in [1 .. k -> S]
      BY <2>3, <3>1
    <3> QED BY <3>1, <3>2
  <2>5. t # << >> => 1 \in 1 .. Len(t)
    BY <1>1
  <2> QED BY <2>1, <2>4, <2>5
<1>3. s = [begun EXCEPT ![Len(t)] = IF @ = "blank" THEN "lower" ELSE @]
  BY DEF Trimmed
<1> HIDE DEF begun
<1>4. s \in Seq(S) /\ Len(s) = Len(t)
  BY <1>1, <1>2, <1>3
<1>5. ASSUME s # << >> PROVE s[1] # "blank" /\ s[Len(s)] # "blank"
  <2>1. Len(t) > 0 /\ t # << >>
    BY <1>1, <1>4, <1>5
  <2>2. \A n \in 1 .. Len(t) :
          s[n] = IF n = Len(t) THEN (IF begun[n] = "blank" THEN "lower" ELSE begun[n]) ELSE begun[n]
    BY <1>2, <1>3
  <2>3. s[Len(t)] # "blank"
    BY <1>1, <2>1, <2>2
  <2>4. s[1] # "blank"
    BY <1>1, <1>2, <2>1, <2>2
  <2> QED BY <1>4, <2>3, <2>4
<1> QED BY <1>1, <1>4, <1>5

\* The titles are as long as asked, from two characters up to the limit.
LEMMA TitleFits ==
    ASSUME NEW config \in {"category_title", "collection_title", "game_title"},
           NEW length \in Int, NEW s \in Get(config, length)
    PROVE  /\ 2 <= length /\ length <= Size.title => Len(s) = length
           /\ s # << >> => s[1] # "blank" /\ s[Len(s)] # "blank"
<1>1. \A asked \in Int, limit \in Nat :
        Clamp(asked, limit) \in Int /\ (asked <= limit => Clamp(asked, limit) = asked)
  BY DEF Clamp
<1>2. Size.title \in Nat /\ Size.game \in Nat /\ Size.title <= Size.game
  BY SizeAssumption
<1>3. CASE config = "game_title"
  <2> DEFINE asked == IF length < 2 THEN 2 ELSE length
             set == Latin \cup Digit \cup {"blank", "dash"}
  <2>1. s \in {Trimmed(t, "upper", "lower") : t \in FromSet(set, Clamp(asked, Size.game))}
    BY <1>3 DEF Get, GameTitle
  <2>2. PICK t \in FromSet(set, Clamp(asked, Size.game)) : s = Trimmed(t, "upper", "lower")
    BY <2>1
  <2>3. Clamp(asked, Size.game) \in Int
        /\ (2 <= length /\ length <= Size.title => Clamp(asked, Size.game) = length)
    <3>1. asked \in Int /\ (2 <= length => asked = length)
      OBVIOUS
    <3> HIDE DEF asked
    <3>2. Clamp(asked, Size.game) \in Int /\ (asked <= Size.game => Clamp(asked, Size.game) = asked)
      BY <1>1, <1>2, <3>1
    <3> QED BY <1>2, <3>1, <3>2
  <2> HIDE DEF asked, set
  <2> QED BY <2>2, <2>3, TrimmedFits
<1>4. CASE config \in {"category_title", "collection_title"} /\ length <= 0
  <2>1. s = << >>
    BY <1>4 DEF Get, CategoryTitle
  <2> QED BY <1>4, <2>1
<1>5. CASE config \in {"category_title", "collection_title"} /\ length > 0
  <2> DEFINE set == Latin \cup Digit \cup Cyrillic \cup {"blank", "dash"}
  <2>1. s \in {Trimmed(t, "upper", "lower") : t \in FromSet(set, Clamp(length, Size.title))}
    <3>1. s \in CategoryTitle(length) /\ ~(length <= 0)
      BY <1>5 DEF Get
    <3> QED BY <3>1 DEF CategoryTitle
  <2>2. PICK t \in FromSet(set, Clamp(length, Size.title)) : s = Trimmed(t, "upper", "lower")
    BY <2>1
  <2>3. Clamp(length, Size.title) \in Int
        /\ (length <= Size.title => Clamp(length, Size.title) = length)
    BY <1>1, <1>2
  <2> HIDE DEF set
  <2> QED BY <2>2, <2>3, TrimmedFits
<1> QED BY <1>3, <1>4, <1>5

\* Shuffled, a text has the same characters.
LEMMA ShuffledHas ==
    ASSUME NEW set, NEW t \in Seq(set), NEW s \in Shuffled(t)
    PROVE  /\ s \in Seq(set) /\ Len(s) = Len(t)
           /\ {s[n] : n \in DOMAIN s} = {t[n] : n \in DOMAIN t}
<1> DEFINE D == 1 .. Len(t)
<1>1. DOMAIN t = D /\ Len(t) \in Nat /\ \A n \in D : t[n] \in set
  OBVIOUS
<1>2. PICK order \in [D -> D] : Cardinality(Range(order)) = Len(t) /\ s = [n \in D |-> t[order[n]]]
  BY <1>1 DEF Shuffled
<1>3. Range(order) = D
  <2>1. Range(order) \subseteq D
    BY DEF Range
  <2>2. IsFiniteSet(D) /\ Cardinality(D) = Len(t)
    <3>1. PICK k \in Nat : k = Len(t)
      BY <1>1
    <3>2. 1 \in Int /\ k \in Int /\ (IF 1 > k THEN 0 ELSE k - 1 + 1) = k
      OBVIOUS
    <3>3. IsFiniteSet(1 .. k) /\ Cardinality(1 .. k) = IF 1 > k THEN 0 ELSE k - 1 + 1
      BY <3>2, FS_Interval, Zenon
    <3> QED BY <3>1, <3>2, <3>3
  <2> HIDE DEF D
  <2>3. Cardinality(D) = Cardinality(Range(order)) => D = Range(order)
    BY <2>1, <2>2, FS_Subset, Zenon
  <2> QED BY <1>2, <2>2, <2>3
<1>4. \A n \in D : order[n] \in D
  OBVIOUS
<1>5. \A m \in D : \E n \in D : order[n] = m
  BY <1>3 DEF Range
<1> HIDE DEF D
<1>6. DOMAIN s = D /\ \A n \in D : s[n] = t[order[n]]
  BY <1>2
<1>7. {s[n] : n \in DOMAIN s} = {t[n] : n \in DOMAIN t}
  <2>1. ASSUME NEW m \in D PROVE \E n \in D : s[n] = t[m]
    BY <1>5, <1>6
  <2>2. ASSUME NEW n \in D PROVE \E m \in D : s[n] = t[m]
    BY <1>4, <1>6
  <2> QED BY <1>1, <1>6, <2>1, <2>2
<1>8. s \in Seq(set) /\ Len(s) = Len(t)
  <2>1. \A n \in D : s[n] \in set
    BY <1>1, <1>4, <1>6
  <2>2. s = [n \in D |-> s[n]]
    BY <1>2, <1>6
  <2>3. s \in [D -> set]
    BY <2>1, <2>2
  <2> QED BY <1>1, <2>3 DEF D
<1> QED BY <1>7, <1>8

\* A password is as long as asked, from four characters on, and has one of each
\* class.
LEMMA PasswordFits ==
    ASSUME NEW length \in Int, length >= 4, NEW s \in Password(length)
    PROVE  /\ Len(s) = length
           /\ {s[n] : n \in DOMAIN s} = {"upper", "lower", "digit", "special"}
<1>1. PICK letters \in FromSet(Latin, length - 2) :
        BothCases(letters) /\ s \in Shuffled(letters \o << "special", "digit" >>)
  <2>1. ~(length < 4)
    OBVIOUS
  <2> QED BY <2>1 DEF Password
<1> DEFINE t == letters \o << "special", "digit" >>
           S == {"upper", "lower", "special", "digit"}
<1>2. letters \in Seq({"upper", "lower"}) /\ Len(letters) = length - 2
      /\ DOMAIN letters = 1 .. length - 2
  <2>1. length - 2 \in Int /\ ~(length - 2 < 0) /\ Latin = {"upper", "lower"}
    BY DEF Latin
  <2> QED BY <2>1, TextIs
<1>3. t \in Seq(S) /\ Len(t) = length /\ DOMAIN t = 1 .. length
      /\ (\A n \in 1 .. length - 2 : t[n] = letters[n])
      /\ t[length - 1] = "special" /\ t[length] = "digit"
  BY <1>2
<1>4. \A c \in {"upper", "lower"} : \E n \in 1 .. length - 2 : letters[n] = c
  BY <1>1, <1>2 DEF BothCases, Range
<1> HIDE DEF t
<1>5. {t[n] : n \in DOMAIN t} = {"upper", "lower", "digit", "special"}
  <2>1. \A c \in {"upper", "lower"} : \E n \in DOMAIN t : t[n] = c
    <3>1. 1 .. length - 2 \subseteq DOMAIN t
      BY <1>3
    <3> QED BY <1>3, <1>4, <3>1
  <2>2. length - 1 \in DOMAIN t /\ length \in DOMAIN t
    BY <1>3
  <2>3. \A n \in DOMAIN t : t[n] \in S
    BY <1>3
  <2> QED BY <1>3, <2>1, <2>2, <2>3
<1>6. s \in Shuffled(t)
  BY <1>1 DEF t
<1>7. Len(s) = Len(t) /\ {s[n] : n \in DOMAIN s} = {t[n] : n \in DOMAIN t}
  <2> HIDE DEF S
  <2> QED BY <1>3, <1>6, ShuffledHas
<1> QED BY <1>3, <1>5, <1>7

\* A text with a fixed part is not empty.
LEMMA JoinedFits ==
    ASSUME NEW config \in {"iban", "personal_id", "phone", "email"},
           NEW length \in Int, NEW s \in Get(config, length)
    PROVE  {s[n] : n \in DOMAIN s} # {}
<1> DEFINE C == {"upper", "lower", "zero", "digit", "gmail.com", "plus371", "dash"}
<1>1. ASSUME NEW a \in Seq(C), NEW b \in Seq(C), a # << >> \/ b # << >>
      PROVE  a \o b \in Seq(C) /\ a \o b # << >> /\ 1 \in DOMAIN (a \o b)
  <2>1. Len(a) > 0 \/ Len(b) > 0
    BY <1>1
  <2>2. Len(a \o b) > 0 /\ a \o b \in Seq(C)
    BY <2>1
  <2> QED BY <2>2
<1>2. ASSUME NEW n \in Int, NEW t \in FromSet(Digit, n) PROVE t \in Seq(C)
  <2>1. t \in FromSet(C, n)
    BY <1>2 DEF FromSet, Digit
  <2> QED BY <2>1, TextIs
<1>3. CASE config = "email"
  <2>1. PICK a \in FromSet(Latin \cup Digit, length) : s = a \o << "gmail.com" >>
    BY <1>3 DEF Get, Joined
  <2>2. a \in Seq(C)
    <3>1. a \in FromSet(C, length)
      BY DEF FromSet, Latin, Digit
    <3> QED BY <3>1, TextIs
  <2>3. << "gmail.com" >> \in Seq(C) /\ << "gmail.com" >> # << >>
    OBVIOUS
  <2> QED BY <1>1, <2>1, <2>2, <2>3
<1>4. CASE config = "iban"
  <2>1. PICK b \in FromSet(Digit, Size.iban) : s = << "upper", "upper" >> \o b
    BY <1>4 DEF Get, Joined
  <2>2. b \in Seq(C)
    BY <1>2, SizeAssumption
  <2>3. << "upper", "upper" >> \in Seq(C) /\ << "upper", "upper" >> # << >>
    OBVIOUS
  <2> QED BY <1>1, <2>1, <2>2, <2>3
<1>5. CASE config = "phone"
  <2>1. PICK b \in FromSet(Digit, Size.phone) : s = << "plus371" >> \o b
    BY <1>5 DEF Get, Joined
  <2>2. b \in Seq(C)
    BY <1>2, SizeAssumption
  <2>3. << "plus371" >> \in Seq(C) /\ << "plus371" >> # << >>
    OBVIOUS
  <2> QED BY <1>1, <2>1, <2>2, <2>3
<1>6. CASE config = "personal_id"
  <2>1. PICK a \in FromSet(Digit, Size.personal[1]), b \in FromSet(Digit, Size.personal[2]) :
          s = (a \o << "dash" >>) \o b
    <3> DEFINE A == FromSet(Digit, Size.personal[1])
               B == FromSet(Digit, Size.personal[2])
    <3>1. s \in Joined(Joined(A \X {<< "dash" >>}) \X B)
      BY <1>6 DEF Get
    <3> HIDE DEF A, B
    <3>2. PICK front \in Joined(A \X {<< "dash" >>}), b \in B : s = front \o b
      BY <3>1 DEF Joined
    <3>3. PICK a \in A : front = a \o << "dash" >>
      BY DEF Joined
    <3>4. s = (a \o << "dash" >>) \o b
      BY <3>2, <3>3
    <3> QED BY <3>4 DEF A, B
  <2>2. a \in Seq(C) /\ b \in Seq(C)
    BY <1>2, SizeAssumption
  <2>3. a \o << "dash" >> \in Seq(C) /\ a \o << "dash" >> # << >>
    <3>1. << "dash" >> \in Seq(C) /\ << "dash" >> # << >>
      OBVIOUS
    <3> QED BY <1>1, <2>2, <3>1
  <2> QED BY <1>1, <2>1, <2>2, <2>3
<1> QED BY <1>3, <1>4, <1>5, <1>6

\* The days of the year before each month; the thirteenth is the year after.
DaysBefore(month, leap) ==
    IF month = 1 THEN 0 ELSE IF month = 2 THEN 31 ELSE leap +
        (CASE month = 3 -> 59 [] month = 4 -> 90 [] month = 5 -> 120 [] month = 6 -> 151
           [] month = 7 -> 181 [] month = 8 -> 212 [] month = 9 -> 243 [] month = 10 -> 273
           [] month = 11 -> 304 [] month = 12 -> 334 [] OTHER -> 365)

Extra(year) == IF Leap(year) THEN 1 ELSE 0

\* A month begins where the one before it ends.
LEMMA MonthsFollow ==
    ASSUME NEW year \in Int, NEW month \in 1 .. 12
    PROVE  /\ DaysBefore(month, Extra(year)) \in Nat
           /\ DaysIn(month, year) \in Nat
           /\ DaysBefore(month + 1, Extra(year)) = DaysBefore(month, Extra(year)) + DaysIn(month, year)
<1>1. Extra(year) \in {0, 1} /\ (Leap(year) <=> Extra(year) = 1)
  BY DEF Extra
<1>2. CASE month = 2
  BY <1>1, <1>2 DEF DaysBefore, DaysIn
<1>3. CASE month \in {1, 3, 5, 7, 8, 10, 12}
  BY <1>1, <1>3 DEF DaysBefore, DaysIn
<1>4. CASE month \in {4, 6, 9, 11}
  BY <1>1, <1>4 DEF DaysBefore, DaysIn
<1> QED BY <1>2, <1>3, <1>4

\* So a month ends before a later one begins.
LEMMA MonthsApart ==
    ASSUME NEW leap \in {0, 1}, NEW m \in 1 .. 12, NEW n \in 1 .. 12, m < n
    PROVE  DaysBefore(m + 1, leap) <= DaysBefore(n, leap)
<1>1. DaysBefore(1, leap) = 0 /\ DaysBefore(2, leap) = 31 /\ DaysBefore(3, leap) = leap + 59
      /\ DaysBefore(4, leap) = leap + 90 /\ DaysBefore(5, leap) = leap + 120 /\ DaysBefore(6, leap) = leap + 151
      /\ DaysBefore(7, leap) = leap + 181 /\ DaysBefore(8, leap) = leap + 212 /\ DaysBefore(9, leap) = leap + 243
      /\ DaysBefore(10, leap) = leap + 273 /\ DaysBefore(11, leap) = leap + 304 /\ DaysBefore(12, leap) = leap + 334
      /\ DaysBefore(13, leap) = leap + 365
  BY DEF DaysBefore
<1> QED BY <1>1 DEF DaysBefore

\* Every day of the year is one of a month.
LEMMA DaysCovered ==
    ASSUME NEW leap \in {0, 1}, NEW k \in 1 .. 365 + leap
    PROVE  \E month \in 1 .. 12 : DaysBefore(month, leap) < k /\ k <= DaysBefore(month + 1, leap)
<1>1. CASE k <= 31
  <2> WITNESS 1 \in 1 .. 12
  <2> QED BY <1>1 DEF DaysBefore
<1>2. CASE 31 < k /\ k <= leap + 59
  <2> WITNESS 2 \in 1 .. 12
  <2> QED BY <1>2 DEF DaysBefore
<1>3. CASE leap + 59 < k /\ k <= leap + 90
  <2> WITNESS 3 \in 1 .. 12
  <2> QED BY <1>3 DEF DaysBefore
<1>4. CASE leap + 90 < k /\ k <= leap + 120
  <2> WITNESS 4 \in 1 .. 12
  <2> QED BY <1>4 DEF DaysBefore
<1>5. CASE leap + 120 < k /\ k <= leap + 151
  <2> WITNESS 5 \in 1 .. 12
  <2> QED BY <1>5 DEF DaysBefore
<1>6. CASE leap + 151 < k /\ k <= leap + 181
  <2> WITNESS 6 \in 1 .. 12
  <2> QED BY <1>6 DEF DaysBefore
<1>7. CASE leap + 181 < k /\ k <= leap + 212
  <2> WITNESS 7 \in 1 .. 12
  <2> QED BY <1>7 DEF DaysBefore
<1>8. CASE leap + 212 < k /\ k <= leap + 243
  <2> WITNESS 8 \in 1 .. 12
  <2> QED BY <1>8 DEF DaysBefore
<1>9. CASE leap + 243 < k /\ k <= leap + 273
  <2> WITNESS 9 \in 1 .. 12
  <2> QED BY <1>9 DEF DaysBefore
<1>10. CASE leap + 273 < k /\ k <= leap + 304
  <2> WITNESS 10 \in 1 .. 12
  <2> QED BY <1>10 DEF DaysBefore
<1>11. CASE leap + 304 < k /\ k <= leap + 334
  <2> WITNESS 11 \in 1 .. 12
  <2> QED BY <1>11 DEF DaysBefore
<1>12. CASE leap + 334 < k /\ k <= leap + 365
  <2> WITNESS 12 \in 1 .. 12
  <2> QED BY <1>12 DEF DaysBefore
<1> QED BY <1>1, <1>2, <1>3, <1>4, <1>5, <1>6, <1>7, <1>8, <1>9, <1>10, <1>11, <1>12

\* The leap years counted up to a year and up to the year before differ by one
\* if it is one.
LEMMA LeapsCount ==
    ASSUME NEW year \in Int
    PROVE  ((year \div 4) - (year \div 100) + (year \div 400))
             - (((year - 1) \div 4) - ((year - 1) \div 100) + ((year - 1) \div 400)) = Extra(year)
<1>1. (year \div 4) - ((year - 1) \div 4) = IF year % 4 = 0 THEN 1 ELSE 0
  OBVIOUS
<1>2. (year \div 100) - ((year - 1) \div 100) = IF year % 100 = 0 THEN 1 ELSE 0
  OBVIOUS
<1>3. (year \div 400) - ((year - 1) \div 400) = IF year % 400 = 0 THEN 1 ELSE 0
  OBVIOUS
<1>4. (year % 400 = 0 => year % 100 = 0) /\ (year % 100 = 0 => year % 4 = 0)
  OBVIOUS
<1>5. /\ year \div 4 \in Int /\ year \div 100 \in Int /\ year \div 400 \in Int
      /\ (year - 1) \div 4 \in Int /\ (year - 1) \div 100 \in Int /\ (year - 1) \div 400 \in Int
  OBVIOUS
<1> QED BY <1>1, <1>2, <1>3, <1>4, <1>5 DEF Extra, Leap

\* A year has 365 days, or one more.
LEMMA BirthdaysAre ==
    ASSUME NEW thisYear \in Int, NEW ago \in Int
    PROVE  Cardinality(Birthday(thisYear, ago)) = 365 + Extra(thisYear - ago)
<1> DEFINE y == thisYear - ago
           dates == Birthday(thisYear, ago)
           leap == Extra(y)
           f == [date \in dates |-> DaysBefore(date[2], leap) + date[3]]
<1>1. y \in Int /\ leap \in {0, 1}
  BY DEF Extra
<1>2. \A date \in dates : \E m \in 1 .. 12 : \E d \in 1 .. DaysIn(m, y) : date = <<y, m, d>>
  BY DEF Birthday
<1>3. \A m \in 1 .. 12 : \A d \in 1 .. DaysIn(m, y) : <<y, m, d>> \in dates
  BY DEF Birthday
<1>4. ASSUME NEW m \in 1 .. 12, NEW d \in 1 .. DaysIn(m, y)
      PROVE  /\ f[<<y, m, d>>] = DaysBefore(m, leap) + d
             /\ DaysBefore(m, leap) \in Nat /\ d \in Nat
             /\ DaysBefore(m, leap) < f[<<y, m, d>>] /\ f[<<y, m, d>>] <= DaysBefore(m + 1, leap)
  <2>1. f[<<y, m, d>>] = DaysBefore(m, leap) + d
    BY <1>3
  <2> HIDE DEF f, y, dates, leap
  <2>2. DaysBefore(m, Extra(y)) \in Nat /\ DaysIn(m, y) \in Nat
        /\ DaysBefore(m + 1, Extra(y)) = DaysBefore(m, Extra(y)) + DaysIn(m, y)
    BY <1>1, MonthsFollow
  <2> QED BY <2>1, <2>2 DEF leap
<1> HIDE DEF y, dates, leap
<1>5. \A m \in 1 .. 12 : 0 <= DaysBefore(m, leap) /\ DaysBefore(m + 1, leap) <= 365 + leap
  BY <1>1 DEF DaysBefore
<1>6. f \in [dates -> 1 .. 365 + leap]
  <2> SUFFICES ASSUME NEW date \in dates PROVE f[date] \in 1 .. 365 + leap
    OBVIOUS
  <2>1. PICK m \in 1 .. 12, d \in Int : d \in 1 .. DaysIn(m, y) /\ date = <<y, m, d>>
    BY <1>2
  <2>2. DaysBefore(m, leap) < f[date] /\ f[date] <= DaysBefore(m + 1, leap) /\ f[date] \in Nat
    <3> HIDE DEF f
    <3> QED BY <1>4, <2>1
  <2>3. DaysBefore(m, leap) \in Nat /\ DaysBefore(m + 1, leap) <= 365 + leap /\ DaysBefore(m + 1, leap) \in Int
    BY <1>1, <1>4, <1>5, <2>1 DEF DaysBefore
  <2> HIDE DEF f
  <2> QED BY <1>1, <2>2, <2>3
<1> HIDE DEF f
<1>7. ASSUME NEW a \in dates, NEW b \in dates, f[a] = f[b] PROVE a = b
  <2>1. PICK m \in 1 .. 12, d \in Int : d \in 1 .. DaysIn(m, y) /\ a = <<y, m, d>>
    BY <1>2
  <2>2. PICK n \in 1 .. 12, e \in Int : e \in 1 .. DaysIn(n, y) /\ b = <<y, n, e>>
    BY <1>2
  <2>3. /\ f[a] = DaysBefore(m, leap) + d /\ DaysBefore(m, leap) \in Nat /\ d \in Nat
        /\ DaysBefore(m, leap) < f[a] /\ f[a] <= DaysBefore(m + 1, leap)
    BY <1>4, <2>1
  <2>4. /\ f[b] = DaysBefore(n, leap) + e /\ DaysBefore(n, leap) \in Nat /\ e \in Nat
        /\ DaysBefore(n, leap) < f[b] /\ f[b] <= DaysBefore(n + 1, leap)
    BY <1>4, <2>2
  <2>5. ~(m < n)
    <3> SUFFICES ASSUME m < n PROVE FALSE
      OBVIOUS
    <3>1. DaysBefore(m + 1, leap) <= DaysBefore(n, leap) /\ DaysBefore(m + 1, leap) \in Int
      BY <1>1, MonthsApart DEF DaysBefore
    <3> QED BY <1>7, <2>3, <2>4, <3>1
  <2>6. ~(n < m)
    <3> SUFFICES ASSUME n < m PROVE FALSE
      OBVIOUS
    <3>1. DaysBefore(n + 1, leap) <= DaysBefore(m, leap) /\ DaysBefore(n + 1, leap) \in Int
      BY <1>1, MonthsApart DEF DaysBefore
    <3> QED BY <1>7, <2>3, <2>4, <3>1
  <2>7. m = n
    BY <2>5, <2>6
  <2>8. d = e
    <3>1. PICK x \in Nat : x = DaysBefore(m, leap)
      BY <2>3
    <3>2. f[a] = x + d
      BY <2>3, <3>1
    <3>3. f[b] = x + e
      BY <2>4, <2>7, <3>1
    <3>4. x + d = x + e
      BY <1>7, <3>2, <3>3
    <3> QED BY <3>4
  <2> QED BY <2>1, <2>2, <2>7, <2>8
<1>8. ASSUME NEW k \in 1 .. 365 + leap PROVE \E date \in dates : f[date] = k
  <2>1. PICK m \in 1 .. 12 : DaysBefore(m, leap) < k /\ k <= DaysBefore(m + 1, leap)
    BY <1>1, DaysCovered
  <2>2. /\ DaysBefore(m, leap) \in Nat /\ DaysIn(m, y) \in Nat
        /\ DaysBefore(m + 1, leap) = DaysBefore(m, leap) + DaysIn(m, y)
    BY <1>1, MonthsFollow DEF leap
  <2>3. k - DaysBefore(m, leap) \in 1 .. DaysIn(m, y)
    BY <1>1, <2>1, <2>2
  <2>4. f[<<y, m, k - DaysBefore(m, leap)>>] = DaysBefore(m, leap) + (k - DaysBefore(m, leap))
    BY <1>4, <2>3
  <2>5. f[<<y, m, k - DaysBefore(m, leap)>>] = k
    BY <1>1, <2>2, <2>4
  <2> QED BY <1>3, <2>3, <2>5
<1>9. f \in Bijection(dates, 1 .. 365 + leap)
  BY <1>6, <1>7, <1>8 DEF Bijection, Injection, Surjection, IsInjective
<1>10. ExistsBijection(1 .. 365 + leap, dates)
  <2>1. ExistsBijection(dates, 1 .. 365 + leap)
    BY <1>9 DEF ExistsBijection
  <2> QED BY <2>1, Fun_ExistsBijSymmetric
<1>11. IsFiniteSet(1 .. 365 + leap) /\ Cardinality(1 .. 365 + leap) = 365 + leap
  <2>1. 365 + leap \in Int /\ 1 \in Int /\ ~(1 > 365 + leap) /\ (365 + leap) - 1 + 1 = 365 + leap
    BY <1>1
  <2>2. IsFiniteSet(1 .. 365 + leap)
        /\ Cardinality(1 .. 365 + leap) = IF 1 > 365 + leap THEN 0 ELSE (365 + leap) - 1 + 1
    BY <2>1, FS_Interval, Zenon
  <2> QED BY <2>1, <2>2
<1>12. Cardinality(dates) = Cardinality(1 .. 365 + leap)
  BY <1>10, <1>11, FS_Bijection
<1> QED BY <1>11, <1>12 DEF dates, leap, y

\* A text drawn is one that the random source may lead to.
DrawnInv ==
    drawn # << >> =>
        \/ \E config \in Configs, length \in Lengths : \E text \in Get(config, length) :
              drawn = [config |-> config, length |-> length, text |-> text]
        \/ \E age \in Ages : \E date \in Birthday(ThisYear, age) :
              drawn = [config |-> "birthday", length |-> age, text |-> date]

\* Only the test of the data draws one.
LEMMA DrawnStays == [TestNext]_allVars => UNCHANGED drawn \/ Draw
<1> SUFFICES ASSUME [TestNext]_allVars PROVE UNCHANGED drawn \/ Draw
  OBVIOUS
<1>1. CASE UNCHANGED allVars
  BY <1>1 DEF allVars, testVars
<1>2. CASE Services
  BY <1>2 DEF Services, Serve, Deliver, Show, ServeLate
<1>3. CASE CallExpires \/ CallBreaks
  BY <1>3 DEF CallExpires, CallBreaks, GiveUp
<1>4. CASE Spawn \/ CallGoesOn \/ CallTimesOut
  BY <1>4 DEF Spawn, CallGoesOn, CallTimesOut, GiveUp, testVars
<1>5. ASSUME NEW k, StepOf(k) PROVE UNCHANGED drawn
  BY <1>5 DEF StepOf, BeginCall, CallAgain, EndCall, ReadRow, ReadRowLate, PickRow, FindMessage,
              FindAbsence, QueryFails
<1>6. CASE CallAlone \/ ApiAlone
  BY <1>6 DEF CallAlone, ApiAlone, testVars
<1> QED BY <1>1, <1>2, <1>3, <1>4, <1>5, <1>6 DEF TestNext, TestStep

\* So what was drawn is always such a text.
LEMMA AlwaysDrawn == TestSpec => []DrawnInv
<1>1. TestInit => DrawnInv
  BY DEF TestInit, DrawnInv
<1>2. DrawnInv /\ [TestNext]_allVars => DrawnInv'
  <2> SUFFICES ASSUME DrawnInv, [TestNext]_allVars PROVE DrawnInv'
    OBVIOUS
  <2>1. CASE UNCHANGED drawn
    BY <2>1 DEF DrawnInv
  <2>2. CASE Draw
    BY <2>2 DEF Draw, DrawnInv
  <2> QED BY <2>1, <2>2, DrawnStays
<1> QED BY <1>1, <1>2, PTL DEF TestSpec

\* What is made up is what the services accept, for any lengths that are asked
\* for and any limits, in any year; and every day of a year of birth may be
\* drawn (rndstr.go).
THEOREM GeneratedDataFits == TestSpec => []GeneratedFits
<1>1. DrawnInv => GeneratedFits
  <2> SUFFICES ASSUME DrawnInv, drawn # << >> PROVE GeneratedFits
    BY DEF GeneratedFits
  <2> DEFINE text == drawn.text
             asked == drawn.length
             has == {text[n] : n \in DOMAIN text}
             titles == {"category_title", "collection_title", "game_title"}
             joined == {"iban", "personal_id", "phone", "email"}
  <2>1. CASE \E age \in Ages : \E date \in Birthday(ThisYear, age) :
                drawn = [config |-> "birthday", length |-> age, text |-> date]
    <3>1. drawn.config = "birthday" /\ asked \in Int /\ ThisYear \in Int
      BY <2>1, DataAssumption
    <3> HIDE DEF asked
    <3>2. Cardinality(Birthday(ThisYear, asked)) = 365 + Extra(ThisYear - asked)
      BY <3>1, BirthdaysAre
    <3>3. ThisYear - asked \in Int
      BY <3>1
    <3> DEFINE year == ThisYear - asked
               leaps(y) == (y \div 4) - (y \div 100) + (y \div 400)
    <3>4. leaps(year) - leaps(year - 1) = Extra(year)
      BY <3>3, LeapsCount
    <3>5. leaps(year) \in Int /\ leaps(year - 1) \in Int
      BY <3>3
    <3>6. 365 + leaps(year) - leaps(year - 1) = 365 + Extra(year)
      <4> HIDE DEF leaps
      <4> QED BY <3>4, <3>5
    <3> QED BY <3>1, <3>2, <3>6 DEF GeneratedFits, asked
  <2>2. CASE \E config \in Configs, length \in Lengths : \E s \in Get(config, length) :
                drawn = [config |-> config, length |-> length, text |-> s]
    <3>1. PICK config \in Configs, length \in Lengths : \E s \in Get(config, length) :
            drawn = [config |-> config, length |-> length, text |-> s]
      BY <2>2
    <3>2. PICK s \in Get(config, length) : drawn = [config |-> config, length |-> length, text |-> s]
      BY <3>1
    <3>3. drawn.config = config /\ asked = length /\ text = s /\ length \in Int
      BY <3>2, DataAssumption DEF Lengths
    <3>4. config \in Plain \cup titles \cup joined \cup {"alias", "pass"}
      BY DEF Configs, Plain
    <3>5. \A low, high : length \in Between(low, high) => low <= length /\ length <= high
      BY DEF Between
    <3>6. CASE config \in Plain
      <4>1. (length >= 0 => Len(s) = length) /\ ("half" \in {s[n] : n \in DOMAIN s} => config = "cyrillic")
        BY <3>3, <3>6, PlainFits
      <4>2. config \notin {"birthday", "alias", "pass"} \cup titles \cup joined
        BY <3>6 DEF Plain
      <4> QED BY <3>3, <4>1, <4>2 DEF GeneratedFits
    <3>7. CASE config \in titles
      <4>1. /\ 2 <= length /\ length <= Size.title => Len(s) = length
            /\ s # << >> => s[1] # "blank" /\ s[Len(s)] # "blank"
        BY <3>3, <3>7, TitleFits
      <4>2. config \notin {"birthday", "alias"}
        BY <3>7
      <4> QED BY <3>3, <3>5, <3>7, <4>1, <4>2 DEF GeneratedFits
    <3>8. CASE config \in joined
      <4>1. {s[n] : n \in DOMAIN s} # {}
        BY <3>3, <3>8, JoinedFits
      <4>2. config \notin {"birthday", "alias", "pass"} \cup titles
        BY <3>8
      <4> QED BY <3>3, <3>8, <4>1, <4>2 DEF GeneratedFits
    <3>9. CASE config = "alias"
      <4>1. s \in Alias(length)
        BY <3>9 DEF Get
      <4>2. /\ 0 <= length /\ length <= Size.alias => Len(s) = length
            /\ \A n \in 2 .. Len(s) : ~(s[n - 1] = "dash" /\ s[n] = "dash")
        BY <3>3, <4>1, AliasFits
      <4> QED BY <3>3, <3>5, <3>9, <4>2 DEF GeneratedFits
    <3>10. CASE config = "pass"
      <4>1. s \in Password(length)
        BY <3>10 DEF Get
      <4>2. length >= 4 => Len(s) = length /\ {s[n] : n \in DOMAIN s} = {"upper", "lower", "digit", "special"}
        BY <3>3, <4>1, PasswordFits
      <4> QED BY <3>3, <3>10, <4>2 DEF GeneratedFits
    <3> QED BY <3>4, <3>6, <3>7, <3>8, <3>9, <3>10
  <2> QED BY <2>1, <2>2 DEF DrawnInv
<1> QED BY <1>1, AlwaysDrawn, PTL
=============================================================================
