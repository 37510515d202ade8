------------------------- MODULE KafkaInstanceProofs -------------------------
(***************************************************************************)
(* What holds of the shared Kafka client for any number of suites, however *)
(* many of them leak it or release it without having taken it.             *)
(***************************************************************************)
EXTENDS KafkaInstance, FiniteSetTheorems, TLAPS

New == {s \in Suites : suitePc[s] = "new"}

-----------------------------------------------------------------------------
(* The invariant. *)

TypeInv ==
    /\ instance \in Gens \cup {Nil}
    /\ fired \in BOOLEAN
    /\ refCount \in Nat
    /\ lastGen \in Nat
    /\ cancelled \subseteq Gens
    /\ readerPc \in [Gens -> {"none", "top", "reading", "gone"}]
    /\ late \in [Gens -> Nat]
    /\ suitePc \in [Suites -> {"new", "running", "finished"}]
    /\ held \in [Suites -> Gens \cup {Nil}]

\* A suite holds something exactly if its GetInstance has run; every
\* generation was created by a suite that is new no more.
SuiteInv ==
    /\ \A s \in Suites : suitePc[s] = "new" => held[s] = Nil
    /\ \A s \in Suites \ MayFail : suitePc[s] # "new" => held[s] # Nil
    /\ lastGen + Cardinality(New) <= Cardinality(Suites)

\* The current generation is the last one and open, all others are closed.
GenInv ==
    /\ fired <=> instance # Nil
    /\ instance = Nil <=> refCount = 0
    /\ instance # Nil => instance = lastGen /\ instance \notin cancelled
    /\ \A g \in Gens : g > lastGen => readerPc[g] = "none" /\ g \notin cancelled
    /\ \A g \in Gens : g <= lastGen /\ g # instance => g \in cancelled

\* The count says who holds the client, as long as releases are matched.
HolderInv ==
    /\ refCount <= Cardinality(Holders)
    /\ Matched => refCount = Cardinality(Holders)
    /\ Matched => \A s \in Holders : held[s] = instance

\* A goroutine that has read a message too many does not read another.
LateInv ==
    \A g \in Gens : /\ late[g] <= 1
                    /\ late[g] > 0 => g \in cancelled /\ readerPc[g] # "reading"

Inv == TypeInv /\ SuiteInv /\ GenInv /\ HolderInv /\ LateInv

-----------------------------------------------------------------------------

\* There are as many generations as suites, and Nil is none of them.
LEMMA GenFacts ==
    /\ Cardinality(Suites) \in Nat
    /\ Gens \subseteq Nat /\ Nil \notin Gens /\ Nil = 0
    /\ \A n \in Nat : n \in Gens <=> n > 0 /\ n <= Cardinality(Suites)
BY SuiteAssumption, FS_CardinalityType DEF Gens, Nil

\* Sets of suites are finite.
LEMMA SubsetFacts ==
    ASSUME NEW S, S \subseteq Suites
    PROVE  /\ IsFiniteSet(S) /\ Cardinality(S) \in Nat
           /\ S = {} <=> Cardinality(S) = 0
           /\ \A s : Cardinality(S \ {s}) = IF s \in S THEN Cardinality(S) - 1 ELSE Cardinality(S)
           /\ \A s : Cardinality(S \cup {s}) = IF s \in S THEN Cardinality(S) ELSE Cardinality(S) + 1
<1>1. IsFiniteSet(S)
  BY SuiteAssumption, FS_Subset
<1> QED BY <1>1, FS_CardinalityType, FS_EmptySet, FS_RemoveElement, FS_AddElement

\* No suite has started: every part of the invariant holds.
LEMMA InitInv == Init => Inv
<1> SUFFICES ASSUME Init PROVE Inv
  OBVIOUS
<1> USE DEF Init
<1>1. TypeInv
  BY GenFacts DEF TypeInv, Nil
<1>2. SuiteInv
  <2>1. New = Suites
    BY DEF New
  <2> QED BY <2>1, GenFacts DEF SuiteInv, Nil
<1>3. GenInv
  BY GenFacts DEF GenInv, Nil
<1>4. HolderInv
  <2>1. Holders = {}
    BY DEF Holders, Nil
  <2>2. Cardinality({}) = 0
    BY FS_EmptySet
  <2> QED BY <2>1, <2>2 DEF HolderInv
<1>5. LateInv
  BY DEF LateInv
<1> QED BY <1>1, <1>2, <1>3, <1>4, <1>5 DEF Inv

\* GetInstance of one suite.
LEMMA GetInstanceStep ==
    ASSUME Inv, NEW s \in Suites, GetInstance(s)
    PROVE  Inv'
<1> USE DEF Inv
<1>0. /\ s \in New /\ held[s] = Nil
      /\ s \notin Holders
  BY DEF GetInstance, New, SuiteInv, Holders, Nil, TypeInv
<1>1. Cardinality(New) \in Nat /\ Cardinality(New \ {s}) = Cardinality(New) - 1 /\ Cardinality(New) > 0
  <2>1. New \subseteq Suites
    BY DEF New
  <2> QED BY <1>0, <2>1, SubsetFacts
<1>2. /\ fired => instance # Nil /\ instance' = instance /\ lastGen' = lastGen
                  /\ readerPc' = readerPc /\ fired' = fired
      /\ ~fired => /\ instance = Nil /\ refCount = 0
                   /\ lastGen + 1 \in Gens
                   /\ lastGen' = lastGen + 1 /\ instance' = lastGen + 1 /\ fired' = TRUE
                   /\ readerPc' = [readerPc EXCEPT ![lastGen + 1] = "top"]
      /\ instance' \in Gens
  <2>1. lastGen + 1 <= Cardinality(Suites)
    BY <1>1, GenFacts DEF SuiteInv, TypeInv
  <2>2. lastGen + 1 \in Gens
    BY <2>1, GenFacts DEF TypeInv
  <2>3. CASE fired
    BY <2>3 DEF GetInstance, Once, GenInv, TypeInv
  <2>4. CASE ~fired
    BY <2>4, <2>2 DEF GetInstance, Once, GenInv, TypeInv
  <2> QED BY <2>3, <2>4
<1>3. TypeInv'
  <2>1. fired' \in BOOLEAN
    BY <1>2, Zenon DEF TypeInv
  <2>5. lastGen' \in Nat
    <3>1. CASE fired
      BY <1>2, <3>1 DEF TypeInv
    <3>2. CASE ~fired
      BY <1>2, <3>2 DEF TypeInv
    <3> QED BY <3>1, <3>2
  <2>4. readerPc' \in [Gens -> {"none", "top", "reading", "gone"}]
    <3>1. CASE fired
      BY <1>2, <3>1 DEF TypeInv
    <3>2. CASE ~fired
      BY <1>2, <3>2 DEF TypeInv
    <3> QED BY <3>1, <3>2
  <2>2. held' \in [Suites -> Gens \cup {Nil}]
    BY <1>2 DEF GetInstance, TypeInv
  <2>3. suitePc' \in [Suites -> {"new", "running", "finished"}]
    BY DEF GetInstance, TypeInv
  <2>6. instance' \in Gens \cup {Nil} /\ refCount' \in Nat /\ cancelled' = cancelled /\ late' = late
    BY <1>2 DEF GetInstance, TypeInv
  <2> QED BY <2>1, <2>2, <2>3, <2>4, <2>5, <2>6 DEF TypeInv
<1>4. SuiteInv'
  <2>1. New' = New \ {s}
    BY <1>0 DEF New, GetInstance, TypeInv
  <2>2. \A q \in Suites : suitePc'[q] = (IF q = s THEN "running" ELSE suitePc[q])
                          /\ held'[q] = (IF q = s THEN instance' ELSE held[q])
    BY DEF GetInstance, TypeInv
  <2>3. instance' # Nil
    BY <1>2, GenFacts
  <2>4. lastGen' + Cardinality(New') <= Cardinality(Suites)
    BY <1>1, <1>2, <2>1, GenFacts DEF SuiteInv, TypeInv
  <2> QED BY <2>2, <2>3, <2>4 DEF SuiteInv
<1>5. GenInv'
  <2>1. refCount' = refCount + 1 /\ cancelled' = cancelled
    BY DEF GetInstance
  <2>2. instance' # Nil /\ refCount' # 0
    BY <1>2, <2>1, GenFacts DEF TypeInv
  <2>3. CASE fired
    BY <1>2, <2>1, <2>2, <2>3 DEF GenInv
  <2>4. CASE ~fired
    <3>1. instance' = lastGen' /\ instance' \notin cancelled'
      BY <1>2, <2>1, <2>4, GenFacts DEF GenInv, TypeInv
    <3>2. ASSUME NEW g \in Gens, g > lastGen'
          PROVE  readerPc'[g] = "none" /\ g \notin cancelled'
      BY <1>2, <2>1, <2>4, <3>2, GenFacts DEF GenInv, TypeInv
    <3>3. ASSUME NEW g \in Gens, g <= lastGen', g # instance'
          PROVE  g \in cancelled'
      BY <1>2, <2>1, <2>4, <3>3, GenFacts DEF GenInv, TypeInv
    <3> QED BY <1>2, <2>2, <2>4, <3>1, <3>2, <3>3 DEF GenInv
  <2> QED BY <2>3, <2>4
<1>6. HolderInv'
  <2>1. instance' # Nil
    BY <1>2, GenFacts
  <2>2. Holders' = Holders \cup {s}
    BY <2>1 DEF Holders, GetInstance, TypeInv
  <2>3. Cardinality(Holders') = Cardinality(Holders) + 1 /\ Cardinality(Holders) \in Nat
    <3>1. Holders \subseteq Suites
      BY DEF Holders
    <3> QED BY <1>0, <2>2, <3>1, SubsetFacts
  <2>4. Matched' => Matched
    <3>1. \A q \in Suites : suitePc[q] = "finished" => suitePc'[q] = "finished" /\ held'[q] = held[q]
      BY <1>0 DEF New, GetInstance, TypeInv
    <3> QED BY <3>1, SuiteAssumption DEF Matched
  <2>5. ASSUME Matched', NEW q \in Holders' PROVE held'[q] = instance'
    <3>1. CASE q = s
      BY <3>1 DEF GetInstance, TypeInv
    <3>2. CASE q # s
      <4>1. q \in Holders /\ q \in Suites
        BY <2>2, <3>2 DEF Holders
      <4>2. held[q] = instance /\ held[q] # Nil
        BY <2>4, <2>5, <4>1 DEF HolderInv, Holders
      <4>3. held'[q] = held[q]
        BY <3>2, <4>1 DEF GetInstance, TypeInv
      <4>4. instance' = instance
        BY <1>2, <4>2
      <4> QED BY <4>2, <4>3, <4>4
    <3> QED BY <3>1, <3>2
  <2>6. refCount' = refCount + 1
    BY DEF GetInstance
  <2> QED BY <2>3, <2>4, <2>5, <2>6 DEF HolderInv, TypeInv
<1>7. LateInv'
  <2>1. UNCHANGED <<late, cancelled>>
    BY DEF GetInstance
  <2>2. \A g \in Gens : readerPc'[g] # readerPc[g] => readerPc'[g] = "top"
    BY <1>2 DEF TypeInv
  <2> QED BY <2>1, <2>2 DEF LateInv
<1> QED BY <1>3, <1>4, <1>5, <1>6, <1>7

\* CloseInstance of one suite.
LEMMA CloseInstanceStep ==
    ASSUME Inv, NEW s \in Suites, CloseInstance(s)
    PROVE  Inv'
<1> USE DEF Inv
<1>1. /\ suitePc[s] = "running" /\ s \notin Leaky
      /\ suitePc' = [suitePc EXCEPT ![s] = "finished"]
      /\ UNCHANGED <<lastGen, readerPc, late, held>>
  BY DEF CloseInstance
<1>2. /\ refCount' = IF refCount > 0 THEN refCount - 1 ELSE 0
      /\ refCount' \in Nat
  BY DEF CloseInstance, Released, TypeInv
<1>3. \/ /\ instance # Nil /\ refCount' = 0
         /\ cancelled' = cancelled \cup {instance} /\ instance' = Nil /\ fired' = FALSE
      \/ /\ instance = Nil \/ refCount' # 0
         /\ cancelled' = cancelled /\ instance' = instance /\ fired' = fired
  BY DEF CloseInstance, LastRelease, Released, RearmOnce
<1>4. \A q \in Suites : suitePc'[q] = IF q = s THEN "finished" ELSE suitePc[q]
  BY <1>1 DEF TypeInv
<1>5. TypeInv'
  <2>1. suitePc' \in [Suites -> {"new", "running", "finished"}]
    BY <1>1 DEF TypeInv
  <2> QED BY <1>1, <1>2, <1>3, <2>1 DEF TypeInv
<1>6. SuiteInv'
  <2>1. New' = New
    BY <1>1, <1>4 DEF New
  <2> QED BY <1>1, <1>4, <2>1 DEF SuiteInv
<1>7. GenInv'
  <2>1. CASE instance # Nil /\ instance' = Nil
    <3>1. ASSUME NEW g \in Gens, g > lastGen'
          PROVE  readerPc'[g] = "none" /\ g \notin cancelled'
      BY <1>1, <1>3, <2>1, <3>1, GenFacts DEF GenInv, TypeInv
    <3> QED BY <1>1, <1>3, <2>1, <3>1 DEF GenInv, TypeInv
  <2>2. CASE instance' = instance
    <3>1. fired' = fired /\ cancelled' = cancelled
      BY <1>3, <2>2
    <3>2. instance = Nil <=> refCount' = 0
      BY <1>2, <1>3, <2>2 DEF GenInv, TypeInv
    <3> QED BY <1>1, <2>2, <3>1, <3>2 DEF GenInv
  <2> QED BY <1>3, <2>1, <2>2
<1>8. HolderInv'
  <2>1. Holders' = Holders \ {s}
    BY <1>1, <1>4 DEF Holders
  <2>2. /\ Cardinality(Holders) \in Nat /\ Cardinality(Holders') \in Nat
        /\ Cardinality(Holders') = IF s \in Holders THEN Cardinality(Holders) - 1 ELSE Cardinality(Holders)
        /\ Holders' = {} <=> Cardinality(Holders') = 0
    <3>1. Holders \subseteq Suites /\ Holders' \subseteq Suites
      BY DEF Holders
    <3> QED BY <2>1, <3>1, SubsetFacts
  <2>3. refCount' <= Cardinality(Holders')
    BY <1>2, <2>2 DEF HolderInv, TypeInv
  <2>4. ASSUME Matched'
        PROVE  refCount' = Cardinality(Holders') /\ \A q \in Holders' : held'[q] = instance'
    <3>1. Matched
      BY <1>1, <1>4, <2>4, SuiteAssumption DEF Matched
    <3>2. s \in Holders
      BY <1>1, <1>4, <2>4 DEF Matched, Holders, SuiteInv
    <3>3. refCount' = Cardinality(Holders')
      BY <1>2, <2>2, <3>1, <3>2 DEF HolderInv, TypeInv
    <3>4. \A q \in Holders' : held'[q] = instance
      BY <1>1, <2>1, <3>1 DEF HolderInv
    <3>5. refCount' = 0 => Holders' = {}
      BY <2>2, <3>3
    <3>6. CASE instance' = instance
      BY <3>3, <3>4, <3>6
    <3>7. CASE instance' # instance
      BY <1>3, <3>3, <3>5, <3>7
    <3> QED BY <3>6, <3>7
  <2> QED BY <2>3, <2>4 DEF HolderInv
<1>9. LateInv'
  BY <1>1, <1>3 DEF LateInv
<1> QED BY <1>5, <1>6, <1>7, <1>8, <1>9

\* AfterAll of a suite that forgets the client, and a BeforeAll that fails.
LEMMA OtherSuiteStep ==
    ASSUME Inv, NEW s \in Suites, SetupFails(s) \/ Leave(s)
    PROVE  Inv'
<1> USE DEF Inv
<1>1. UNCHANGED <<instance, fired, refCount, lastGen, cancelled, readerPc, offset, late, held>>
  BY DEF SetupFails, Leave
<1>2. /\ suitePc' \in [Suites -> {"new", "running", "finished"}]
      /\ \A q \in Suites \ {s} : suitePc'[q] = suitePc[q]
      /\ \/ suitePc[s] = "new" /\ suitePc'[s] = "running" /\ s \in MayFail
         \/ suitePc[s] = "running" /\ suitePc'[s] = "finished" /\ s \in Leaky
  BY DEF SetupFails, Leave, TypeInv
<1>3. TypeInv'
  BY <1>1, <1>2 DEF TypeInv
<1>4. SuiteInv'
  <2>1. New' = New \/ New' = New \ {s}
    BY <1>2 DEF New
  <2>2. Cardinality(New') <= Cardinality(New) /\ Cardinality(New') \in Nat /\ Cardinality(New) \in Nat
    <3>1. New \subseteq Suites /\ New' \subseteq Suites
      BY DEF New
    <3> QED BY <2>1, <3>1, SubsetFacts
  <2>3. lastGen + Cardinality(New') <= Cardinality(Suites)
    BY <2>2, GenFacts DEF SuiteInv, TypeInv
  <2> QED BY <1>1, <1>2, <2>3 DEF SuiteInv
<1>5. GenInv'
  BY <1>1 DEF GenInv
<1>6. HolderInv'
  <2>1. Holders' = Holders
    BY <1>1, <1>2 DEF Holders, SuiteInv
  <2>2. Matched' => Matched
    BY <1>1, <1>2, SuiteAssumption DEF Matched
  <2> QED BY <1>1, <2>1, <2>2 DEF HolderInv
<1>7. LateInv'
  BY <1>1 DEF LateInv
<1> QED BY <1>3, <1>4, <1>5, <1>6, <1>7

\* The goroutine of one generation.
LEMMA ReaderStep ==
    ASSUME Inv, NEW g \in Gens, ReaderTop(g) \/ ReaderReads(g) \/ ReaderErr(g)
    PROVE  Inv'
<1> USE DEF Inv
<1>1. UNCHANGED <<instance, fired, refCount, lastGen, cancelled, suitePc, held>>
  BY DEF ReaderTop, ReaderReads, ReaderErr
<1>2. /\ readerPc' \in [Gens -> {"none", "top", "reading", "gone"}]
      /\ \A h \in Gens \ {g} : readerPc'[h] = readerPc[h] /\ late'[h] = late[h]
      /\ readerPc[g] # "none"
      /\ late' \in [Gens -> Nat]
  BY DEF ReaderTop, ReaderReads, ReaderErr, TypeInv
<1>3. TypeInv'
  BY <1>1, <1>2 DEF TypeInv
<1>4. SuiteInv'
  BY <1>1 DEF SuiteInv, New
<1>5. GenInv'
  BY <1>1, <1>2 DEF GenInv
<1>6. HolderInv'
  BY <1>1 DEF HolderInv, Holders, Matched
<1>7. LateInv'
  <2>1. late'[g] <= 1 /\ (late'[g] > 0 => g \in cancelled /\ readerPc'[g] # "reading")
    <3>1. CASE ReaderTop(g)
      BY <3>1 DEF ReaderTop, Continues, LateInv, TypeInv
    <3>2. CASE ReaderReads(g)
      <4>1. late[g] = 0
        BY <3>2 DEF ReaderReads, LateInv, TypeInv
      <4> QED BY <3>2, <4>1 DEF ReaderReads, TypeInv
    <3>3. CASE ReaderErr(g)
      BY <3>3 DEF ReaderErr, LateInv, TypeInv
    <3> QED BY <3>1, <3>2, <3>3
  <2> QED BY <1>1, <1>2, <2>1 DEF LateInv
<1> QED BY <1>3, <1>4, <1>5, <1>6, <1>7

-----------------------------------------------------------------------------
(* The theorems. *)

\* Every state the program reaches satisfies the invariant.
LEMMA Inductive == Spec => []Inv
<1>1. Inv /\ [Next]_vars => Inv'
  <2> SUFFICES ASSUME Inv, [Next]_vars PROVE Inv'
    OBVIOUS
  <2>1. ASSUME NEW s \in Suites, GetInstance(s) PROVE Inv'
    BY <2>1, GetInstanceStep
  <2>2. ASSUME NEW s \in Suites, SetupFails(s) PROVE Inv'
    BY <2>2, OtherSuiteStep
  <2>3. ASSUME NEW s \in Suites, SuiteEnds(s) PROVE Inv'
    BY <2>3, CloseInstanceStep, OtherSuiteStep DEF SuiteEnds
  <2>4. ASSUME NEW g \in Gens, ReaderTop(g) \/ ReaderReads(g) \/ ReaderErr(g) PROVE Inv'
    BY <2>4, ReaderStep
  <2>5. CASE UNCHANGED vars
    BY <2>5 DEF vars, Inv, TypeInv, SuiteInv, New, GenInv, HolderInv, Holders, Matched, LateInv
  <2> QED BY <2>1, <2>2, <2>3, <2>4, <2>5 DEF Next
<1> QED BY <1>1, InitInv, PTL DEF Spec

\* Whoever holds the client holds the current instance, and it is open: for any
\* number of suites, leaky ones among them, as long as none releases what it
\* has not taken (kafka.go:145-159).
THEOREM HoldersAreServed == Spec => []HolderHasInstance
<1>1. Inv => HolderHasInstance
  <2> SUFFICES ASSUME Inv, Matched, NEW s \in Holders
               PROVE  held[s] = instance /\ instance \notin cancelled
    BY DEF HolderHasInstance
  <2>1. held[s] = instance /\ instance # Nil
    BY DEF Inv, HolderInv, Holders
  <2> QED BY <2>1 DEF Inv, GenInv
<1> QED BY <1>1, Inductive, PTL

\* The count, the instance and once always agree, also after releases without a
\* reference, and at most one generation reads for the group.
THEOREM CountIsExact == Spec => []CountIsHolders
<1>1. Inv => CountIsHolders
  <2> SUFFICES ASSUME Inv PROVE CountIsHolders
    OBVIOUS
  <2>1. /\ Cardinality(Holders) \in Nat
        /\ Holders = {} <=> Cardinality(Holders) = 0
    <3>1. Holders \subseteq Suites
      BY DEF Holders
    <3> QED BY <3>1, SubsetFacts
  <2>2. Matched => refCount = Cardinality(Holders) /\ (instance # Nil <=> Holders # {})
    BY <2>1 DEF Inv, HolderInv, GenInv
  <2>3. refCount \in 0 .. Cardinality(Holders)
    BY <2>1 DEF Inv, HolderInv, TypeInv
  <2>4. Cardinality({g \in Gens : readerPc[g] # "none" /\ g \notin cancelled}) <= 1
    <3> DEFINE live == {g \in Gens : readerPc[g] # "none" /\ g \notin cancelled}
    <3>1. ASSUME NEW g \in live PROVE g = instance
      <4>1. g \in Gens /\ g \in Nat /\ lastGen \in Nat
        BY GenFacts DEF Inv, TypeInv
      <4>2. g <= lastGen
        BY <4>1 DEF Inv, GenInv
      <4> QED BY <4>1, <4>2 DEF Inv, GenInv
    <3>2. IsFiniteSet({instance}) /\ Cardinality({instance}) = 1
      BY FS_Singleton
    <3>3. live \in SUBSET {instance}
      BY <3>1
    <3> QED BY <3>2, <3>3, FS_Subset
  <2> QED BY <2>2, <2>3, <2>4 DEF CountIsHolders, Inv, GenInv
<1> QED BY <1>1, Inductive, PTL

\* A closed generation takes at most one more message from the group.
THEOREM FewLateReads == Spec => []LateReadsBounded
<1>1. Inv => LateReadsBounded
  BY DEF Inv, LateInv, LateReadsBounded
<1> QED BY <1>1, Inductive, PTL
=============================================================================
