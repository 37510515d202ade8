-------------------------- MODULE WalletTestProofs --------------------------
(***************************************************************************)
(* What a call of the Redis client answers, for any number of attempts, of *)
(* updates and of faults, and any keys in the maps of a wallet; and what a *)
(* test of a wallet that passed was shown, whichever test it is, for any   *)
(* number of events it did not ask for, requests that fail, and any way    *)
(* its steps, the services and the call are interleaved.                   *)
(***************************************************************************)
EXTENDS WalletTest, WellFoundedInduction, TLAPS

Read == [seq : Nat \ {0}, keys : SUBSET Keys]
Value == [seq : Nat, keys : SUBSET Keys]

TypeInv ==
    /\ held \in {"absent", "empty", "garbage", "wallet"}
    /\ wallet \in Value
    /\ held = "wallet" => wallet \in Read
    /\ awaited \in Nat
    /\ i \in 0 .. Attempts
    /\ pc \in {"idle", "try", "pause", "returned"}
    /\ call \in {"GetWithRetry", "GetWithSeqCheck"}
    /\ lastErr \in {"nil", "notFound", "getFailed", "badJson"}
    /\ result \in Value
    /\ err \in {"nil", "error"}
    /\ reads \in Seq(Read)
    /\ sawEmpty \in BOOLEAN

\* Before the call nothing was read, and until something is, the value is not
\* touched.  While the call goes on, no value that was read
\* was the answer, and an attempt that left no error saw the empty string.
GoingOnInv ==
    /\ pc = "idle" => reads = << >> /\ i = 0 /\ lastErr = "nil"
    /\ reads = << >> => result = NoWallet
    /\ pc \in {"try", "pause"} =>
         /\ call = "GetWithSeqCheck" => \A n \in DOMAIN reads : reads[n].seq # awaited
         /\ call = "GetWithRetry" /\ lastErr = "nil" => i = 0 \/ sawEmpty

Inv == TypeInv /\ GoingOnInv /\ AnswerIsTrue /\ ResultIsMerged

-----------------------------------------------------------------------------

\* At first nothing was read.
LEMMA InitInv == Init => Inv
<1> SUFFICES ASSUME Init PROVE Inv
  OBVIOUS
<1> USE BoundAssumption DEF Init, Idle, NoWallet
<1>1. TypeInv
  <2>1. NoWallet \in Value
    BY DEF Value
  <2>2. << >> \in Seq(Read)
    OBVIOUS
  <2>3. 0 \in 0 .. Attempts
    OBVIOUS
  <2> HIDE DEF NoWallet
  <2> QED BY <2>1, <2>2, <2>3 DEF TypeInv
<1>2. GoingOnInv /\ AnswerIsTrue /\ ResultIsMerged
  BY DEF GoingOnInv, AnswerIsTrue, ResultIsMerged
<1> QED BY <1>1, <1>2 DEF Inv

\* What the services do to the key does not concern what was read.
LEMMA ServiceStep == Inv /\ (WriteWallet \/ WriteOther) => Inv'
<1> SUFFICES ASSUME Inv, WriteWallet \/ WriteOther PROVE Inv'
  OBVIOUS
<1> USE DEF Inv
<1>1. UNCHANGED <<asked, i, pc, lastErr, result, err, reads, sawEmpty>>
  BY DEF WriteWallet, WriteOther
<1>2. /\ held' \in {"absent", "empty", "garbage", "wallet"}
      /\ wallet' \in Value
      /\ held' = "wallet" => wallet' \in Read
  <2>1. CASE WriteWallet
    <3>1. wallet.seq \in Nat
      BY DEF TypeInv, Value
    <3> QED BY <2>1, <3>1, BoundAssumption DEF WriteWallet, Value, Read
  <2>2. CASE WriteOther
    BY <2>2 DEF WriteOther, TypeInv
  <2> QED BY <2>1, <2>2
<1>3. TypeInv'
  BY <1>1, <1>2 DEF TypeInv, asked
<1>4. GoingOnInv' /\ AnswerIsTrue' /\ ResultIsMerged'
  BY <1>1 DEF GoingOnInv, AnswerIsTrue, ResultIsMerged, asked
<1> QED BY <1>3, <1>4

\* A call that begins has read nothing.
LEMMA BeginStep ==
    ASSUME Inv, NEW how \in {"GetWithRetry", "GetWithSeqCheck"}, NEW seq \in Nat,
           Begin(how, seq)
    PROVE  Inv'
<1> USE DEF Inv, Begin, service
<1>1. TypeInv'
  BY DEF TypeInv
<1>2. GoingOnInv' /\ AnswerIsTrue' /\ ResultIsMerged'
  BY DEF GoingOnInv, AnswerIsTrue, ResultIsMerged
<1> QED BY <1>1, <1>2

\* An attempt that reads nothing adds nothing to what was read.
LEMMA MissStep == Inv /\ (GetNothing \/ GetFails \/ GetGarbage) => Inv'
<1> SUFFICES ASSUME Inv, GetNothing \/ GetFails \/ GetGarbage PROVE Inv'
  OBVIOUS
<1> USE DEF Inv
<1>1. /\ UNCHANGED <<held, wallet, asked, result, err, reads>>
      /\ i' = i + 1 /\ i < Attempts
      /\ pc = "try" /\ pc' \in {"try", "pause"}
      /\ lastErr' \in {"nil", "notFound", "getFailed", "badJson"}
      /\ sawEmpty' \in BOOLEAN
      /\ lastErr' = "nil" => sawEmpty'
  BY DEF GetNothing, GetFails, GetGarbage, Trying, Retry, Count, service, asked, TypeInv
<1>2. TypeInv'
  BY <1>1, BoundAssumption DEF TypeInv, asked
<1>3. GoingOnInv' /\ AnswerIsTrue' /\ ResultIsMerged'
  BY <1>1 DEF GoingOnInv, AnswerIsTrue, ResultIsMerged, asked
<1> QED BY <1>2, <1>3

\* A wallet that was read replaces the number, and its keys join those of the
\* reads before.
LEMMA ReadStep == Inv /\ GetWallet => Inv'
<1> SUFFICES ASSUME Inv, GetWallet PROVE Inv'
  OBVIOUS
<1> USE DEF Inv
<1>1. /\ pc = "try" /\ i < Attempts /\ wallet \in Read
      /\ reads' = Append(reads, wallet)
      /\ result' = [wallet EXCEPT !.keys = @ \cup result.keys]
      /\ UNCHANGED <<held, wallet, call, awaited, lastErr, sawEmpty>>
      /\ \/ (call = "GetWithSeqCheck" => wallet.seq = awaited) /\ pc' = "returned" /\ err' = "nil" /\ i' = i
         \/ call = "GetWithSeqCheck" /\ wallet.seq # awaited /\ pc' = "pause" /\ i' = i + 1 /\ err' = err
  BY DEF GetWallet, Trying, Accepted, Decoded, TypeInv, service, asked
<1> DEFINE m == Len(reads) + 1
<1>2. /\ Len(reads) \in Nat /\ DOMAIN reads = 1 .. Len(reads)
      /\ reads' \in Seq(Read) /\ reads' # << >> /\ Len(reads') = m /\ DOMAIN reads' = 1 .. m
      /\ reads'[m] = wallet
      /\ \A n \in DOMAIN reads : n \in DOMAIN reads' /\ reads'[n] = reads[n]
      /\ \A n \in DOMAIN reads' : n = m \/ n \in DOMAIN reads
      /\ m \in DOMAIN reads'
  BY <1>1 DEF TypeInv
<1> HIDE DEF m
<1>3. /\ result'.seq = wallet.seq /\ result'.keys = wallet.keys \cup result.keys
      /\ result' \in Value
  BY <1>1 DEF TypeInv, Read, Value
<1>4. TypeInv'
  BY <1>1, <1>2, <1>3, BoundAssumption DEF TypeInv
<1>5. GoingOnInv'
  BY <1>1, <1>2 DEF GoingOnInv
<1>6. AnswerIsTrue'
  BY <1>1, <1>2, <1>3 DEF AnswerIsTrue
<1>7. ResultIsMerged'
  <2>1. result.keys # {} => reads # << >>
    BY DEF GoingOnInv, NoWallet
  <2>2. ASSUME NEW k \in result'.keys PROVE \E n \in DOMAIN reads' : k \in reads'[n].keys
    <3>1. CASE k \in wallet.keys
      BY <1>2, <3>1
    <3>2. CASE k \in result.keys
      <4>1. PICK n \in DOMAIN reads : k \in reads[n].keys
        BY <2>1, <3>2 DEF ResultIsMerged
      <4> QED BY <4>1, <1>2
    <3> QED BY <1>3, <2>2, <3>1, <3>2
  <2> QED BY <1>2, <1>3, <2>2 DEF ResultIsMerged
<1> QED BY <1>4, <1>5, <1>6, <1>7

\* The pause is over, or the attempts are: the error is what the last read left.
LEMMA EndStep == Inv /\ (Wake \/ Exhausted) => Inv'
<1> SUFFICES ASSUME Inv, Wake \/ Exhausted PROVE Inv'
  OBVIOUS
<1> USE DEF Inv, service, asked
<1>1. CASE Wake
  BY <1>1 DEF Wake, TypeInv, GoingOnInv, AnswerIsTrue, ResultIsMerged
<1>2. CASE Exhausted
  <2>1. TypeInv' /\ GoingOnInv' /\ ResultIsMerged'
    BY <1>2 DEF Exhausted, TypeInv, GoingOnInv, ResultIsMerged
  <2>2. AnswerIsTrue'
    BY <1>2 DEF Exhausted, TypeInv, GoingOnInv, AnswerIsTrue
  <2> QED BY <2>1, <2>2
<1> QED BY <1>1, <1>2

\* Every step keeps the invariant.
LEMMA NextInv == Inv /\ [Next]_vars => Inv'
<1> SUFFICES ASSUME Inv, [Next]_vars PROVE Inv'
  OBVIOUS
<1>1. ASSUME NEW n \in 1 .. MaxSeq, Begin("GetWithRetry", 0) \/ Begin("GetWithSeqCheck", n)
      PROVE  Inv'
  BY <1>1, BeginStep, BoundAssumption
<1>2. CASE UNCHANGED vars
  BY <1>2 DEF Inv, TypeInv, GoingOnInv, AnswerIsTrue, ResultIsMerged, vars, service, asked
<1> QED BY <1>1, <1>2, ServiceStep, MissStep, ReadStep, EndStep DEF Next, CallStep

\* The invariant holds in every reachable state.
LEMMA AlwaysInv == Spec => []Inv
BY InitInv, NextInv, PTL DEF Spec

\* What a call of GetWithRetry or GetWithSeqCheck says of its result is true,
\* whatever the services do to the key between its attempts.
THEOREM AnswersAreTrue == Spec => []AnswerIsTrue
<1>1. Inv => AnswerIsTrue
  BY DEF Inv
<1> QED BY <1>1, AlwaysInv, PTL

\* The value is the last one read, with map entries of the earlier ones and no
\* others.
THEOREM ResultsAreMerged == Spec => []ResultIsMerged
<1>1. Inv => ResultIsMerged
  BY DEF Inv
<1> QED BY <1>1, AlwaysInv, PTL

-----------------------------------------------------------------------------
(* What the programs of the tests have in common. *)

Is(step, does, place, async) == step.does = does /\ step.place = place /\ step.async = async
Named(step) == step.kinds # << >>

\* Each step is one of these.
HasShape(P, name) ==
    \A k \in DOMAIN P :
        \/ P[k].does = "act" /\ P[k].place = "api"
        \/ P[k].does = "find" /\ P[k].place \in {"topic", "stream", "projection", "db"}
        \/ P[k].does = "numbered" /\ P[k].place = "projection"
        \/ P[k].does = "read" /\ P[k].place \in {"public", "cap"} /\ ~Named(P[k])
        \/ P[k].does = "panic" /\ P[k].place = "db" /\ ~Named(P[k])
        \/ P[k].does = "absence" /\ P[k].place = "public" /\ ~Named(P[k]) /\ name = "removeWallet"
        \/ P[k].does \in {"GetWithRetry", "GetWithSeqCheck"} /\ P[k].place = "redis" /\ ~Named(P[k])

\* What a step searches for has a kind.
NamesKinds(P) ==
    \A k \in DOMAIN P : P[k].does \in {"find", "numbered"} => Named(P[k])

\* The kinds of a step are a list.
EventKinds ==
    {"limitCreated", "limitUpdated", "limitReset", "balanceAdjusted", "depositedMoney", "blockStarted",
     "blockRevoked", "walletAdded", "walletDisabled", "defaultStarted", "defaultUnset", "defaultSet", "blockersSet"}
Listed(step) == step.kinds \in Seq(EventKinds)
ListsKinds(P) == \A k \in DOMAIN P : Listed(P[k])

\* Nothing is asked for, and no event searched for, once an asynchronous step
\* was started.
KeepsOrder(P) ==
    \A p, q \in DOMAIN P : P[p].async /\ p <= q => P[q].place \notin {"api", "topic", "stream"}

\* One step only looks at the projection, at Redis and at the public API.
UsesOnce(P) ==
    \A p, q \in DOMAIN P :
        P[p].place = P[q].place /\ P[p].place \in {"projection", "public", "redis"} => p = q

\* The projection and Redis are compared with the last event searched for:
\* Redis with the target, the projection with an event of the same kind.
LooksAfterEvent(P, name) ==
    \A k \in DOMAIN P : P[k].place \in {"projection", "redis"} =>
        \E j \in DOMAIN P :
            /\ j < k /\ P[j].place = "stream"
            /\ \A l \in DOMAIN P : P[l].place = "stream" => l <= j
            /\ P[k].place = "redis" => P[j].kinds[1] = Target(name)
            /\ P[k].place = "projection" => P[j].kinds[1] = P[k].kinds[1]

\* No event with the same type in the projection is of another kind.
SingleKind(P, kind) ==
    /\ kind \notin {"limitUpdated", "limitReset", "limitChanged"}
    /\ kind = "limitCreated" => \A a \in DOMAIN P : \A n \in DOMAIN P[a].kinds : P[a].kinds[n] = "limitCreated"

\* What is asked for is never what every wallet begins with, an adjustment is
\* searched for in the stream, and what the projection is searched for without
\* a number is a kind of its own.
AsksForKinds(P, name) ==
    /\ Target(name) # "walletCreated"
    /\ name \in Adjusts => \E k \in DOMAIN P : P[k].place = "stream"
    /\ \A k \in DOMAIN P : P[k].does = "find" /\ P[k].place = "projection" => SingleKind(P, P[k].kinds[1])

WellFormed(name) ==
    LET P == Program[name]
    IN  /\ Len(P) \in Nat /\ DOMAIN P = 1 .. Len(P)
        /\ HasShape(P, name) /\ NamesKinds(P) /\ ListsKinds(P)
        /\ KeepsOrder(P) /\ UsesOnce(P)
        /\ LooksAfterEvent(P, name) /\ AsksForKinds(P, name)

\* The largest of some integers.
LEMMA MaxIs ==
    ASSUME NEW S, NEW m \in S, \A k \in S : k \in Int /\ k <= m
    PROVE  Max(S) = m
<1>1. \A x \in S : (\A y \in S : x >= y) => x = m
  OBVIOUS
<1>2. \A y \in S : m >= y
  OBVIOUS
<1> QED BY <1>1, <1>2 DEF Max

\* LimitCreate is well formed.
LEMMA LimitCreateFits == WellFormed("limitCreate")
<1> DEFINE P == LimitCreate
<1>1. Program["limitCreate"] = P /\ Len(P) = 8 /\ DOMAIN P = 1 .. 8
  BY DEF Program, LimitCreate
<1>2. /\ Is(P[1], "act", "api", FALSE) /\ Named(P[1])
      /\ Is(P[2], "find", "topic", FALSE) /\ Named(P[2])
      /\ Is(P[3], "find", "stream", FALSE) /\ Named(P[3])
      /\ Is(P[4], "read", "public", TRUE) /\ ~Named(P[4])
      /\ Is(P[5], "read", "cap", TRUE) /\ ~Named(P[5])
      /\ Is(P[6], "GetWithSeqCheck", "redis", TRUE) /\ ~Named(P[6])
      /\ Is(P[7], "find", "projection", TRUE) /\ Named(P[7])
      /\ Is(P[8], "find", "db", TRUE) /\ Named(P[8])
  BY DEF Act, Async, Find, GetWithSeqCheck, Is, LimitCreate, Look, Named, Step
<1>3. /\ P[1].kinds = << "limitCreated" >>
      /\ P[2].kinds = << "limitCreated" >>
      /\ P[3].kinds = << "limitCreated" >>
      /\ P[4].kinds = << >>
      /\ P[5].kinds = << >>
      /\ P[6].kinds = << >>
      /\ P[7].kinds = << "limitCreated" >>
      /\ P[8].kinds = << "limitCreated" >>
  BY DEF Act, Async, Find, GetWithSeqCheck, LimitCreate, Look, Step
<1> HIDE DEF P
<1>4. Target("limitCreate") = "limitCreated"
  <2> DEFINE acts == {k \in DOMAIN P : P[k].does = "act"}
  <2>1. 1 \in acts /\ \A k \in acts : k \in Int /\ k <= 1
    BY <1>1, <1>2 DEF Is
  <2>2. Max(acts) = 1
    BY <2>1, MaxIs
  <2>3. P[1].kinds[Len(P[1].kinds)] = "limitCreated"
    BY <1>2, <1>3 DEF Is
  <2> QED BY <1>1, <2>2, <2>3 DEF Target, Last
<1>5. HasShape(P, "limitCreate")
  BY <1>1, <1>2 DEF Is, HasShape
<1>6. NamesKinds(P)
  BY <1>1, <1>2 DEF Is, NamesKinds
<1>11. Listed(P[1]) /\ Listed(P[2]) /\ Listed(P[3]) /\ Listed(P[4]) /\ Listed(P[5])
       /\ Listed(P[6]) /\ Listed(P[7]) /\ Listed(P[8])
  BY <1>3 DEF Listed, EventKinds
<1>12. ListsKinds(P)
  BY <1>1, <1>11 DEF ListsKinds
<1>7. KeepsOrder(P)
  BY <1>1, <1>2 DEF Is, KeepsOrder
<1>8. UsesOnce(P)
  BY <1>1, <1>2 DEF Is, UsesOnce
<1>9. LooksAfterEvent(P, "limitCreate")
  BY <1>1, <1>2, <1>3, <1>4 DEF Is, LooksAfterEvent
<1>10. AsksForKinds(P, "limitCreate")
  <2>1. "limitCreate" \in Adjusts => \E k \in DOMAIN P : P[k].place = "stream"
    BY <1>1, <1>2 DEF Is, Adjusts
  <2>2. \A k \in DOMAIN P : P[k].does = "find" /\ P[k].place = "projection" => SingleKind(P, P[k].kinds[1])
    BY <1>1, <1>2, <1>3 DEF Is, SingleKind
  <2> QED BY <1>4, <2>1, <2>2 DEF AsksForKinds
<1> QED BY <1>1, <1>5, <1>6, <1>7, <1>8, <1>9, <1>10, <1>12 DEF WellFormed

\* LimitUpdate is well formed.
LEMMA LimitUpdateFits == WellFormed("limitUpdate")
<1> DEFINE P == LimitUpdate
<1>1. Program["limitUpdate"] = P /\ Len(P) = 9 /\ DOMAIN P = 1 .. 9
  BY DEF Program, LimitUpdate
<1>2. /\ Is(P[1], "act", "api", FALSE) /\ Named(P[1])
      /\ Is(P[2], "find", "topic", FALSE) /\ Named(P[2])
      /\ Is(P[3], "act", "api", FALSE) /\ Named(P[3])
      /\ Is(P[4], "find", "topic", FALSE) /\ Named(P[4])
      /\ Is(P[5], "find", "stream", FALSE) /\ Named(P[5])
      /\ Is(P[6], "read", "public", TRUE) /\ ~Named(P[6])
      /\ Is(P[7], "read", "cap", TRUE) /\ ~Named(P[7])
      /\ Is(P[8], "GetWithSeqCheck", "redis", TRUE) /\ ~Named(P[8])
      /\ Is(P[9], "numbered", "projection", TRUE) /\ Named(P[9])
  BY DEF Act, Async, Find, FindNumbered, GetWithSeqCheck, Is, LimitUpdate, Look, Named, Projection, Step
<1>3. /\ P[1].kinds = << "limitCreated" >>
      /\ P[2].kinds = << "limitCreated" >>
      /\ P[3].kinds = << "limitUpdated" >>
      /\ P[4].kinds = << "limitUpdated" >>
      /\ P[5].kinds = << "limitUpdated" >>
      /\ P[6].kinds = << >>
      /\ P[7].kinds = << >>
      /\ P[8].kinds = << >>
      /\ P[9].kinds = << "limitUpdated" >>
  BY DEF Act, Async, Find, FindNumbered, GetWithSeqCheck, LimitUpdate, Look, Projection, Step
<1> HIDE DEF P
<1>4. Target("limitUpdate") = "limitUpdated"
  <2> DEFINE acts == {k \in DOMAIN P : P[k].does = "act"}
  <2>1. 3 \in acts /\ \A k \in acts : k \in Int /\ k <= 3
    BY <1>1, <1>2 DEF Is
  <2>2. Max(acts) = 3
    BY <2>1, MaxIs
  <2>3. P[3].kinds[Len(P[3].kinds)] = "limitUpdated"
    BY <1>2, <1>3 DEF Is
  <2> QED BY <1>1, <2>2, <2>3 DEF Target, Last
<1>5. HasShape(P, "limitUpdate")
  BY <1>1, <1>2 DEF Is, HasShape
<1>6. NamesKinds(P)
  BY <1>1, <1>2 DEF Is, NamesKinds
<1>11. Listed(P[1]) /\ Listed(P[2]) /\ Listed(P[3]) /\ Listed(P[4]) /\ Listed(P[5])
       /\ Listed(P[6]) /\ Listed(P[7]) /\ Listed(P[8]) /\ Listed(P[9])
  BY <1>3 DEF Listed, EventKinds
<1>12. ListsKinds(P)
  BY <1>1, <1>11 DEF ListsKinds
<1>7. KeepsOrder(P)
  BY <1>1, <1>2 DEF Is, KeepsOrder
<1>8. UsesOnce(P)
  BY <1>1, <1>2 DEF Is, UsesOnce
<1>9. LooksAfterEvent(P, "limitUpdate")
  BY <1>1, <1>2, <1>3, <1>4 DEF Is, LooksAfterEvent
<1>10. AsksForKinds(P, "limitUpdate")
  <2>1. "limitUpdate" \in Adjusts => \E k \in DOMAIN P : P[k].place = "stream"
    BY <1>1, <1>2 DEF Is, Adjusts
  <2>2. \A k \in DOMAIN P : P[k].does = "find" /\ P[k].place = "projection" => SingleKind(P, P[k].kinds[1])
    BY <1>1, <1>2, <1>3 DEF Is, SingleKind
  <2> QED BY <1>4, <2>1, <2>2 DEF AsksForKinds
<1> QED BY <1>1, <1>5, <1>6, <1>7, <1>8, <1>9, <1>10, <1>12 DEF WellFormed

\* LimitReset is well formed.
LEMMA LimitResetFits == WellFormed("limitReset")
<1> DEFINE P == LimitReset
<1>1. Program["limitReset"] = P /\ Len(P) = 9 /\ DOMAIN P = 1 .. 9
  BY DEF Program, LimitReset
<1>2. /\ Is(P[1], "act", "api", FALSE) /\ Named(P[1])
      /\ Is(P[2], "find", "topic", FALSE) /\ Named(P[2])
      /\ Is(P[3], "find", "stream", FALSE) /\ Named(P[3])
      /\ Is(P[4], "act", "api", FALSE) /\ Named(P[4])
      /\ Is(P[5], "find", "stream", FALSE) /\ Named(P[5])
      /\ Is(P[6], "read", "public", TRUE) /\ ~Named(P[6])
      /\ Is(P[7], "read", "cap", TRUE) /\ ~Named(P[7])
      /\ Is(P[8], "GetWithRetry", "redis", TRUE) /\ ~Named(P[8])
      /\ Is(P[9], "numbered", "projection", TRUE) /\ Named(P[9])
  BY DEF Act, Async, Find, FindNumbered, GetWithRetry, Is, LimitReset, Look, Named, Step
<1>3. /\ P[1].kinds = << "limitCreated" >>
      /\ P[2].kinds = << "limitCreated" >>
      /\ P[3].kinds = << "limitCreated" >>
      /\ P[4].kinds = << "balanceAdjusted", "limitReset" >>
      /\ P[5].kinds = << "limitReset" >>
      /\ P[6].kinds = << >>
      /\ P[7].kinds = << >>
      /\ P[8].kinds = << >>
      /\ P[9].kinds = << "limitReset" >>
  BY DEF Act, Async, Find, FindNumbered, GetWithRetry, LimitReset, Look, Step
<1> HIDE DEF P
<1>4. Target("limitReset") = "limitReset"
  <2> DEFINE acts == {k \in DOMAIN P : P[k].does = "act"}
  <2>1. 4 \in acts /\ \A k \in acts : k \in Int /\ k <= 4
    BY <1>1, <1>2 DEF Is
  <2>2. Max(acts) = 4
    BY <2>1, MaxIs
  <2>3. P[4].kinds[Len(P[4].kinds)] = "limitReset"
    BY <1>2, <1>3 DEF Is
  <2> QED BY <1>1, <2>2, <2>3 DEF Target, Last
<1>5. HasShape(P, "limitReset")
  BY <1>1, <1>2 DEF Is, HasShape
<1>6. NamesKinds(P)
  BY <1>1, <1>2 DEF Is, NamesKinds
<1>11. Listed(P[1]) /\ Listed(P[2]) /\ Listed(P[3]) /\ Listed(P[4]) /\ Listed(P[5])
       /\ Listed(P[6]) /\ Listed(P[7]) /\ Listed(P[8]) /\ Listed(P[9])
  BY <1>3 DEF Listed, EventKinds
<1>12. ListsKinds(P)
  BY <1>1, <1>11 DEF ListsKinds
<1>7. KeepsOrder(P)
  BY <1>1, <1>2 DEF Is, KeepsOrder
<1>8. UsesOnce(P)
  BY <1>1, <1>2 DEF Is, UsesOnce
<1>9. LooksAfterEvent(P, "limitReset")
  BY <1>1, <1>2, <1>3, <1>4 DEF Is, LooksAfterEvent
<1>10. AsksForKinds(P, "limitReset")
  <2>1. "limitReset" \in Adjusts => \E k \in DOMAIN P : P[k].place = "stream"
    BY <1>1, <1>2 DEF Is, Adjusts
  <2>2. \A k \in DOMAIN P : P[k].does = "find" /\ P[k].place = "projection" => SingleKind(P, P[k].kinds[1])
    BY <1>1, <1>2, <1>3 DEF Is, SingleKind
  <2> QED BY <1>4, <2>1, <2>2 DEF AsksForKinds
<1> QED BY <1>1, <1>5, <1>6, <1>7, <1>8, <1>9, <1>10, <1>12 DEF WellFormed

\* Adjust is well formed.
LEMMA AdjustFits == WellFormed("adjust")
<1> DEFINE P == Adjust
<1>1. Program["adjust"] = P /\ Len(P) = 4 /\ DOMAIN P = 1 .. 4
  BY DEF Program, Adjust
<1>2. /\ Is(P[1], "act", "api", FALSE) /\ Named(P[1])
      /\ Is(P[2], "find", "stream", FALSE) /\ Named(P[2])
      /\ Is(P[3], "find", "projection", TRUE) /\ Named(P[3])
      /\ Is(P[4], "GetWithRetry", "redis", FALSE) /\ ~Named(P[4])
  BY DEF Act, Adjust, Async, Find, GetWithRetry, Is, Named, Step
<1>3. /\ P[1].kinds = << "balanceAdjusted" >>
      /\ P[2].kinds = << "balanceAdjusted" >>
      /\ P[3].kinds = << "balanceAdjusted" >>
      /\ P[4].kinds = << >>
  BY DEF Act, Adjust, Async, Find, GetWithRetry, Step
<1> HIDE DEF P
<1>4. Target("adjust") = "balanceAdjusted"
  <2> DEFINE acts == {k \in DOMAIN P : P[k].does = "act"}
  <2>1. 1 \in acts /\ \A k \in acts : k \in Int /\ k <= 1
    BY <1>1, <1>2 DEF Is
  <2>2. Max(acts) = 1
    BY <2>1, MaxIs
  <2>3. P[1].kinds[Len(P[1].kinds)] = "balanceAdjusted"
    BY <1>2, <1>3 DEF Is
  <2> QED BY <1>1, <2>2, <2>3 DEF Target, Last
<1>5. HasShape(P, "adjust")
  BY <1>1, <1>2 DEF Is, HasShape
<1>6. NamesKinds(P)
  BY <1>1, <1>2 DEF Is, NamesKinds
<1>11. Listed(P[1]) /\ Listed(P[2]) /\ Listed(P[3]) /\ Listed(P[4])
  BY <1>3 DEF Listed, EventKinds
<1>12. ListsKinds(P)
  BY <1>1, <1>11 DEF ListsKinds
<1>7. KeepsOrder(P)
  BY <1>1, <1>2 DEF Is, KeepsOrder
<1>8. UsesOnce(P)
  BY <1>1, <1>2 DEF Is, UsesOnce
<1>9. LooksAfterEvent(P, "adjust")
  BY <1>1, <1>2, <1>3, <1>4 DEF Is, LooksAfterEvent
<1>10. AsksForKinds(P, "adjust")
  <2>1. "adjust" \in Adjusts => \E k \in DOMAIN P : P[k].place = "stream"
    BY <1>1, <1>2 DEF Is, Adjusts
  <2>2. \A k \in DOMAIN P : P[k].does = "find" /\ P[k].place = "projection" => SingleKind(P, P[k].kinds[1])
    BY <1>1, <1>2, <1>3 DEF Is, SingleKind
  <2> QED BY <1>4, <2>1, <2>2 DEF AsksForKinds
<1> QED BY <1>1, <1>5, <1>6, <1>7, <1>8, <1>9, <1>10, <1>12 DEF WellFormed

\* AdjustTable is well formed.
LEMMA AdjustTableFits == WellFormed("adjustTable")
<1> DEFINE P == AdjustTable
<1>1. Program["adjustTable"] = P /\ Len(P) = 4 /\ DOMAIN P = 1 .. 4
  BY DEF Program, AdjustTable
<1>2. /\ Is(P[1], "act", "api", FALSE) /\ Named(P[1])
      /\ Is(P[2], "find", "stream", FALSE) /\ Named(P[2])
      /\ Is(P[3], "find", "projection", TRUE) /\ Named(P[3])
      /\ Is(P[4], "GetWithSeqCheck", "redis", TRUE) /\ ~Named(P[4])
  BY DEF Act, AdjustTable, Async, Find, GetWithSeqCheck, Is, Named, Step
<1>3. /\ P[1].kinds = << "balanceAdjusted" >>
      /\ P[2].kinds = << "balanceAdjusted" >>
      /\ P[3].kinds = << "balanceAdjusted" >>
      /\ P[4].kinds = << >>
  BY DEF Act, AdjustTable, Async, Find, GetWithSeqCheck, Step
<1> HIDE DEF P
<1>4. Target("adjustTable") = "balanceAdjusted"
  <2> DEFINE acts == {k \in DOMAIN P : P[k].does = "act"}
  <2>1. 1 \in acts /\ \A k \in acts : k \in Int /\ k <= 1
    BY <1>1, <1>2 DEF Is
  <2>2. Max(acts) = 1
    BY <2>1, MaxIs
  <2>3. P[1].kinds[Len(P[1].kinds)] = "balanceAdjusted"
    BY <1>2, <1>3 DEF Is
  <2> QED BY <1>1, <2>2, <2>3 DEF Target, Last
<1>5. HasShape(P, "adjustTable")
  BY <1>1, <1>2 DEF Is, HasShape
<1>6. NamesKinds(P)
  BY <1>1, <1>2 DEF Is, NamesKinds
<1>11. Listed(P[1]) /\ Listed(P[2]) /\ Listed(P[3]) /\ Listed(P[4])
  BY <1>3 DEF Listed, EventKinds
<1>12. ListsKinds(P)
  BY <1>1, <1>11 DEF ListsKinds
<1>7. KeepsOrder(P)
  BY <1>1, <1>2 DEF Is, KeepsOrder
<1>8. UsesOnce(P)
  BY <1>1, <1>2 DEF Is, UsesOnce
<1>9. LooksAfterEvent(P, "adjustTable")
  BY <1>1, <1>2, <1>3, <1>4 DEF Is, LooksAfterEvent
<1>10. AsksForKinds(P, "adjustTable")
  <2>1. "adjustTable" \in Adjusts => \E k \in DOMAIN P : P[k].place = "stream"
    BY <1>1, <1>2 DEF Is, Adjusts
  <2>2. \A k \in DOMAIN P : P[k].does = "find" /\ P[k].place = "projection" => SingleKind(P, P[k].kinds[1])
    BY <1>1, <1>2, <1>3 DEF Is, SingleKind
  <2> QED BY <1>4, <2>1, <2>2 DEF AsksForKinds
<1> QED BY <1>1, <1>5, <1>6, <1>7, <1>8, <1>9, <1>10, <1>12 DEF WellFormed

\* Deposit is well formed.
LEMMA DepositFits == WellFormed("deposit")
<1> DEFINE P == Deposit
<1>1. Program["deposit"] = P /\ Len(P) = 6 /\ DOMAIN P = 1 .. 6
  BY DEF Program, Deposit
<1>2. /\ Is(P[1], "act", "api", FALSE) /\ Named(P[1])
      /\ Is(P[2], "find", "topic", FALSE) /\ Named(P[2])
      /\ Is(P[3], "find", "stream", FALSE) /\ Named(P[3])
      /\ Is(P[4], "find", "projection", TRUE) /\ Named(P[4])
      /\ Is(P[5], "GetWithSeqCheck", "redis", TRUE) /\ ~Named(P[5])
      /\ Is(P[6], "find", "db", TRUE) /\ Named(P[6])
  BY DEF Act, Async, Deposit, Find, GetWithSeqCheck, Is, Named, Step
<1>3. /\ P[1].kinds = << "depositedMoney" >>
      /\ P[2].kinds = << "depositedMoney" >>
      /\ P[3].kinds = << "depositedMoney" >>
      /\ P[4].kinds = << "depositedMoney" >>
      /\ P[5].kinds = << >>
      /\ P[6].kinds = << "depositedMoney" >>
  BY DEF Act, Async, Deposit, Find, GetWithSeqCheck, Step
<1> HIDE DEF P
<1>4. Target("deposit") = "depositedMoney"
  <2> DEFINE acts == {k \in DOMAIN P : P[k].does = "act"}
  <2>1. 1 \in acts /\ \A k \in acts : k \in Int /\ k <= 1
    BY <1>1, <1>2 DEF Is
  <2>2. Max(acts) = 1
    BY <2>1, MaxIs
  <2>3. P[1].kinds[Len(P[1].kinds)] = "depositedMoney"
    BY <1>2, <1>3 DEF Is
  <2> QED BY <1>1, <2>2, <2>3 DEF Target, Last
<1>5. HasShape(P, "deposit")
  BY <1>1, <1>2 DEF Is, HasShape
<1>6. NamesKinds(P)
  BY <1>1, <1>2 DEF Is, NamesKinds
<1>11. Listed(P[1]) /\ Listed(P[2]) /\ Listed(P[3]) /\ Listed(P[4]) /\ Listed(P[5]) /\ Listed(P[6])
  BY <1>3 DEF Listed, EventKinds
<1>12. ListsKinds(P)
  BY <1>1, <1>11 DEF ListsKinds
<1>7. KeepsOrder(P)
  BY <1>1, <1>2 DEF Is, KeepsOrder
<1>8. UsesOnce(P)
  BY <1>1, <1>2 DEF Is, UsesOnce
<1>9. LooksAfterEvent(P, "deposit")
  BY <1>1, <1>2, <1>3, <1>4 DEF Is, LooksAfterEvent
<1>10. AsksForKinds(P, "deposit")
  <2>1. "deposit" \in Adjusts => \E k \in DOMAIN P : P[k].place = "stream"
    BY <1>1, <1>2 DEF Is, Adjusts
  <2>2. \A k \in DOMAIN P : P[k].does = "find" /\ P[k].place = "projection" => SingleKind(P, P[k].kinds[1])
    BY <1>1, <1>2, <1>3 DEF Is, SingleKind
  <2> QED BY <1>4, <2>1, <2>2 DEF AsksForKinds
<1> QED BY <1>1, <1>5, <1>6, <1>7, <1>8, <1>9, <1>10, <1>12 DEF WellFormed

\* Block is well formed.
LEMMA BlockFits == WellFormed("block")
<1> DEFINE P == Block
<1>1. Program["block"] = P /\ Len(P) = 7 /\ DOMAIN P = 1 .. 7
  BY DEF Program, Block
<1>2. /\ Is(P[1], "act", "api", FALSE) /\ Named(P[1])
      /\ Is(P[2], "act", "api", FALSE) /\ Named(P[2])
      /\ Is(P[3], "find", "stream", FALSE) /\ Named(P[3])
      /\ Is(P[4], "find", "projection", TRUE) /\ Named(P[4])
      /\ Is(P[5], "GetWithRetry", "redis", FALSE) /\ ~Named(P[5])
      /\ Is(P[6], "read", "cap", FALSE) /\ ~Named(P[6])
      /\ Is(P[7], "read", "cap", FALSE) /\ ~Named(P[7])
  BY DEF Act, Async, Block, Find, GetWithRetry, Is, Look, Named, Step
<1>3. /\ P[1].kinds = << "balanceAdjusted" >>
      /\ P[2].kinds = << "blockStarted" >>
      /\ P[3].kinds = << "blockStarted" >>
      /\ P[4].kinds = << "blockStarted" >>
      /\ P[5].kinds = << >>
      /\ P[6].kinds = << >>
      /\ P[7].kinds = << >>
  BY DEF Act, Async, Block, Find, GetWithRetry, Look, Step
<1> HIDE DEF P
<1>4. Target("block") = "blockStarted"
  <2> DEFINE acts == {k \in DOMAIN P : P[k].does = "act"}
  <2>1. 2 \in acts /\ \A k \in acts : k \in Int /\ k <= 2
    BY <1>1, <1>2 DEF Is
  <2>2. Max(acts) = 2
    BY <2>1, MaxIs
  <2>3. P[2].kinds[Len(P[2].kinds)] = "blockStarted"
    BY <1>2, <1>3 DEF Is
  <2> QED BY <1>1, <2>2, <2>3 DEF Target, Last
<1>5. HasShape(P, "block")
  BY <1>1, <1>2 DEF Is, HasShape
<1>6. NamesKinds(P)
  BY <1>1, <1>2 DEF Is, NamesKinds
<1>11. Listed(P[1]) /\ Listed(P[2]) /\ Listed(P[3]) /\ Listed(P[4]) /\ Listed(P[5])
       /\ Listed(P[6]) /\ Listed(P[7])
  BY <1>3 DEF Listed, EventKinds
<1>12. ListsKinds(P)
  BY <1>1, <1>11 DEF ListsKinds
<1>7. KeepsOrder(P)
  BY <1>1, <1>2 DEF Is, KeepsOrder
<1>8. UsesOnce(P)
  BY <1>1, <1>2 DEF Is, UsesOnce
<1>9. LooksAfterEvent(P, "block")
  BY <1>1, <1>2, <1>3, <1>4 DEF Is, LooksAfterEvent
<1>10. AsksForKinds(P, "block")
  <2>1. "block" \in Adjusts => \E k \in DOMAIN P : P[k].place = "stream"
    BY <1>1, <1>2 DEF Is, Adjusts
  <2>2. \A k \in DOMAIN P : P[k].does = "find" /\ P[k].place = "projection" => SingleKind(P, P[k].kinds[1])
    BY <1>1, <1>2, <1>3 DEF Is, SingleKind
  <2> QED BY <1>4, <2>1, <2>2 DEF AsksForKinds
<1> QED BY <1>1, <1>5, <1>6, <1>7, <1>8, <1>9, <1>10, <1>12 DEF WellFormed

\* Unblock is well formed.
LEMMA UnblockFits == WellFormed("unblock")
<1> DEFINE P == Unblock
<1>1. Program["unblock"] = P /\ Len(P) = 5 /\ DOMAIN P = 1 .. 5
  BY DEF Program, Unblock
<1>2. /\ Is(P[1], "act", "api", FALSE) /\ Named(P[1])
      /\ Is(P[2], "act", "api", FALSE) /\ Named(P[2])
      /\ Is(P[3], "act", "api", FALSE) /\ Named(P[3])
      /\ Is(P[4], "find", "stream", FALSE) /\ Named(P[4])
      /\ Is(P[5], "find", "projection", TRUE) /\ Named(P[5])
  BY DEF Act, Async, Find, Is, Named, Step, Unblock
<1>3. /\ P[1].kinds = << "balanceAdjusted" >>
      /\ P[2].kinds = << "blockStarted" >>
      /\ P[3].kinds = << "blockRevoked" >>
      /\ P[4].kinds = << "blockRevoked" >>
      /\ P[5].kinds = << "blockRevoked" >>
  BY DEF Act, Async, Find, Step, Unblock
<1> HIDE DEF P
<1>4. Target("unblock") = "blockRevoked"
  <2> DEFINE acts == {k \in DOMAIN P : P[k].does = "act"}
  <2>1. 3 \in acts /\ \A k \in acts : k \in Int /\ k <= 3
    BY <1>1, <1>2 DEF Is
  <2>2. Max(acts) = 3
    BY <2>1, MaxIs
  <2>3. P[3].kinds[Len(P[3].kinds)] = "blockRevoked"
    BY <1>2, <1>3 DEF Is
  <2> QED BY <1>1, <2>2, <2>3 DEF Target, Last
<1>5. HasShape(P, "unblock")
  BY <1>1, <1>2 DEF Is, HasShape
<1>6. NamesKinds(P)
  BY <1>1, <1>2 DEF Is, NamesKinds
<1>11. Listed(P[1]) /\ Listed(P[2]) /\ Listed(P[3]) /\ Listed(P[4]) /\ Listed(P[5])
  BY <1>3 DEF Listed, EventKinds
<1>12. ListsKinds(P)
  BY <1>1, <1>11 DEF ListsKinds
<1>7. KeepsOrder(P)
  BY <1>1, <1>2 DEF Is, KeepsOrder
<1>8. UsesOnce(P)
  BY <1>1, <1>2 DEF Is, UsesOnce
<1>9. LooksAfterEvent(P, "unblock")
  BY <1>1, <1>2, <1>3, <1>4 DEF Is, LooksAfterEvent
<1>10. AsksForKinds(P, "unblock")
  <2>1. "unblock" \in Adjusts => \E k \in DOMAIN P : P[k].place = "stream"
    BY <1>1, <1>2 DEF Is, Adjusts
  <2>2. \A k \in DOMAIN P : P[k].does = "find" /\ P[k].place = "projection" => SingleKind(P, P[k].kinds[1])
    BY <1>1, <1>2, <1>3 DEF Is, SingleKind
  <2> QED BY <1>4, <2>1, <2>2 DEF AsksForKinds
<1> QED BY <1>1, <1>5, <1>6, <1>7, <1>8, <1>9, <1>10, <1>12 DEF WellFormed

\* AddWallet is well formed.
LEMMA AddWalletFits == WellFormed("addWallet")
<1> DEFINE P == AddWallet
<1>1. Program["addWallet"] = P /\ Len(P) = 5 /\ DOMAIN P = 1 .. 5
  BY DEF Program, AddWallet
<1>2. /\ Is(P[1], "act", "api", FALSE) /\ Named(P[1])
      /\ Is(P[2], "find", "stream", FALSE) /\ Named(P[2])
      /\ Is(P[3], "GetWithRetry", "redis", FALSE) /\ ~Named(P[3])
      /\ Is(P[4], "find", "db", FALSE) /\ Named(P[4])
      /\ Is(P[5], "read", "public", FALSE) /\ ~Named(P[5])
  BY DEF Act, AddWallet, Find, GetWithRetry, Is, Look, Named, Step
<1>3. /\ P[1].kinds = << "walletAdded" >>
      /\ P[2].kinds = << "walletAdded" >>
      /\ P[3].kinds = << >>
      /\ P[4].kinds = << "walletAdded" >>
      /\ P[5].kinds = << >>
  BY DEF Act, AddWallet, Find, GetWithRetry, Look, Step
<1> HIDE DEF P
<1>4. Target("addWallet") = "walletAdded"
  <2> DEFINE acts == {k \in DOMAIN P : P[k].does = "act"}
  <2>1. 1 \in acts /\ \A k \in acts : k \in Int /\ k <= 1
    BY <1>1, <1>2 DEF Is
  <2>2. Max(acts) = 1
    BY <2>1, MaxIs
  <2>3. P[1].kinds[Len(P[1].kinds)] = "walletAdded"
    BY <1>2, <1>3 DEF Is
  <2> QED BY <1>1, <2>2, <2>3 DEF Target, Last
<1>5. HasShape(P, "addWallet")
  BY <1>1, <1>2 DEF Is, HasShape
<1>6. NamesKinds(P)
  BY <1>1, <1>2 DEF Is, NamesKinds
<1>11. Listed(P[1]) /\ Listed(P[2]) /\ Listed(P[3]) /\ Listed(P[4]) /\ Listed(P[5])
  BY <1>3 DEF Listed, EventKinds
<1>12. ListsKinds(P)
  BY <1>1, <1>11 DEF ListsKinds
<1>7. KeepsOrder(P)
  BY <1>1, <1>2 DEF Is, KeepsOrder
<1>8. UsesOnce(P)
  BY <1>1, <1>2 DEF Is, UsesOnce
<1>9. LooksAfterEvent(P, "addWallet")
  BY <1>1, <1>2, <1>3, <1>4 DEF Is, LooksAfterEvent
<1>10. AsksForKinds(P, "addWallet")
  <2>1. "addWallet" \in Adjusts => \E k \in DOMAIN P : P[k].place = "stream"
    BY <1>1, <1>2 DEF Is, Adjusts
  <2>2. \A k \in DOMAIN P : P[k].does = "find" /\ P[k].place = "projection" => SingleKind(P, P[k].kinds[1])
    BY <1>1, <1>2, <1>3 DEF Is, SingleKind
  <2> QED BY <1>4, <2>1, <2>2 DEF AsksForKinds
<1> QED BY <1>1, <1>5, <1>6, <1>7, <1>8, <1>9, <1>10, <1>12 DEF WellFormed

\* SwitchWallet is well formed.
LEMMA SwitchWalletFits == WellFormed("switchWallet")
<1> DEFINE P == SwitchWallet
<1>1. Program["switchWallet"] = P /\ Len(P) = 7 /\ DOMAIN P = 1 .. 7
  BY DEF Program, SwitchWallet
<1>2. /\ Is(P[1], "act", "api", FALSE) /\ Named(P[1])
      /\ Is(P[2], "find", "stream", FALSE) /\ Named(P[2])
      /\ Is(P[3], "act", "api", FALSE) /\ Named(P[3])
      /\ Is(P[4], "find", "stream", FALSE) /\ Named(P[4])
      /\ Is(P[5], "find", "stream", FALSE) /\ Named(P[5])
      /\ Is(P[6], "find", "stream", FALSE) /\ Named(P[6])
      /\ Is(P[7], "panic", "db", TRUE) /\ ~Named(P[7])
  BY DEF Act, Async, Find, Is, Named, NoConnector, Step, SwitchWallet
<1>3. /\ P[1].kinds = << "walletAdded" >>
      /\ P[2].kinds = << "walletAdded" >>
      /\ P[3].kinds = << "defaultStarted", "defaultUnset", "defaultSet" >>
      /\ P[4].kinds = << "defaultStarted" >>
      /\ P[5].kinds = << "defaultUnset" >>
      /\ P[6].kinds = << "defaultSet" >>
      /\ P[7].kinds = << >>
  BY DEF Act, Async, Find, NoConnector, Step, SwitchWallet
<1> HIDE DEF P
<1>4. Target("switchWallet") = "defaultSet"
  <2> DEFINE acts == {k \in DOMAIN P : P[k].does = "act"}
  <2>1. 3 \in acts /\ \A k \in acts : k \in Int /\ k <= 3
    BY <1>1, <1>2 DEF Is
  <2>2. Max(acts) = 3
    BY <2>1, MaxIs
  <2>3. P[3].kinds[Len(P[3].kinds)] = "defaultSet"
    BY <1>2, <1>3 DEF Is
  <2> QED BY <1>1, <2>2, <2>3 DEF Target, Last
<1>5. HasShape(P, "switchWallet")
  BY <1>1, <1>2 DEF Is, HasShape
<1>6. NamesKinds(P)
  BY <1>1, <1>2 DEF Is, NamesKinds
<1>11. Listed(P[1]) /\ Listed(P[2]) /\ Listed(P[3]) /\ Listed(P[4]) /\ Listed(P[5])
       /\ Listed(P[6]) /\ Listed(P[7])
  BY <1>3 DEF Listed, EventKinds
<1>12. ListsKinds(P)
  BY <1>1, <1>11 DEF ListsKinds
<1>7. KeepsOrder(P)
  BY <1>1, <1>2 DEF Is, KeepsOrder
<1>8. UsesOnce(P)
  BY <1>1, <1>2 DEF Is, UsesOnce
<1>9. LooksAfterEvent(P, "switchWallet")
  BY <1>1, <1>2, <1>3, <1>4 DEF Is, LooksAfterEvent
<1>10. AsksForKinds(P, "switchWallet")
  <2>1. "switchWallet" \in Adjusts => \E k \in DOMAIN P : P[k].place = "stream"
    BY <1>1, <1>2 DEF Is, Adjusts
  <2>2. \A k \in DOMAIN P : P[k].does = "find" /\ P[k].place = "projection" => SingleKind(P, P[k].kinds[1])
    BY <1>1, <1>2, <1>3 DEF Is, SingleKind
  <2> QED BY <1>4, <2>1, <2>2 DEF AsksForKinds
<1> QED BY <1>1, <1>5, <1>6, <1>7, <1>8, <1>9, <1>10, <1>12 DEF WellFormed

\* RemoveWallet is well formed.
LEMMA RemoveWalletFits == WellFormed("removeWallet")
<1> DEFINE P == RemoveWallet
<1>1. Program["removeWallet"] = P /\ Len(P) = 7 /\ DOMAIN P = 1 .. 7
  BY DEF Program, RemoveWallet
<1>2. /\ Is(P[1], "act", "api", FALSE) /\ Named(P[1])
      /\ Is(P[2], "find", "stream", FALSE) /\ Named(P[2])
      /\ Is(P[3], "act", "api", FALSE) /\ Named(P[3])
      /\ Is(P[4], "find", "stream", FALSE) /\ Named(P[4])
      /\ Is(P[5], "absence", "public", TRUE) /\ ~Named(P[5])
      /\ Is(P[6], "GetWithRetry", "redis", TRUE) /\ ~Named(P[6])
      /\ Is(P[7], "find", "db", TRUE) /\ Named(P[7])
  BY DEF Act, Async, Find, GetWithRetry, Is, LookForAbsence, Named, RemoveWallet, Step
<1>3. /\ P[1].kinds = << "walletAdded" >>
      /\ P[2].kinds = << "walletAdded" >>
      /\ P[3].kinds = << "walletDisabled" >>
      /\ P[4].kinds = << "walletDisabled" >>
      /\ P[5].kinds = << >>
      /\ P[6].kinds = << >>
      /\ P[7].kinds = << "walletDisabled" >>
  BY DEF Act, Async, Find, GetWithRetry, LookForAbsence, RemoveWallet, Step
<1> HIDE DEF P
<1>4. Target("removeWallet") = "walletDisabled"
  <2> DEFINE acts == {k \in DOMAIN P : P[k].does = "act"}
  <2>1. 3 \in acts /\ \A k \in acts : k \in Int /\ k <= 3
    BY <1>1, <1>2 DEF Is
  <2>2. Max(acts) = 3
    BY <2>1, MaxIs
  <2>3. P[3].kinds[Len(P[3].kinds)] = "walletDisabled"
    BY <1>2, <1>3 DEF Is
  <2> QED BY <1>1, <2>2, <2>3 DEF Target, Last
<1>5. HasShape(P, "removeWallet")
  BY <1>1, <1>2 DEF Is, HasShape
<1>6. NamesKinds(P)
  BY <1>1, <1>2 DEF Is, NamesKinds
<1>11. Listed(P[1]) /\ Listed(P[2]) /\ Listed(P[3]) /\ Listed(P[4]) /\ Listed(P[5])
       /\ Listed(P[6]) /\ Listed(P[7])
  BY <1>3 DEF Listed, EventKinds
<1>12. ListsKinds(P)
  BY <1>1, <1>11 DEF ListsKinds
<1>7. KeepsOrder(P)
  BY <1>1, <1>2 DEF Is, KeepsOrder
<1>8. UsesOnce(P)
  BY <1>1, <1>2 DEF Is, UsesOnce
<1>9. LooksAfterEvent(P, "removeWallet")
  BY <1>1, <1>2, <1>3, <1>4 DEF Is, LooksAfterEvent
<1>10. AsksForKinds(P, "removeWallet")
  <2>1. "removeWallet" \in Adjusts => \E k \in DOMAIN P : P[k].place = "stream"
    BY <1>1, <1>2 DEF Is, Adjusts
  <2>2. \A k \in DOMAIN P : P[k].does = "find" /\ P[k].place = "projection" => SingleKind(P, P[k].kinds[1])
    BY <1>1, <1>2, <1>3 DEF Is, SingleKind
  <2> QED BY <1>4, <2>1, <2>2 DEF AsksForKinds
<1> QED BY <1>1, <1>5, <1>6, <1>7, <1>8, <1>9, <1>10, <1>12 DEF WellFormed

\* Blockers is well formed.
LEMMA BlockersFits == WellFormed("blockers")
<1> DEFINE P == Blockers
<1>1. Program["blockers"] = P /\ Len(P) = 4 /\ DOMAIN P = 1 .. 4
  BY DEF Program, Blockers
<1>2. /\ Is(P[1], "act", "api", FALSE) /\ Named(P[1])
      /\ Is(P[2], "find", "stream", FALSE) /\ Named(P[2])
      /\ Is(P[3], "find", "db", TRUE) /\ Named(P[3])
      /\ Is(P[4], "read", "cap", TRUE) /\ ~Named(P[4])
  BY DEF Act, Async, Blockers, Find, Is, Look, Named, Step
<1>3. /\ P[1].kinds = << "blockersSet" >>
      /\ P[2].kinds = << "blockersSet" >>
      /\ P[3].kinds = << "blockersSet" >>
      /\ P[4].kinds = << >>
  BY DEF Act, Async, Blockers, Find, Look, Step
<1> HIDE DEF P
<1>4. Target("blockers") = "blockersSet"
  <2> DEFINE acts == {k \in DOMAIN P : P[k].does = "act"}
  <2>1. 1 \in acts /\ \A k \in acts : k \in Int /\ k <= 1
    BY <1>1, <1>2 DEF Is
  <2>2. Max(acts) = 1
    BY <2>1, MaxIs
  <2>3. P[1].kinds[Len(P[1].kinds)] = "blockersSet"
    BY <1>2, <1>3 DEF Is
  <2> QED BY <1>1, <2>2, <2>3 DEF Target, Last
<1>5. HasShape(P, "blockers")
  BY <1>1, <1>2 DEF Is, HasShape
<1>6. NamesKinds(P)
  BY <1>1, <1>2 DEF Is, NamesKinds
<1>11. Listed(P[1]) /\ Listed(P[2]) /\ Listed(P[3]) /\ Listed(P[4])
  BY <1>3 DEF Listed, EventKinds
<1>12. ListsKinds(P)
  BY <1>1, <1>11 DEF ListsKinds
<1>7. KeepsOrder(P)
  BY <1>1, <1>2 DEF Is, KeepsOrder
<1>8. UsesOnce(P)
  BY <1>1, <1>2 DEF Is, UsesOnce
<1>9. LooksAfterEvent(P, "blockers")
  BY <1>1, <1>2, <1>3, <1>4 DEF Is, LooksAfterEvent
<1>10. AsksForKinds(P, "blockers")
  <2>1. "blockers" \in Adjusts => \E k \in DOMAIN P : P[k].place = "stream"
    BY <1>1, <1>2 DEF Is, Adjusts
  <2>2. \A k \in DOMAIN P : P[k].does = "find" /\ P[k].place = "projection" => SingleKind(P, P[k].kinds[1])
    BY <1>1, <1>2, <1>3 DEF Is, SingleKind
  <2> QED BY <1>4, <2>1, <2>2 DEF AsksForKinds
<1> QED BY <1>1, <1>5, <1>6, <1>7, <1>8, <1>9, <1>10, <1>12 DEF WellFormed

\* Every program is well formed; the empty one runs no step.
LEMMA ProgramsFit ==
    /\ \A name \in DOMAIN Program : name # "none" => WellFormed(name)
    /\ Program["none"] = << >>
<1>1. Program["none"] = << >>
  BY DEF Program
<1>2. DOMAIN Program = {"limitCreate", "limitUpdate", "limitReset", "adjust", "adjustTable", "deposit", "block",
                       "unblock", "addWallet", "switchWallet", "removeWallet", "blockers", "none"}
  BY DEF Program
<1> QED
  BY <1>1, <1>2, LimitCreateFits, LimitUpdateFits, LimitResetFits, AdjustFits, AdjustTableFits, DepositFits,
     BlockFits, UnblockFits, AddWalletFits, SwitchWalletFits, RemoveWalletFits, BlockersFits

-----------------------------------------------------------------------------
(* The tests: what holds while one runs, whichever it is.  The steps that  *)
(* are under way are the asynchronous ones before at, and at itself.       *)

\* The kinds of events there may be: those the steps ask for and two others.
Kinds(name) ==
    {"walletCreated", "other"} \cup UNION {Range(Program[name][k].kinds) : k \in DOMAIN Program[name]}

\* What a test is made with stays as it is.
MadeInv ==
    /\ test \in DOMAIN Program
    /\ param \in Params
    /\ blockers \in BlockersParams
    /\ test \notin Adjusts => told = Meant(param)
    /\ lost = {} \/ \E p \in Places(test) : lost = {p}

StepsInv ==
    /\ at \in 1 .. Len(Steps) + 1
    /\ \A k \in open : k \in 1 .. at - 1 /\ Steps[k].async
    /\ \A k \in failed : k \in DOMAIN Steps /\ k <= at
    /\ stopped => failed # {}

WorldInv == events \in Seq(Kinds(test)) /\ due \in Seq(Kinds(test)) /\ faults \in Nat /\ found \in Nat

\* found is the oldest event of the kind that the last search of the stream
\* looked for, unless that search found nothing and the test went on.
IsFound(j) ==
    /\ found \in DOMAIN events
    /\ events[found] = Steps[j].kinds[1]
    /\ \A n \in DOMAIN events : n < found => events[n] # Steps[j].kinds[1]
FoundInv ==
    lost # {"stream"} => \A j \in 1 .. at - 1 :
        Steps[j].place = "stream" /\ (\A l \in 1 .. at - 1 : Steps[l].place = "stream" => l <= j) => IsFound(j)

\* The wallet in Redis is behind the events, and one that does not follow never
\* comes to the event that the test is about.
BehindInv ==
    /\ result.seq <= wallet.seq
    /\ test # "none" =>
         /\ wallet.seq <= Len(events)
         /\ "redis" \in lost => \A n \in 1 .. wallet.seq : events[n] # Target(test)

\* The call is that of the step that reads Redis, and waits for the event found.
AskedInv ==
    test # "none" /\ pc # "idle" =>
        \E r \in DOMAIN Steps :
            /\ Steps[r].place = "redis" /\ r <= at
            /\ call = Steps[r].does
            /\ call = "GetWithSeqCheck" => awaited = found

\* GetWithRetry returns the first wallet that it reads.
FirstInv == call = "GetWithRetry" /\ (pc \in {"try", "pause"} \/ err = "error") => reads = << >>

\* What a step that passed has seen.
Saw(k) ==
    /\ Steps[k].does \in {"find", "numbered"} => ~Missing(Steps[k])
    /\ Steps[k].does = "read" \/ Steps[k].place = "redis" =>
         Steps[k].place \notin lost \/ Standing(Steps[k])
    /\ Steps[k].does # "panic"
    /\ Steps[k].place = "stream" /\ test \in Adjusts => told \in Expected(param)
SawInv == \A k \in 1 .. at - 1 : k \notin open /\ k \notin failed => Saw(k)

\* A step that failed, when nothing was wrong, is one that does not wait, and
\* the read of Redis is over.
Hasty(k) ==
    CASE Steps[k].does \in {"read", "absence", "panic"} -> TRUE
      [] Steps[k].does = "GetWithRetry" -> result.seq # found
      [] Steps[k].does = "GetWithSeqCheck" -> \A n \in DOMAIN reads : reads[n].seq # found
      [] OTHER -> Steps[k].place = "db"
FailedInv ==
    /\ \A k \in failed : Steps[k].place = "redis" => pc = "returned"
    /\ OnlyHastyReadsFail

TestInv ==
    /\ Inv /\ FirstInv
    /\ MadeInv /\ StepsInv /\ WorldInv /\ FoundInv /\ BehindInv /\ AskedInv /\ SawInv /\ FailedInv
-----------------------------------------------------------------------------
(* Facts about the definitions. *)

\* A set of natural numbers has a least one.
LEMMA SmallestOfNat ==
    ASSUME NEW S \in SUBSET Nat, S # {}
    PROVE  \E n \in S : \A k \in S : n <= k
<1> DEFINE R == {pair \in Nat \X Nat : pair[1] < pair[2]}
<1>1. IsWellFoundedOn(R, Nat)
  BY NatLessThanWellFounded DEF OpToRel
<1>2. \E n \in S : \A k \in S : <<k, n>> \notin R
  <2> HIDE DEF R
  <2> QED BY <1>1, WFMin
<1>3. ASSUME NEW k \in S, NEW n \in S, <<k, n>> \notin R PROVE n <= k
  <2>1. k \in Nat /\ n \in Nat
    OBVIOUS
  <2> QED BY <1>3, <2>1
<1> HIDE DEF R
<1> QED BY <1>2, <1>3

\* A step that is under way belongs to a test that runs.
LEMMA UnderWayIs ==
    ASSUME MadeInv, StepsInv, NEW k \in UnderWay(Steps)
    PROVE  /\ test # "none" /\ WellFormed(test)
           /\ k \in DOMAIN Steps /\ k \in Int /\ k <= at
           /\ k \in open => k < at /\ Steps[k].async
           /\ k \notin open => k = at /\ ~stopped /\ ~Steps[k].async
<1>1. CASE test = "none"
  <2>1. Steps = << >> /\ Len(Steps) = 0
    BY <1>1, ProgramsFit DEF Steps
  <2> QED BY <2>1 DEF StepsInv, UnderWay
<1>2. CASE test # "none"
  <2>1. WellFormed(test)
    BY <1>2, ProgramsFit DEF MadeInv
  <2>2. Len(Steps) \in Nat /\ DOMAIN Steps = 1 .. Len(Steps)
    BY <2>1 DEF WellFormed, Steps
  <2> QED BY <1>2, <2>1, <2>2 DEF StepsInv, UnderWay
<1> QED BY <1>1, <1>2

\* What a step asks for is of the kinds there may be.
LEMMA KindsAreListed ==
    ASSUME NEW name \in DOMAIN Program, NEW k \in DOMAIN Program[name], ListsKinds(Program[name])
    PROVE  Program[name][k].kinds \in Seq(Kinds(name))
<1>1. Program[name][k].kinds \in Seq(EventKinds)
  BY DEF ListsKinds, Listed
<1>2. \A n \in DOMAIN Program[name][k].kinds : Program[name][k].kinds[n] \in Kinds(name)
  BY DEF Kinds, Range
<1> QED BY <1>1, <1>2

\* What a test expects of the numbers is what its words mean.
LEMMA ExpectedIs ==
    ASSUME NEW words \in Params, NEW numbers \in Expected(words)
    PROVE  numbers = Meant(words)
BY SMTT(60) DEF Expected, Meant, Params, Words, MapReasonToNats, MapOperationTypeToNats, MapDirectionToNats,
   Codes, ReasonTable, OperationTable

\* The oldest of the events that match.
LEMMA OldestIs ==
    ASSUME NEW step, Matching(step) # {}, DOMAIN events \subseteq Nat
    PROVE  /\ Oldest(step) \in Matching(step)
           /\ \A n \in Matching(step) : Oldest(step) <= n
<1>1. Matching(step) \subseteq Nat
  BY DEF Matching
<1>2. PICK n \in Matching(step) : \A m \in Matching(step) : n <= m
  <2> DEFINE M == Matching(step)
  <2>1. M \in SUBSET Nat /\ M # {}
    BY <1>1
  <2> HIDE DEF M
  <2>2. \E n \in M : \A m \in M : n <= m
    BY <2>1, SmallestOfNat
  <2> QED BY <2>2 DEF M
<1> QED BY <1>2 DEF Oldest

\* What a step that ends does to the others: nothing.
LEMMA EndsStep ==
    ASSUME MadeInv, StepsInv, NEW k \in UnderWay(Steps), NEW verdict, Ends(k, verdict), test' = test
    PROVE  /\ StepsInv'
           /\ at' \in {at, at + 1} /\ (at' = at + 1 => k = at)
           /\ verdict = "fatal" => at' = at
           /\ \A l \in 1 .. at' - 1 : l \notin open' /\ l \notin failed' =>
                \/ l \in 1 .. at - 1 /\ l \notin open /\ l \notin failed
                \/ l = k /\ verdict = "passed"
           /\ failed' = IF verdict = "passed" THEN failed ELSE failed \cup {k}
<1> USE UnderWayIs
<1>1. /\ Len(Steps) \in Nat /\ DOMAIN Steps = 1 .. Len(Steps)
      /\ at \in Int /\ Steps' = Steps
  BY DEF WellFormed, Steps, StepsInv
<1>2. failed' = IF verdict = "passed" THEN failed ELSE failed \cup {k}
  BY DEF Ends
<1>3. CASE k \in open
  <2>1. open' = open \ {k} /\ at' = at /\ stopped' = stopped
    BY <1>3 DEF Ends
  <2>2. StepsInv'
    BY <1>1, <1>2, <2>1 DEF StepsInv
  <2> QED BY <1>1, <1>2, <2>1, <2>2
<1>4. CASE k \notin open
  <2>1. open' = open /\ k = at /\ ~stopped
        /\ (stopped' => verdict = "fatal") /\ at' = IF verdict = "fatal" THEN at ELSE at + 1
    BY <1>4 DEF Ends
  <2>2. StepsInv'
    BY <1>1, <1>2, <2>1 DEF StepsInv
  <2> QED BY <1>1, <1>2, <2>1, <2>2
<1> QED BY <1>3, <1>4

\* No two steps that are under way use a field that one of them sets.
LEMMA NoRace == MadeInv /\ StepsInv => NoDataRace
<1> SUFFICES ASSUME MadeInv, StepsInv, NEW p \in UnderWay(Steps), NEW q \in UnderWay(Steps), p # q
             PROVE  Sets(Steps[p]) \cap (Sets(Steps[q]) \cup Reads(Steps[q])) = {}
  BY DEF NoDataRace
<1>1. /\ WellFormed(test) /\ p \in DOMAIN Steps /\ q \in DOMAIN Steps /\ p \in Int /\ q \in Int
      /\ \/ Steps[p].async /\ Steps[q].async
         \/ Steps[p].async /\ p <= q
         \/ Steps[q].async /\ q <= p
  BY UnderWayIs
<1>2. HasShape(Steps, test) /\ KeepsOrder(Steps) /\ UsesOnce(Steps)
  BY <1>1 DEF WellFormed, Steps
<1>3. Steps[p].place \notin {"api", "topic", "stream"} /\ Steps[q].place \notin {"api", "topic", "stream"}
  BY <1>1, <1>2 DEF KeepsOrder
<1>4. ~(Steps[p].place = Steps[q].place /\ Steps[p].place \in {"projection", "public"})
  BY <1>1, <1>2 DEF UsesOnce
<1>5. Steps[p].does # "act" /\ Steps[q].does # "act"
  BY <1>1, <1>2, <1>3 DEF HasShape
<1> QED BY <1>3, <1>4, <1>5 DEF Sets, Reads

\* When Redis or the projection is looked at, found is the last event that was
\* searched for.
LEMMA FoundIs ==
    ASSUME MadeInv, StepsInv, FoundInv, test # "none", lost # {"stream"},
           NEW k \in DOMAIN Steps, k <= at, Steps[k].place \in {"projection", "redis"}
    PROVE  \E j \in DOMAIN Steps :
             /\ j < k /\ Steps[j].place = "stream" /\ IsFound(j)
             /\ \A l \in DOMAIN Steps : Steps[l].place = "stream" => l <= j
             /\ Steps[k].place = "redis" => Steps[j].kinds[1] = Target(test)
             /\ Steps[k].place = "projection" => Steps[j].kinds[1] = Steps[k].kinds[1]
<1>1. /\ Len(Steps) \in Nat /\ DOMAIN Steps = 1 .. Len(Steps)
      /\ LooksAfterEvent(Steps, test)
  BY ProgramsFit DEF WellFormed, Steps, MadeInv
<1>2. PICK j \in DOMAIN Steps :
        /\ j < k /\ Steps[j].place = "stream"
        /\ \A l \in DOMAIN Steps : Steps[l].place = "stream" => l <= j
        /\ Steps[k].place = "redis" => Steps[j].kinds[1] = Target(test)
        /\ Steps[k].place = "projection" => Steps[j].kinds[1] = Steps[k].kinds[1]
  BY <1>1 DEF LooksAfterEvent
<1>3. j \in 1 .. at - 1 /\ \A l \in 1 .. at - 1 : l \in DOMAIN Steps
  BY <1>1, <1>2 DEF StepsInv
<1>4. IsFound(j)
  BY <1>2, <1>3 DEF FoundInv
<1> QED BY <1>2, <1>4

\* What the call answers does not depend on the test.
LEMMA SameCall ==
    ASSUME Inv, FirstInv, UNCHANGED <<held, wallet, asked, i, pc, lastErr, result, err, reads, sawEmpty>>
    PROVE  Inv' /\ FirstInv'
BY DEF Inv, TypeInv, GoingOnInv, AnswerIsTrue, ResultIsMerged, asked, FirstInv

\* What a step saw stays seen while requests fail.
LEMMA StillSeen ==
    ASSUME NEW k, Saw(k), UNCHANGED <<test, lost, param, blockers, told>>,
           faults \in Nat, faults' \in Nat, faults <= faults'
    PROVE  Saw(k)'
BY DEF Saw, Missing, Standing, Steps

\* A step that ends and moves neither the wallet nor the call nor found.
LEMMA QuietEnd ==
    ASSUME TestInv, NEW k \in UnderWay(Steps), NEW verdict, Ends(k, verdict),
           UNCHANGED <<held, wallet, asked, i, pc, lastErr, result, err, reads, sawEmpty>>,
           UNCHANGED <<test, param, blockers, told, lost, events, found>>,
           due' \in Seq(Kinds(test)), faults' \in Nat, faults <= faults',
           verdict = "passed" => Saw(k)',
           verdict # "passed" /\ lost = {} /\ told = Meant(param) /\ faults' = 0 => Hasty(k),
           verdict # "passed" /\ Steps[k].place = "redis" => pc = "returned",
           Steps[k].place = "stream" => verdict = "fatal" \/ lost = {"stream"}
    PROVE  TestInv'
<1> USE DEF TestInv
<1>1. UNCHANGED <<test, param, blockers, told, lost, events, found, wallet, pc, call, awaited, result, reads>>
  BY DEF asked
<1>2. /\ StepsInv'
      /\ at' \in {at, at + 1} /\ (at' = at + 1 => k = at)
      /\ verdict = "fatal" => at' = at
      /\ \A l \in 1 .. at' - 1 : l \notin open' /\ l \notin failed' =>
           \/ l \in 1 .. at - 1 /\ l \notin open /\ l \notin failed
           \/ l = k /\ verdict = "passed"
      /\ failed' = IF verdict = "passed" THEN failed ELSE failed \cup {k}
  BY <1>1, EndsStep
<1>3. at \in Int /\ Steps' = Steps /\ faults \in Nat
  BY <1>1 DEF StepsInv, Steps, WorldInv
<1>4. Inv' /\ FirstInv'
  BY SameCall
<1>5. MadeInv' /\ WorldInv' /\ BehindInv'
  BY <1>1 DEF MadeInv, WorldInv, BehindInv
<1>6. FoundInv'
  <2> SUFFICES ASSUME lost # {"stream"}, NEW j \in 1 .. at' - 1, Steps[j].place = "stream",
                      \A l \in 1 .. at' - 1 : Steps[l].place = "stream" => l <= j
               PROVE  IsFound(j)'
    BY <1>3 DEF FoundInv
  <2>1. at' = at \/ j # at
    BY <1>2
  <2>2. at \in Int /\ at' \in Int /\ (at' = at \/ at' = at + 1)
    BY <1>2, <1>3
  <2>3. j \in 1 .. at - 1 /\ \A l \in 1 .. at - 1 : l \in 1 .. at' - 1
    BY <2>1, <2>2
  <2>4. IsFound(j)
    BY <2>3 DEF FoundInv
  <2> QED BY <1>1, <1>3, <2>4 DEF IsFound
<1>7. AskedInv'
  <2> SUFFICES ASSUME test # "none", pc # "idle" PROVE AskedInv'
    BY <1>1 DEF AskedInv
  <2>1. PICK r \in DOMAIN Steps :
          /\ Steps[r].place = "redis" /\ r <= at
          /\ call = Steps[r].does
          /\ call = "GetWithSeqCheck" => awaited = found
    BY DEF AskedInv
  <2>2. r \in Int
    BY <2>1, ProgramsFit DEF MadeInv, WellFormed, Steps
  <2> QED BY <1>1, <1>2, <1>3, <2>1, <2>2 DEF AskedInv
<1>8. SawInv'
  <2> SUFFICES ASSUME NEW l \in 1 .. at' - 1, l \notin open', l \notin failed' PROVE Saw(l)'
    BY DEF SawInv
  <2>1. CASE l \in 1 .. at - 1 /\ l \notin open /\ l \notin failed
    BY <1>1, <1>3, <2>1, StillSeen DEF SawInv
  <2> QED BY <1>2, <2>1
<1>9. FailedInv'
  <2>1. ASSUME NEW l \in failed', Steps[l].place = "redis" PROVE pc = "returned"
    BY <1>2, <2>1 DEF FailedInv
  <2>2. ASSUME lost = {}, told = Meant(param), faults' = 0, NEW l \in failed' PROVE Hasty(l)
    <3>1. faults = 0
      BY <1>3, <2>2
    <3> QED BY <1>2, <2>2, <3>1 DEF FailedInv, OnlyHastyReadsFail, Hasty
  <2>3. ASSUME NEW l PROVE Hasty(l)' = Hasty(l)
    BY <1>1, <1>3 DEF Hasty
  <2> QED BY <1>1, <1>3, <2>1, <2>2, <2>3 DEF FailedInv, OnlyHastyReadsFail, Hasty
<1> QED BY <1>2, <1>4, <1>5, <1>6, <1>7, <1>8, <1>9

\* A request is accepted: nothing can be missed by it.
LEMMA AcceptedStep ==
    ASSUME TestInv, NEW k \in UnderWay(Steps), Accepted200(k)
    PROVE  TestInv'
<1>1. /\ HasShape(Steps, test) /\ k \in DOMAIN Steps
  BY UnderWayIs DEF TestInv, WellFormed, Steps
<1>2. Steps[k].does = "act" /\ Steps[k].place = "api"
  BY <1>1 DEF HasShape, Accepted200
<1>3. Saw(k)'
  <2>1. Steps' = Steps
    BY DEF Accepted200, Steps
  <2> QED BY <1>2, <2>1 DEF Saw
<1>4. due' \in Seq(Kinds(test))
  <2> DEFINE K == Kinds(test)
  <2>1. due \in Seq(K)
    BY DEF TestInv, WorldInv
  <2>2. Steps[k].kinds \in Seq(K)
    BY <1>1, UnderWayIs, KindsAreListed DEF TestInv, MadeInv, WellFormed, Steps
  <2> HIDE DEF K
  <2>3. due \o Steps[k].kinds \in Seq(K)
    BY <2>1, <2>2
  <2> QED BY <2>3 DEF K, Accepted200
<1>5. Ends(k, "passed") /\ UNCHANGED <<vars, test, param, blockers, told, lost, events, found>>
  BY DEF Accepted200
<1>6. faults \in Nat
  BY DEF TestInv, WorldInv
<1> QED BY <1>2, <1>3, <1>4, <1>5, <1>6, QuietEnd DEF vars, service

\* A message or a row is found: it was not lost.  The row may have come late.
LEMMA FoundStep ==
    ASSUME TestInv, NEW k \in UnderWay(Steps), FindMessage(k) \/ FindRow(k)
    PROVE  TestInv'
<1>1. /\ HasShape(Steps, test) /\ k \in DOMAIN Steps
  BY UnderWayIs DEF TestInv, WellFormed, Steps
<1>2. PICK verdict \in {"passed", "failed"} :
        Ends(k, verdict) /\ (verdict # "passed" => FindRow(k))
  BY DEF FindMessage, FindRow
<1>3. /\ UNCHANGED <<vars, test, world, found>>
      /\ ~Missing(Steps[k]) /\ Steps[k].place \in {"topic", "db"}
      /\ FindMessage(k) => Steps[k].place = "topic"
      /\ FindRow(k) => Steps[k].does = "find" /\ Steps[k].place = "db"
  BY DEF FindMessage, FindRow
<1>4. Steps[k].does = "find" /\ Steps[k].place \notin {"stream", "redis"}
  BY <1>1, <1>3 DEF HasShape
<1>5. Saw(k)'
  <2>1. Steps' = Steps /\ test' = test /\ lost' = lost /\ blockers' = blockers
    BY <1>3 DEF Steps, world
  <2> QED BY <1>3, <1>4, <2>1 DEF Saw, Missing, Standing
<1>6. verdict # "passed" => Hasty(k)
  BY <1>2, <1>3 DEF Hasty
<1>7. faults \in Nat /\ due \in Seq(Kinds(test))
  BY DEF TestInv, WorldInv
<1> QED BY <1>2, <1>3, <1>4, <1>5, <1>6, <1>7, QuietEnd DEF vars, service, world

\* What is searched for is not found in time: it was lost.
LEMMA MissedStep ==
    ASSUME TestInv, NEW k \in UnderWay(Steps), FindNothing(k)
    PROVE  TestInv'
<1>1. /\ HasShape(Steps, test) /\ k \in DOMAIN Steps
  BY UnderWayIs DEF TestInv, WellFormed, Steps
<1>2. PICK verdict \in {"failed", "fatal"} : Ends(k, verdict)
  BY DEF FindNothing
<1>3. UNCHANGED <<vars, test, world, found>> /\ Steps[k].place # "redis"
  BY <1>1 DEF FindNothing, HasShape
<1>5. lost # {} /\ lost = {Steps[k].place}
  BY DEF FindNothing, Missing, TestInv, MadeInv
<1>4. faults \in Nat /\ due \in Seq(Kinds(test))
  BY DEF TestInv, WorldInv
<1>6. verdict # "passed" /\ (Steps[k].place = "stream" => lost = {"stream"})
  BY <1>2, <1>5
<1>7. /\ UNCHANGED <<held, wallet, asked, i, pc, lastErr, result, err, reads, sawEmpty>>
      /\ UNCHANGED <<test, param, blockers, told, lost, events, due, found, faults>>
  BY <1>3 DEF vars, service, world
<1>8. due' \in Seq(Kinds(test)) /\ faults' \in Nat /\ faults <= faults'
  BY <1>4, <1>7
<1> QED BY <1>2, <1>3, <1>5, <1>6, <1>7, <1>8, QuietEnd

\* The step without a connector never passes.
LEMMA PanicStep ==
    ASSUME TestInv, NEW k \in UnderWay(Steps), Panic(k)
    PROVE  TestInv'
<1>1. /\ Ends(k, "fatal") /\ UNCHANGED <<vars, test, world, found>>
      /\ Steps[k].place \notin {"redis", "stream"} /\ Hasty(k)
  BY UnderWayIs DEF TestInv, WellFormed, Steps, Panic, HasShape, Hasty
<1>2. faults \in Nat /\ due \in Seq(Kinds(test))
  BY DEF TestInv, WorldInv
<1> QED BY <1>1, <1>2, QuietEnd DEF vars, service, world

\* A look at an API, or a request for it that fails.
LEMMA LookStep ==
    ASSUME TestInv, NEW k \in UnderWay(Steps), ReadNow(k) \/ RequestFails(k)
    PROVE  TestInv'
<1>1. /\ HasShape(Steps, test) /\ k \in DOMAIN Steps
  BY UnderWayIs DEF TestInv, WellFormed, Steps
<1>2. /\ Steps[k].does \in {"read", "absence"}
      /\ UNCHANGED <<held, wallet, asked, i, pc, lastErr, result, err, reads, sawEmpty>>
      /\ UNCHANGED <<test, param, blockers, told, lost, events, found, due>>
  BY DEF ReadNow, RequestFails, vars, service, world
<1>3. Steps[k].place \notin {"redis", "stream"} /\ Hasty(k)
  BY <1>1, <1>2 DEF HasShape, Hasty
<1>4. faults \in Nat /\ due \in Seq(Kinds(test)) /\ faults' \in Nat /\ faults <= faults'
  BY DEF TestInv, WorldInv, ReadNow, RequestFails, vars, service
<1>5. Steps' = Steps /\ test' = test /\ lost' = lost /\ blockers' = blockers
  BY <1>2 DEF Steps
<1>6. PICK verdict \in {"passed", "failed", "fatal"} :
        /\ Ends(k, verdict)
        /\ verdict = "passed" =>
             \/ Steps[k].place \notin lost \/ Standing(Steps[k]) \/ Steps[k].does = "absence"
  BY DEF ReadNow, RequestFails, Failures
<1>7. verdict = "passed" => Saw(k)'
  BY <1>2, <1>3, <1>5, <1>6 DEF Saw, Standing
<1> QED BY <1>2, <1>3, <1>4, <1>6, <1>7, QuietEnd

\* A search in the projection with the number found takes that event; one
\* without it takes the oldest of its type, which is the one found: no other
\* kind of event of the test has the type.
LEMMA ProjectionTakes ==
    ASSUME TestInv, NEW k \in UnderWay(Steps), FindProjection(k), lost # {"stream"}
    PROVE  Oldest(Steps[k]) = found
<1> USE DEF TestInv
<1>1. /\ test # "none" /\ k \in DOMAIN Steps /\ k <= at /\ k \in Int
      /\ HasShape(Steps, test) /\ AsksForKinds(Steps, test) /\ NamesKinds(Steps) /\ test \in DOMAIN Program
      /\ Steps[k].place = "projection" /\ Matching(Steps[k]) # {}
  BY UnderWayIs DEF WellFormed, Steps, FindProjection, MadeInv
<1>2. PICK j \in DOMAIN Steps : IsFound(j) /\ Steps[j].kinds[1] = Steps[k].kinds[1]
  BY <1>1, FoundIs
<1>3. DOMAIN events \subseteq Nat /\ \A n \in DOMAIN events : events[n] \in Kinds(test)
  BY DEF WorldInv
<1>4. /\ Oldest(Steps[k]) \in Matching(Steps[k])
      /\ \A n \in Matching(Steps[k]) : Oldest(Steps[k]) <= n
  BY <1>1, <1>3, OldestIs
<1>5. CASE Steps[k].does = "numbered"
  <2>1. \A n \in Matching(Steps[k]) : n = found
    BY <1>5 DEF Matching
  <2> QED BY <1>4, <2>1
<1>6. CASE Steps[k].does = "find"
  <2> DEFINE kind == Steps[k].kinds[1]
  <2>1. SingleKind(Steps, kind)
    BY <1>1, <1>6 DEF AsksForKinds
  <2>2. ASSUME NEW n \in DOMAIN events, MessageType(events[n]) = MessageType(kind) PROVE events[n] = kind
    <3>1. CASE kind = "limitCreated"
      <4>1. \A a \in DOMAIN Steps : \A m \in DOMAIN Steps[a].kinds : Steps[a].kinds[m] = "limitCreated"
        BY <2>1, <3>1 DEF SingleKind
      <4>2. \A x \in Kinds(test) : x \in {"walletCreated", "other", "limitCreated"}
        BY <4>1 DEF Kinds, Range, Steps
      <4> QED BY <1>3, <2>2, <3>1, <4>2 DEF MessageType
    <3>2. CASE kind # "limitCreated"
      BY <2>1, <2>2, <3>2 DEF SingleKind, MessageType
    <3> QED BY <3>1, <3>2
  <2>3. \A n : n \in Matching(Steps[k]) <=> n \in DOMAIN events /\ events[n] = kind
    BY <1>1, <1>6, <2>2 DEF Matching
  <2>4. found \in Matching(Steps[k]) /\ \A n \in Matching(Steps[k]) : ~(n < found)
    BY <1>2, <2>3 DEF IsFound
  <2>5. Oldest(Steps[k]) \in Nat /\ found \in Nat
    BY <1>3, <1>4, <2>3, <2>4
  <2> QED BY <1>4, <2>4, <2>5
<1> QED BY <1>1, <1>5, <1>6 DEF HasShape

\* A message of the projection is found: it fails only with wrong numbers.
LEMMA ProjectionStep ==
    ASSUME TestInv, NEW k \in UnderWay(Steps), FindProjection(k)
    PROVE  TestInv'
<1>1. /\ HasShape(Steps, test) /\ k \in DOMAIN Steps
  BY UnderWayIs DEF TestInv, WellFormed, Steps
<1>2. PICK numbers \in Expected(param) :
        Ends(k, IF Oldest(Steps[k]) = found /\ Agrees(Steps[k], numbers) THEN "passed" ELSE "failed")
  BY DEF FindProjection
<1>3. numbers = Meant(param)
  BY ExpectedIs DEF TestInv, MadeInv
<1>4. PICK verdict \in {"passed", "failed"} :
        Ends(k, verdict) /\ (verdict # "passed" => told # Meant(param) \/ lost # {})
  BY <1>2, <1>3, ProjectionTakes DEF Agrees
<1>5. /\ UNCHANGED <<vars, test, world, found>>
      /\ ~Missing(Steps[k]) /\ Steps[k].place = "projection"
  BY DEF FindProjection
<1>6. Saw(k)'
  <2>1. Steps' = Steps /\ test' = test /\ lost' = lost /\ blockers' = blockers
    BY <1>5 DEF Steps, world
  <2>2. Steps[k].does \in {"find", "numbered"}
    BY <1>1, <1>5 DEF HasShape
  <2> QED BY <1>5, <2>1, <2>2 DEF Saw, Missing, Standing
<1>7. faults \in Nat /\ due \in Seq(Kinds(test))
  BY DEF TestInv, WorldInv
<1> QED BY <1>4, <1>5, <1>6, <1>7, QuietEnd DEF vars, service, world

\* The call has returned: it fails the step when the wallet is not at the event
\* found, and a wallet that does not follow never is.
LEMMA EndReadStep ==
    ASSUME TestInv, NEW k \in UnderWay(Steps), EndRead(k)
    PROVE  TestInv'
<1> USE DEF TestInv
<1>1. /\ test # "none" /\ k \in DOMAIN Steps /\ k <= at
      /\ HasShape(Steps, test) /\ UsesOnce(Steps) /\ test \in DOMAIN Program
      /\ Steps[k].place = "redis" /\ pc = "returned"
      /\ UNCHANGED <<vars, test, world, found>>
  BY UnderWayIs DEF WellFormed, Steps, EndRead, MadeInv
<1>2. PICK verdict \in {"passed", "failed", "fatal"} :
        /\ Ends(k, verdict)
        /\ verdict = "passed" <=> err # "error" /\ Tells(result.seq)
  BY DEF EndRead
<1>4. lost # {"stream"} => found \in Nat \ {0} /\ events[found] = Target(test)
  <2> SUFFICES ASSUME lost # {"stream"} PROVE found \in Nat \ {0} /\ events[found] = Target(test)
    OBVIOUS
  <2>1. PICK j \in DOMAIN Steps : IsFound(j) /\ Steps[j].kinds[1] = Target(test)
    BY <1>1, FoundIs
  <2> QED BY <2>1 DEF IsFound, WorldInv
<1>5. Steps[k].does \in {"GetWithRetry", "GetWithSeqCheck"}
  BY <1>1 DEF HasShape
<1>6. call = Steps[k].does /\ (call = "GetWithSeqCheck" => awaited = found)
  BY <1>1 DEF AskedInv, UsesOnce
<1>7. result.seq \in Nat /\ wallet.seq \in Nat /\ result.seq <= wallet.seq
  BY DEF BehindInv, Inv, TypeInv, Value
<1>8. ASSUME verdict = "passed" PROVE Saw(k)'
  <2>1. ASSUME "redis" \in lost PROVE FALSE
    <3>1. lost # {"stream"}
      BY <2>1
    <3>2. \E n \in 1 .. wallet.seq : events[n] = Target(test)
      BY <1>2, <1>4, <1>7, <1>8, <3>1 DEF Tells
    <3> QED BY <1>1, <2>1, <3>2 DEF BehindInv
  <2>2. "redis" \notin lost
    BY <2>1
  <2>3. Steps' = Steps /\ lost' = lost
    BY <1>1 DEF Steps, world
  <2> QED BY <1>1, <1>5, <2>2, <2>3 DEF Saw
<1>9. ASSUME verdict # "passed", lost = {} PROVE Hasty(k)
  <2>0. /\ found \in Nat \ {0} /\ events[found] = Target(test)
        /\ result.seq = found => Tells(result.seq)
    BY <1>4, <1>9 DEF Tells
  <2>1. err \in {"nil", "error"} /\ AnswerIsTrue
    BY DEF Inv, TypeInv
  <2>2. CASE call = "GetWithRetry"
    <3>1. err = "error" => result.seq = 0
      BY <2>2 DEF FirstInv, Inv, GoingOnInv, NoWallet
    <3>2. result.seq # found
      BY <1>2, <1>9, <2>0, <2>1, <3>1
    <3> QED BY <1>6, <2>2, <3>2 DEF Hasty
  <2>3. CASE call = "GetWithSeqCheck"
    <3>1. err = "nil" => result.seq = found
      BY <1>1, <1>6, <2>1, <2>3 DEF AnswerIsTrue
    <3>2. err = "error"
      BY <1>2, <1>9, <2>0, <2>1, <3>1
    <3>3. \A n \in DOMAIN reads : reads[n].seq # found
      BY <1>1, <1>6, <2>1, <2>3, <3>2 DEF AnswerIsTrue
    <3> QED BY <1>6, <2>3, <3>3 DEF Hasty
  <2> QED BY <1>5, <1>6, <2>2, <2>3
<1>10. faults \in Nat /\ due \in Seq(Kinds(test))
  BY DEF WorldInv
<1> QED BY <1>1, <1>2, <1>8, <1>9, <1>10, QuietEnd DEF vars, service, world

\* While the stream is searched, no step has looked at Redis yet.
LEMMA StreamComesFirst ==
    ASSUME MadeInv, StepsInv, NEW k \in UnderWay(Steps), Steps[k].place = "stream"
    PROVE  /\ k = at /\ k \notin open
           /\ \A r \in DOMAIN Steps : r <= at => Steps[r].place # "redis"
<1>1. /\ test # "none" /\ k \in DOMAIN Steps /\ DOMAIN Steps \subseteq Int
      /\ KeepsOrder(Steps) /\ LooksAfterEvent(Steps, test)
  BY UnderWayIs DEF WellFormed, Steps
<1>2. k \notin open /\ k = at
  BY <1>1, UnderWayIs DEF KeepsOrder
<1>3. ASSUME NEW r \in DOMAIN Steps, r <= at, Steps[r].place = "redis" PROVE FALSE
  <2>1. PICK j \in DOMAIN Steps : j < r /\ \A l \in DOMAIN Steps : Steps[l].place = "stream" => l <= j
    BY <1>1, <1>3 DEF LooksAfterEvent
  <2> QED BY <1>1, <1>2, <1>3, <2>1
<1> QED BY <1>2, <1>3

\* The oldest event of a kind is found in the stream: found moves to it, before
\* anything was compared with it.
LEMMA FindEventStep ==
    ASSUME TestInv, NEW k \in UnderWay(Steps), FindEvent(k)
    PROVE  TestInv'
<1> USE DEF TestInv
<1>1. /\ test # "none" /\ k \in DOMAIN Steps /\ DOMAIN Steps \subseteq Int
      /\ HasShape(Steps, test) /\ Steps[k].place = "stream"
      /\ ~Missing(Steps[k]) /\ Matching(Steps[k]) # {} /\ found' = Oldest(Steps[k])
      /\ UNCHANGED <<vars, test, world>>
  BY UnderWayIs DEF WellFormed, Steps, FindEvent
<1>2. k = at /\ k \notin open /\ \A r \in DOMAIN Steps : r <= at => Steps[r].place # "redis"
  BY <1>1, StreamComesFirst
<1>3. PICK numbers \in Expected(param) :
        Ends(k, IF Agrees(Steps[k], numbers) THEN "passed" ELSE "failed")
  BY DEF FindEvent
<1>4. numbers = Meant(param)
  BY ExpectedIs DEF MadeInv
<1>5. PICK verdict \in {"passed", "failed"} :
        /\ Ends(k, verdict)
        /\ verdict = "passed" => (test \in Adjusts => told = numbers)
        /\ verdict # "passed" => told # Meant(param)
  BY <1>1, <1>3, <1>4 DEF Agrees, Compares
<1>6. /\ UNCHANGED <<test, param, blockers, told, lost, events, due, wallet, pc, call, awaited, result, reads, faults>>
      /\ Steps' = Steps
  BY <1>1 DEF world, vars, service, asked, Steps
<1>7. /\ StepsInv'
      /\ at' \in {at, at + 1}
      /\ \A l \in 1 .. at' - 1 : l \notin open' /\ l \notin failed' =>
           \/ l \in 1 .. at - 1 /\ l \notin open /\ l \notin failed
           \/ l = k /\ verdict = "passed"
      /\ failed' = IF verdict = "passed" THEN failed ELSE failed \cup {k}
  BY <1>5, <1>6, EndsStep
<1>8. at' = at + 1 /\ at \in Int
  BY <1>2, <1>5 DEF Ends, StepsInv
<1>9. Inv' /\ FirstInv'
  BY <1>1, SameCall DEF vars, service
<1>10. MadeInv' /\ WorldInv' /\ BehindInv'
  <2>1. found' \in Nat
    BY <1>1, OldestIs DEF WorldInv, Matching
  <2> QED BY <1>6, <2>1 DEF MadeInv, WorldInv, BehindInv
<1>11. FoundInv'
  <2> SUFFICES ASSUME lost # {"stream"}, NEW j \in 1 .. at' - 1, Steps[j].place = "stream",
                      \A l \in 1 .. at' - 1 : Steps[l].place = "stream" => l <= j
               PROVE  IsFound(j)'
    BY <1>6 DEF FoundInv
  <2>1. at \in 1 .. at' - 1
    BY <1>8 DEF StepsInv
  <2>2. j = k
    BY <1>1, <1>2, <1>8, <2>1
  <2>3. DOMAIN events \subseteq Nat
    BY DEF WorldInv
  <2>4. found' \in Matching(Steps[k]) /\ \A n \in Matching(Steps[k]) : found' <= n
    BY <1>1, <2>3, OldestIs
  <2>5. Steps[k].does = "find"
    BY <1>1 DEF HasShape
  <2>6. \A n : n \in Matching(Steps[k]) <=> n \in DOMAIN events /\ events[n] = Steps[k].kinds[1]
    BY <1>1, <2>5 DEF Matching
  <2>7. found' \in Nat
    BY <2>3, <2>4, <2>6
  <2>8. \A n \in DOMAIN events : n < found' => events[n] # Steps[k].kinds[1]
    BY <2>3, <2>4, <2>6, <2>7
  <2> QED BY <1>6, <2>2, <2>4, <2>6, <2>8 DEF IsFound
<1>12. AskedInv'
  BY <1>2, <1>6 DEF AskedInv
<1>13. Saw(k)' \/ verdict # "passed"
  <2>1. Steps[k].does = "find"
    BY <1>1 DEF HasShape
  <2> QED BY <1>1, <1>5, <1>6, <2>1 DEF Saw, Missing, Standing
<1>14. SawInv'
  <2> SUFFICES ASSUME NEW l \in 1 .. at' - 1, l \notin open', l \notin failed' PROVE Saw(l)'
    BY DEF SawInv
  <2>1. CASE l \in 1 .. at - 1 /\ l \notin open /\ l \notin failed
    BY <1>6, <2>1, StillSeen DEF SawInv, WorldInv
  <2> QED BY <1>7, <1>13, <2>1
<1>15. FailedInv'
  <2>1. ASSUME NEW l \in failed' PROVE l \in DOMAIN Steps /\ Steps[l].place # "redis"
    BY <1>1, <1>2, <1>7, <2>1 DEF StepsInv
  <2>2. ASSUME lost = {}, told = Meant(param), faults = 0, NEW l \in failed' PROVE Hasty(l)'
    <3>1. l \in failed /\ Hasty(l)
      BY <1>5, <1>7, <2>2 DEF FailedInv, OnlyHastyReadsFail, Hasty
    <3>2. Steps[l].does \notin {"GetWithRetry", "GetWithSeqCheck"}
      BY <1>1, <2>1, <2>2 DEF HasShape
    <3> QED BY <1>6, <3>1, <3>2 DEF Hasty
  <2> QED BY <1>6, <2>1, <2>2 DEF FailedInv, OnlyHastyReadsFail, Hasty
<1> QED BY <1>7, <1>9, <1>10, <1>11, <1>12, <1>14, <1>15

\* The step that reads Redis makes its call: nothing was read before.
LEMMA BeginReadStep ==
    ASSUME TestInv, NEW k \in UnderWay(Steps), BeginRead(k)
    PROVE  TestInv'
<1> USE DEF TestInv
<1>1. /\ test # "none" /\ k \in DOMAIN Steps /\ k <= at /\ HasShape(Steps, test)
      /\ Steps[k].does \in {"GetWithRetry", "GetWithSeqCheck"}
      /\ Begin(Steps[k].does, IF Steps[k].does = "GetWithSeqCheck" THEN found ELSE 0)
      /\ UNCHANGED testVars
  BY UnderWayIs DEF WellFormed, Steps, BeginRead
<1>2. Steps[k].place = "redis"
  BY <1>1 DEF HasShape
<1>3. found \in Nat
  BY DEF WorldInv
<1>4. Inv'
  BY <1>1, <1>3, BeginStep
<1>5. /\ UNCHANGED <<test, param, blockers, told, lost, events, due, at, open, failed, stopped, found>>
      /\ UNCHANGED <<wallet, faults, result, reads, err>> /\ pc = "idle" /\ pc' = "try"
      /\ call' = Steps[k].does /\ (call' = "GetWithSeqCheck" => awaited' = found)
      /\ Steps' = Steps
  BY <1>1 DEF testVars, world, progress, stepVars, Begin, service, Steps
<1>6. FirstInv'
  BY <1>5 DEF FirstInv, Inv, GoingOnInv
<1>7. MadeInv' /\ StepsInv' /\ WorldInv' /\ FoundInv' /\ BehindInv'
  BY <1>5 DEF MadeInv, StepsInv, WorldInv, FoundInv, IsFound, BehindInv
<1>8. AskedInv'
  BY <1>1, <1>2, <1>5 DEF AskedInv
<1>9. SawInv'
  BY <1>5, StillSeen DEF SawInv, WorldInv
<1>10. FailedInv'
  BY <1>5 DEF FailedInv, OnlyHastyReadsFail, Hasty
<1> QED BY <1>4, <1>6, <1>7, <1>8, <1>9, <1>10

\* A step that is started has seen nothing yet, and is no search of the stream.
LEMMA SpawnStep == TestInv /\ Spawn => TestInv'
<1> SUFFICES ASSUME TestInv, Spawn PROVE TestInv'
  OBVIOUS
<1> USE DEF TestInv
<1>1. /\ ~stopped /\ at <= Len(Steps) /\ Steps[at].async
      /\ open' = open \cup {at} /\ at' = at + 1
      /\ UNCHANGED <<failed, stopped, vars, test, world, found>>
  BY DEF Spawn, SpawnNext
<1>2. /\ UNCHANGED <<test, param, blockers, told, lost, events, due, found>>
      /\ UNCHANGED <<wallet, pc, call, awaited, result, reads, faults>>
      /\ Steps' = Steps
  BY <1>1 DEF world, vars, service, asked, Steps
<1>3. test # "none"
  <2>1. ASSUME test = "none" PROVE Len(Steps) = 0
    BY <2>1, ProgramsFit DEF Steps
  <2> QED BY <1>1, <2>1 DEF StepsInv
<1>4. Len(Steps) \in Nat /\ DOMAIN Steps = 1 .. Len(Steps) /\ KeepsOrder(Steps)
  BY <1>3, ProgramsFit DEF MadeInv, WellFormed, Steps
<1>5. at \in DOMAIN Steps /\ at \in Int /\ Steps[at].place # "stream"
  BY <1>1, <1>4 DEF StepsInv, KeepsOrder
<1>6. Inv' /\ FirstInv'
  BY <1>1, SameCall DEF vars, service
<1>7. MadeInv' /\ WorldInv' /\ BehindInv'
  BY <1>2 DEF MadeInv, WorldInv, BehindInv
<1>8. StepsInv'
  BY <1>1, <1>2, <1>4, <1>5 DEF StepsInv
<1>9. FoundInv'
  <2> SUFFICES ASSUME lost # {"stream"}, NEW j \in 1 .. at' - 1, Steps[j].place = "stream",
                      \A l \in 1 .. at' - 1 : Steps[l].place = "stream" => l <= j
               PROVE  IsFound(j)'
    BY <1>2 DEF FoundInv
  <2>1. j # at
    BY <1>5
  <2>2. j \in 1 .. at - 1 /\ \A l \in 1 .. at - 1 : l \in 1 .. at' - 1
    BY <1>1, <1>5, <2>1
  <2>3. IsFound(j)
    BY <2>2 DEF FoundInv
  <2> QED BY <1>1, <1>2, <2>3 DEF IsFound
<1>10. AskedInv'
  <2> SUFFICES ASSUME pc # "idle" PROVE AskedInv'
    BY <1>2 DEF AskedInv
  <2>1. PICK r \in DOMAIN Steps :
          /\ Steps[r].place = "redis" /\ r <= at
          /\ call = Steps[r].does
          /\ call = "GetWithSeqCheck" => awaited = found
    BY <1>3 DEF AskedInv
  <2>2. r <= at'
    BY <1>1, <1>4, <1>5, <2>1
  <2> QED BY <1>1, <1>2, <2>1, <2>2 DEF AskedInv
<1>11. SawInv'
  <2> SUFFICES ASSUME NEW l \in 1 .. at' - 1, l \notin open', l \notin failed' PROVE Saw(l)'
    BY DEF SawInv
  <2>1. l \in 1 .. at - 1 /\ l \notin open /\ l \notin failed
    BY <1>1, <1>5
  <2> QED BY <1>2, <2>1, StillSeen DEF SawInv, WorldInv
<1>12. FailedInv'
  BY <1>1, <1>2 DEF FailedInv, OnlyHastyReadsFail, Hasty
<1> QED BY <1>6, <1>7, <1>8, <1>9, <1>10, <1>11, <1>12

\* One more event comes after those there are: the one found stays the oldest.
LEMMA EventStep ==
    ASSUME TestInv, NEW x \in Kinds(test), events' = Append(events, x), due' \in Seq(Kinds(test)),
           UNCHANGED <<vars, test, param, blockers, told, lost, progress>>
    PROVE  TestInv'
<1> USE DEF TestInv
<1>1. /\ UNCHANGED <<test, param, blockers, told, lost, at, open, failed, stopped, found>>
      /\ UNCHANGED <<wallet, pc, call, awaited, result, reads, faults>>
      /\ Steps' = Steps
  BY DEF vars, service, asked, progress, stepVars, Steps
<1>2. Inv' /\ FirstInv'
  BY SameCall DEF vars, service
<1>3. /\ events' \in Seq(Kinds(test)) /\ Len(events') = Len(events) + 1 /\ Len(events) \in Nat
      /\ DOMAIN events = 1 .. Len(events) /\ DOMAIN events' = 1 .. Len(events) + 1
      /\ \A n \in DOMAIN events : events'[n] = events[n]
  <2> DEFINE K == Kinds(test)
  <2>1. events \in Seq(K) /\ x \in K
    BY DEF WorldInv
  <2> HIDE DEF K
  <2>2. events' \in Seq(K) /\ Len(events') = Len(events) + 1 /\ Len(events) \in Nat
        /\ DOMAIN events = 1 .. Len(events) /\ DOMAIN events' = 1 .. Len(events) + 1
        /\ \A n \in DOMAIN events : events'[n] = events[n]
    BY <2>1
  <2> QED BY <2>2 DEF K
<1>4. MadeInv' /\ StepsInv' /\ WorldInv' /\ AskedInv' /\ FailedInv'
  BY <1>1, <1>3 DEF MadeInv, StepsInv, WorldInv, AskedInv, FailedInv, OnlyHastyReadsFail, Hasty
<1>5. BehindInv'
  <2>1. wallet.seq \in Nat
    BY DEF Inv, TypeInv, Value
  <2> QED BY <1>1, <1>3, <2>1 DEF BehindInv
<1>6. FoundInv'
  <2>1. ASSUME NEW j, IsFound(j) PROVE IsFound(j)'
    <3>1. found \in Nat /\ found \in DOMAIN events' /\ events'[found] = Steps[j].kinds[1]
      BY <1>3, <2>1 DEF IsFound
    <3>2. ASSUME NEW n \in DOMAIN events', n < found PROVE events'[n] # Steps[j].kinds[1]
      BY <1>3, <2>1, <3>1, <3>2 DEF IsFound
    <3> QED BY <1>1, <3>1, <3>2 DEF IsFound
  <2> QED BY <1>1, <2>1 DEF FoundInv
<1>7. SawInv'
  BY <1>1, StillSeen DEF SawInv, WorldInv
<1> QED BY <1>2, <1>4, <1>5, <1>6, <1>7

\* The services report what they accepted, or something else.
LEMMA HappenStep == TestInv /\ (Happen \/ Other) => TestInv'
<1> SUFFICES ASSUME TestInv, Happen \/ Other PROVE TestInv'
  OBVIOUS
<1> DEFINE K == Kinds(test)
<1>1. due \in Seq(K) /\ "other" \in K
  BY DEF TestInv, WorldInv, Kinds
<1>2. UNCHANGED <<vars, test, param, blockers, told, lost, progress>>
  BY DEF Happen, Other
<1>3. CASE Happen
  <2>1. due # << >> /\ events' = Append(events, Head(due)) /\ due' = Tail(due)
    BY <1>3 DEF Happen
  <2>2. Head(due) \in K /\ Tail(due) \in Seq(K)
    <3> HIDE DEF K
    <3> QED BY <1>1, <2>1
  <2> QED BY <1>2, <2>1, <2>2, EventStep
<1>4. CASE Other
  BY <1>1, <1>2, <1>4, EventStep DEF Other
<1> QED BY <1>3, <1>4

\* The wallet in Redis follows by one event, and not past one that is lost.
LEMMA ApplyStep == TestInv /\ Apply => TestInv'
<1> SUFFICES ASSUME TestInv, Apply PROVE TestInv'
  OBVIOUS
<1> USE DEF TestInv
<1>1. /\ WriteWallet /\ wallet.seq < Len(events)
      /\ ~("redis" \in lost /\ events[wallet.seq + 1] = Target(test))
      /\ UNCHANGED testVars
  BY DEF Apply
<1>2. /\ UNCHANGED <<test, param, blockers, told, lost, events, due, at, open, failed, stopped, found>>
      /\ UNCHANGED <<faults, call, awaited, pc, result, reads, err>>
      /\ Steps' = Steps /\ wallet'.seq = wallet.seq + 1
  BY <1>1 DEF testVars, world, progress, stepVars, WriteWallet, asked, Steps
<1>3. Inv'
  BY <1>1, ServiceStep
<1>4. wallet.seq \in Nat /\ result.seq \in Nat /\ Len(events) \in Nat
  BY DEF Inv, TypeInv, Value, WorldInv
<1>5. BehindInv'
  <2>1. ASSUME "redis" \in lost, test # "none", NEW n \in 1 .. wallet.seq + 1 PROVE events[n] # Target(test)
    BY <1>1, <1>4, <2>1 DEF BehindInv
  <2>2. result.seq <= wallet.seq + 1 /\ wallet.seq + 1 <= Len(events)
    BY <1>1, <1>4 DEF BehindInv
  <2> QED BY <1>2, <2>1, <2>2 DEF BehindInv
<1>6. FirstInv' /\ MadeInv' /\ StepsInv' /\ WorldInv' /\ FoundInv' /\ AskedInv'
  BY <1>2 DEF FirstInv, MadeInv, StepsInv, WorldInv, FoundInv, IsFound, AskedInv
<1>7. SawInv'
  BY <1>2, StillSeen DEF SawInv, WorldInv
<1>8. FailedInv'
  BY <1>2 DEF FailedInv, OnlyHastyReadsFail, Hasty
<1> QED BY <1>3, <1>5, <1>6, <1>7, <1>8

\* One step of the call: what it reads is the wallet as it is.
LEMMA CallKeeps ==
    ASSUME TestInv, CallStep
    PROVE  /\ Inv' /\ FirstInv'
           /\ pc \in {"try", "pause"} /\ pc' # "idle"
           /\ UNCHANGED <<held, wallet, call, awaited>>
           /\ result'.seq \in {result.seq, wallet.seq}
           /\ faults' \in Nat /\ faults <= faults'
<1> USE DEF TestInv
<1>1. Inv'
  BY MissStep, ReadStep, EndStep DEF CallStep
<1>2. faults \in Nat
  BY DEF WorldInv
<1>3. CASE GetNothing \/ GetFails \/ GetGarbage
  BY <1>1, <1>2, <1>3 DEF GetNothing, GetFails, GetGarbage, Trying, Retry, service, asked, FirstInv
<1>4. CASE GetWallet
  <2>1. /\ pc = "try" /\ UNCHANGED <<held, wallet, faults, call, awaited>>
        /\ result' = [wallet EXCEPT !.keys = @ \cup result.keys]
        /\ pc' \in {"pause", "returned"}
        /\ call = "GetWithRetry" => pc' = "returned" /\ err' = "nil"
    BY <1>4 DEF GetWallet, Trying, Decoded, Accepted, service, asked
  <2>2. result'.seq = wallet.seq
    BY <2>1 DEF Inv, TypeInv, Value
  <2> QED BY <1>1, <1>2, <2>1, <2>2 DEF FirstInv
<1>5. CASE Wake \/ Exhausted
  BY <1>1, <1>2, <1>5 DEF Wake, Exhausted, service, asked, FirstInv
<1> QED BY <1>3, <1>4, <1>5 DEF CallStep

\* The call goes on while the test does.
LEMMA CallGoesOn ==
    ASSUME TestInv, CallStep, UNCHANGED testVars
    PROVE  TestInv'
<1> USE DEF TestInv
<1>1. /\ UNCHANGED <<test, param, blockers, told, lost, events, due, at, open, failed, stopped, found>>
      /\ Steps' = Steps
  BY DEF testVars, world, progress, stepVars, Steps
<1>2. /\ Inv' /\ FirstInv'
      /\ pc \in {"try", "pause"} /\ pc' # "idle"
      /\ UNCHANGED <<wallet, call, awaited>>
      /\ result'.seq \in {result.seq, wallet.seq}
      /\ faults' \in Nat /\ faults <= faults' /\ faults \in Nat
  BY CallKeeps DEF WorldInv
<1>3. wallet.seq \in Nat
  BY DEF Inv, TypeInv, Value
<1>4. MadeInv' /\ StepsInv' /\ WorldInv' /\ FoundInv' /\ BehindInv' /\ AskedInv'
  BY <1>1, <1>2, <1>3 DEF MadeInv, StepsInv, WorldInv, FoundInv, IsFound, BehindInv, AskedInv
<1>5. SawInv'
  BY <1>1, <1>2, StillSeen DEF SawInv
<1>6. FailedInv'
  <2>1. \A k \in failed : Steps[k].place # "redis"
    BY <1>2 DEF FailedInv
  <2>2. ASSUME lost = {}, told = Meant(param), faults' = 0, NEW k \in failed PROVE Hasty(k)'
    <3>1. faults = 0
      BY <1>2, <2>2
    <3>2. Hasty(k)
      BY <2>2, <3>1 DEF FailedInv, OnlyHastyReadsFail, Hasty
    <3>3. test # "none" /\ k \in DOMAIN Steps
      BY ProgramsFit DEF StepsInv, Steps
    <3>4. HasShape(Steps, test)
      BY <3>3, ProgramsFit DEF MadeInv, WellFormed, Steps
    <3>5. Steps[k].does \notin {"GetWithRetry", "GetWithSeqCheck"}
      BY <2>1, <3>3, <3>4 DEF HasShape
    <3> QED BY <1>1, <3>2, <3>5 DEF Hasty
  <2> QED BY <1>1, <2>1, <2>2 DEF FailedInv, OnlyHastyReadsFail, Hasty
<1> QED BY <1>2, <1>4, <1>5, <1>6

\* A call that no test makes, and what is written meanwhile.
LEMMA AloneStep ==
    ASSUME TestInv, test = "none", Next, UNCHANGED testVars
    PROVE  TestInv'
<1> USE DEF TestInv
<1>1. /\ UNCHANGED <<test, param, blockers, told, lost, events, due, at, open, failed, stopped, found>>
      /\ Steps' = Steps
  BY DEF testVars, world, progress, stepVars, Steps
<1>2. at = 1 /\ failed = {}
  <2>1. Steps = << >> /\ Len(Steps) = 0 /\ DOMAIN Steps = {}
    BY ProgramsFit DEF Steps
  <2> QED BY <2>1 DEF StepsInv
<1>3. Inv'
  BY NextInv
<1>4. FirstInv' /\ result'.seq <= wallet'.seq /\ faults' \in Nat
  <2>1. wallet.seq \in Nat /\ result.seq \in Nat /\ result.seq <= wallet.seq /\ faults \in Nat
    BY DEF Inv, TypeInv, Value, BehindInv, WorldInv
  <2>2. CASE WriteWallet
    BY <2>1, <2>2 DEF WriteWallet, FirstInv, asked
  <2>3. CASE WriteOther
    BY <2>1, <2>3 DEF WriteOther, FirstInv, asked
  <2>4. CASE CallStep
    BY <2>1, <2>4, CallKeeps
  <2>5. CASE \E n \in 1 .. MaxSeq : Begin("GetWithRetry", 0) \/ Begin("GetWithSeqCheck", n)
    BY <2>1, <2>5 DEF Begin, FirstInv, service, Inv, GoingOnInv
  <2> QED BY <2>2, <2>3, <2>4, <2>5 DEF Next
<1>5. MadeInv' /\ StepsInv' /\ WorldInv' /\ FoundInv' /\ BehindInv' /\ AskedInv' /\ SawInv' /\ FailedInv'
  BY <1>1, <1>2, <1>4
     DEF MadeInv, StepsInv, WorldInv, FoundInv, BehindInv, AskedInv, SawInv, FailedInv, OnlyHastyReadsFail
<1> QED BY <1>3, <1>4, <1>5

\* A test that has not begun has seen nothing.
LEMMA TestInitInv == TestInit => TestInv
<1> SUFFICES ASSUME TestInit PROVE TestInv
  OBVIOUS
<1> USE DEF TestInit, Idle, NothingDone
<1>1. /\ held \in {"absent", "empty", "garbage", "wallet"}
      /\ wallet \in Value /\ (held = "wallet" => wallet \in Read)
      /\ wallet.seq \in {0, 1} /\ (test = "none" => wallet = NoWallet)
      /\ test = "none" \/ events = << "walletCreated" >>
  BY DEF NoWallet, Value, Read, ReadsWalletFirst
<1>2. TypeInv
  <2>1. NoWallet \in Value
    BY DEF NoWallet, Value
  <2>2. << >> \in Seq(Read) /\ 0 \in 0 .. Attempts
    BY BoundAssumption
  <2> QED BY <1>1, <2>1, <2>2 DEF TypeInv
<1>3. GoingOnInv /\ AnswerIsTrue /\ ResultIsMerged /\ FirstInv
  BY DEF GoingOnInv, AnswerIsTrue, ResultIsMerged, FirstInv
<1>4. MadeInv
  <2>1. Words("Increase", "Deposit", "OperationalMistake") \in Params
    BY DEF Params
  <2>2. NewBlockers \in BlockersParams
    BY DEF NewBlockers, BlockersParams
  <2>3. blockers \in BlockersParams
    <3>1. blockers \in BlockersParams \/ blockers = NewBlockers
      OBVIOUS
    <3> QED BY <2>2, <3>1
  <2> QED BY <2>1, <2>3 DEF MadeInv
<1>5. Len(Steps) \in Nat
  BY ProgramsFit DEF WellFormed, Steps
<1>6. StepsInv
  BY <1>5 DEF StepsInv
<1>7. WorldInv
  <2> DEFINE K == Kinds(test)
  <2>1. "walletCreated" \in K
    BY DEF Kinds
  <2> HIDE DEF K
  <2>2. << "walletCreated" >> \in Seq(K) /\ << >> \in Seq(K)
    BY <2>1
  <2> QED BY <2>2 DEF WorldInv, K
<1>8. BehindInv
  <2>1. result.seq = 0
    BY DEF NoWallet
  <2>2. ASSUME test # "none" PROVE Target(test) # "walletCreated"
    BY <2>2, ProgramsFit DEF WellFormed, AsksForKinds
  <2>3. ASSUME test # "none" PROVE Len(events) = 1 /\ events[1] = "walletCreated"
    BY <1>1, <2>3
  <2> QED BY <1>1, <2>1, <2>2, <2>3 DEF BehindInv
<1>9. FoundInv /\ AskedInv /\ SawInv /\ FailedInv
  BY DEF FoundInv, AskedInv, SawInv, FailedInv, OnlyHastyReadsFail
<1> QED BY <1>2, <1>3, <1>4, <1>6, <1>7, <1>8, <1>9 DEF TestInv, Inv

\* Every step of a test, of its call and of the services keeps the invariant.
LEMMA TestNextInv == TestInv /\ [TestNext]_allVars => TestInv'
<1> SUFFICES ASSUME TestInv, [TestNext]_allVars PROVE TestInv'
  OBVIOUS
<1>1. CASE UNCHANGED allVars
  <2>1. /\ UNCHANGED <<held, wallet, faults, call, awaited, i, pc, lastErr, result, err, reads, sawEmpty>>
        /\ UNCHANGED <<test, param, blockers, told, lost, events, due, at, open, failed, stopped, found>>
        /\ Steps' = Steps
    BY <1>1 DEF allVars, vars, service, asked, testVars, world, progress, stepVars, Steps
  <2>2. Inv' /\ FirstInv'
    BY <2>1, SameCall DEF TestInv, asked
  <2>3. MadeInv' /\ StepsInv' /\ WorldInv' /\ FoundInv' /\ BehindInv' /\ AskedInv'
    BY <2>1 DEF TestInv, MadeInv, StepsInv, WorldInv, FoundInv, IsFound, BehindInv, AskedInv
  <2>4. SawInv'
    BY <2>1, StillSeen DEF TestInv, SawInv, WorldInv
  <2>5. FailedInv'
    BY <2>1 DEF TestInv, FailedInv, OnlyHastyReadsFail, Hasty
  <2> QED BY <2>2, <2>3, <2>4, <2>5 DEF TestInv
<1>2. ASSUME NEW k \in UnderWay(Steps), StepOf(k) PROVE TestInv'
  BY <1>2, AcceptedStep, FindEventStep, FoundStep, ProjectionStep, MissedStep, PanicStep, LookStep, BeginReadStep, EndReadStep
     DEF StepOf
<1>3. CASE TestNext
  BY <1>2, <1>3, AloneStep, HappenStep, ApplyStep, SpawnStep, CallGoesOn DEF TestNext, Services, TestStep
<1> QED BY <1>1, <1>3

\* The invariant holds whenever a test runs.
LEMMA TestAlwaysInv == TestSpec => []TestInv
BY TestInitInv, TestNextInv, PTL DEF TestSpec

\* What a test that passed has seen.
LEMMA Shown == TestInv => PassedMeansShown
<1> SUFFICES ASSUME TestInv, Ended(Steps), failed = {}, test # "none"
             PROVE  /\ told = Meant(param)
                    /\ \/ lost = {}
                       \/ test = "removeWallet" /\ lost = {"public"}
                       \/ test = "blockers" /\ blockers = NewBlockers /\ lost \subseteq {"db", "cap"}
  BY DEF PassedMeansShown
<1> USE DEF TestInv
<1>1. /\ DOMAIN Steps = 1 .. Len(Steps) /\ Len(Steps) \in Nat
      /\ HasShape(Steps, test) /\ NamesKinds(Steps) /\ AsksForKinds(Steps, test)
  BY ProgramsFit DEF MadeInv, WellFormed, Steps
<1>2. ASSUME NEW k \in DOMAIN Steps PROVE Saw(k)
  <2>1. at > Len(Steps) /\ open = {} /\ at \in Int
    BY DEF Ended, StepsInv
  <2>2. k \in 1 .. at - 1
    BY <1>1, <2>1
  <2> QED BY <2>1, <2>2 DEF SawInv
<1>3. told = Meant(param)
  <2>1. CASE test \in Adjusts
    <3>1. PICK k \in DOMAIN Steps : Steps[k].place = "stream"
      BY <1>1, <2>1 DEF AsksForKinds
    <3>2. told \in Expected(param)
      BY <1>2, <2>1, <3>1 DEF Saw
    <3> QED BY <3>2, ExpectedIs DEF MadeInv
  <2>2. CASE test \notin Adjusts
    BY <2>2 DEF MadeInv
  <2> QED BY <2>1, <2>2
<1>4. ASSUME NEW p \in Places(test), lost = {p}
      PROVE  \/ test = "removeWallet" /\ p = "public"
             \/ test = "blockers" /\ blockers = NewBlockers /\ p \in {"db", "cap"}
  <2>1. PICK k \in DOMAIN Steps :
          /\ Steps[k].place = p /\ Steps[k].does # "act"
          /\ Steps[k].kinds = << >> \/ Steps[k].kinds[1] = Target(test)
    BY <1>1 DEF Places, Range, Steps
  <2>2. Saw(k)
    BY <1>2
  <2>3. CASE Standing(Steps[k])
    BY <2>1, <2>3 DEF Standing
  <2>4. CASE ~Standing(Steps[k])
    <3>1. Steps[k].does \notin {"find", "numbered"}
      BY <1>1, <1>4, <2>1, <2>2, <2>4 DEF Saw, Missing, NamesKinds, Named
    <3>2. Steps[k].does \notin {"read", "panic"} /\ Steps[k].place # "redis"
      BY <1>4, <2>1, <2>2, <2>4 DEF Saw
    <3> QED BY <1>1, <2>1, <3>1, <3>2 DEF HasShape
  <2> QED BY <2>3, <2>4
<1> QED BY <1>3, <1>4 DEF MadeInv

\* Of all the tests of a wallet, one that passes was shown what it asked for in
\* every place where it looked, but for the list from which a removed wallet must
\* be absent, and the places that show a new wallet's blockers anyway.  This is so for any number of attempts at Redis,
\* of events nobody asked for and of requests that fail.
THEOREM PassedTestsWereShown == TestSpec => []PassedMeansShown
BY Shown, TestAlwaysInv, PTL

\* When nothing is wrong, no search of a test in the stream, a topic or the
\* projection takes a wrong event or misses the right one: what fails is a read
\* made before its place has come to the event, or the step without a connector.
THEOREM SearchesDoNotFail == TestSpec => []OnlyHastyReadsFail
<1>1. TestInv => OnlyHastyReadsFail
  BY DEF TestInv, FailedInv
<1> QED BY <1>1, TestAlwaysInv, PTL

\* The steps of a test that run side by side do not write what another uses.
THEOREM StepsShareNothing == TestSpec => []NoDataRace
<1>1. TestInv => NoDataRace
  BY NoRace DEF TestInv
<1> QED BY <1>1, TestAlwaysInv, PTL

\* Also in a test, a call of the Redis client tells the truth of its result.
THEOREM AnswersInTests == TestSpec => [](AnswerIsTrue /\ ResultIsMerged)
<1>1. TestInv => AnswerIsTrue /\ ResultIsMerged
  BY DEF TestInv, Inv
<1> QED BY <1>1, TestAlwaysInv, PTL
=============================================================================
