-------------------------- MODULE NatsFinderProofs --------------------------
(***************************************************************************)
(* What holds of the NATS client for any number of concurrent calls, of    *)
(* messages and of redeliveries, and any capacity of the channels.         *)
(***************************************************************************)
EXTENDS NatsFinder, FiniteSetTheorems, SequenceTheorems, TLAPS

TypeInv ==
    /\ stream \in 0 .. MaxSeq
    /\ delivered \in [Finders -> 0 .. MaxSeq]
    /\ active \in [Finders -> BOOLEAN]
    /\ callback \in [Finders -> SeqNo \cup {None}]
    /\ msgCh \in [Finders -> Seq(SeqNo)]
    /\ pc \in [Finders -> {"idle", "subscribed", "search", "leaving", "returned", "refused"}]
    /\ expired \in [Finders -> BOOLEAN]
    /\ result \in [Finders -> SeqNo \cup {None}]
    /\ cancelled \in BOOLEAN
    /\ closePc \in {"open", "waiting", "waited", "closed"}
    /\ wg \in Nat

\* The wait group counts the calls between Add and Done.
GroupInv == IsFiniteSet(Inside) /\ wg = Cardinality(Inside)

\* Close is past its wait only when those that had joined in time have left;
\* whoever joined since has found the context cancelled.
CloseInv ==
    /\ cancelled <=> closePc # "open"
    /\ closePc \in {"waited", "closed"} => Inside \subseteq joinedLate

\* What f has still to look at: its channel, then the message its callback
\* holds.
Ahead(f) == msgCh[f] \o (IF callback[f] = None THEN << >> ELSE <<callback[f]>>)

\* Of the messages q no wanted one comes before an earlier wanted one.
InTurn(f, q) ==
    \A n \in DOMAIN q : q[n] \in Wanted[f] =>
        \A m \in Wanted[f] : m < q[n] => \E k \in DOMAIN q : k < n /\ q[k] = m

\* A call that has not returned yet has all the messages it wants, as far as
\* they were delivered, still ahead of it.
Complete(f, q, d) == \A m \in Wanted[f] : m <= d => \E n \in DOMAIN q : q[n] = m

\* And a call that has no subscription yet, or was refused one, was sent
\* nothing.
TurnInv ==
    \A f \in Finders :
        /\ pc[f] \in {"idle", "refused"} =>
             delivered[f] = 0 /\ ~active[f] /\ Ahead(f) = << >> /\ f \notin subs
        /\ pc[f] \in {"idle", "subscribed", "search"} =>
             /\ result[f] = None
             /\ InTurn(f, Ahead(f))
             /\ Complete(f, Ahead(f), delivered[f])

\* The answer of a call that had its subscription.
ReasonInv ==
    \A f \in Finders :
        /\ result[f] # None => \A m \in Wanted[f] : m >= result[f]
        /\ pc[f] \in {"leaving", "returned"} /\ result[f] = None => expired[f] \/ cancelled

Inv == TypeInv /\ GroupInv /\ CloseInv /\ TurnInv /\ ReasonInv

-----------------------------------------------------------------------------
(* The messages ahead of a call. *)

\* A message that is the next of the stream, or was delivered before, comes
\* last and in turn.
LEMMA AppendTurn ==
    ASSUME NEW f \in Finders, NEW q \in Seq(SeqNo), NEW d \in Nat, NEW e \in Nat, NEW m \in SeqNo,
           InTurn(f, q), Complete(f, q, d),
           \/ m <= d /\ e = d
           \/ m = d + 1 /\ e = d + 1
    PROVE  InTurn(f, Append(q, m)) /\ Complete(f, Append(q, m), e)
<1> DEFINE r == Append(q, m)
           l == Len(q) + 1
<1>1. /\ Len(q) \in Nat /\ DOMAIN q = 1 .. Len(q) /\ DOMAIN r = 1 .. l
      /\ r[l] = m /\ l \in DOMAIN r
      /\ \A n \in DOMAIN q : n \in DOMAIN r /\ r[n] = q[n] /\ n < l
      /\ \A n \in DOMAIN r : n = l \/ n \in DOMAIN q
  OBVIOUS
<1> HIDE DEF r, l
<1>2. m \in Nat /\ \A w \in Wanted[f] : w \in Nat
  BY FinderAssumption DEF SeqNo
<1>3. ASSUME NEW n \in DOMAIN r, r[n] \in Wanted[f], NEW w \in Wanted[f], w < r[n]
      PROVE  \E k \in DOMAIN r : k < n /\ r[k] = w
  <2>1. CASE n \in DOMAIN q
    <3>1. PICK k \in DOMAIN q : k < n /\ q[k] = w
      BY <1>1, <1>3, <2>1 DEF InTurn
    <3> QED BY <1>1, <3>1
  <2>2. CASE n = l
    <3>1. w <= d
      BY <1>1, <1>2, <1>3, <2>2
    <3>2. PICK k \in DOMAIN q : q[k] = w
      BY <3>1, <1>3 DEF Complete
    <3> QED BY <1>1, <2>2, <3>2
  <2> QED BY <1>1, <2>1, <2>2
<1>4. ASSUME NEW w \in Wanted[f], w <= e PROVE \E n \in DOMAIN r : r[n] = w
  <2>1. CASE w <= d
    <3>1. PICK n \in DOMAIN q : q[n] = w
      BY <2>1, <1>4 DEF Complete
    <3> QED BY <1>1, <3>1
  <2>2. CASE ~(w <= d)
    <3>1. w = m
      BY <1>2, <1>4, <2>2
    <3> QED BY <1>1, <3>1
  <2> QED BY <2>1, <2>2
<1> QED BY <1>3, <1>4 DEF InTurn, Complete, r

\* The first message of all, if it is wanted, is the earliest wanted one; if
\* not, nothing is lost with it.
LEMMA HeadTurn ==
    ASSUME NEW f \in Finders, NEW q \in Seq(SeqNo), NEW d \in Nat, q # << >>,
           InTurn(f, q), Complete(f, q, d)
    PROVE  /\ Head(q) \in Wanted[f] => \A m \in Wanted[f] : m >= Head(q)
           /\ Head(q) \notin Wanted[f] => InTurn(f, Tail(q)) /\ Complete(f, Tail(q), d)
<1> DEFINE r == Tail(q)
<1>1. /\ Len(q) \in Nat /\ Len(q) > 0 /\ DOMAIN q = 1 .. Len(q)
      /\ Head(q) = q[1] /\ 1 \in DOMAIN q
      /\ DOMAIN r = 1 .. Len(q) - 1
      /\ \A n \in DOMAIN r : r[n] = q[n + 1] /\ n + 1 \in DOMAIN q /\ n \in Nat
      /\ \A n \in DOMAIN q : n \in Nat /\ (n = 1 \/ (n - 1 \in DOMAIN r /\ n > 1 /\ q[n] = r[n - 1]))
      /\ \A n \in DOMAIN q : q[n] \in SeqNo
  OBVIOUS
<1> HIDE DEF r
<1>2. (\A m \in Wanted[f] : m \in Nat) /\ (\A n \in DOMAIN q : q[n] \in Nat)
  BY <1>1, FinderAssumption DEF SeqNo
<1>3. ASSUME Head(q) \in Wanted[f], NEW m \in Wanted[f] PROVE m >= Head(q)
  <2> SUFFICES ASSUME m < q[1] PROVE FALSE
    BY <1>1, <1>2
  <2>1. PICK k \in DOMAIN q : k < 1 /\ q[k] = m
    BY <1>1, <1>3 DEF InTurn
  <2> QED BY <2>1, <1>1
<1>4. ASSUME Head(q) \notin Wanted[f] PROVE InTurn(f, r) /\ Complete(f, r, d)
  <2>1. ASSUME NEW n \in DOMAIN r, r[n] \in Wanted[f], NEW m \in Wanted[f], m < r[n]
        PROVE  \E k \in DOMAIN r : k < n /\ r[k] = m
    <3>1. PICK k \in DOMAIN q : k < n + 1 /\ q[k] = m
      BY <1>1, <2>1 DEF InTurn
    <3>2. k # 1
      BY <1>1, <1>4, <2>1, <3>1
    <3>3. k - 1 \in DOMAIN r /\ k - 1 < n /\ r[k - 1] = m
      BY <1>1, <3>1, <3>2
    <3> QED BY <3>3
  <2>2. ASSUME NEW m \in Wanted[f], m <= d PROVE \E n \in DOMAIN r : r[n] = m
    <3>1. PICK k \in DOMAIN q : q[k] = m
      BY <2>2 DEF Complete
    <3>2. k # 1
      BY <1>1, <1>4, <2>2, <3>1
    <3> QED BY <1>1, <3>1, <3>2
  <2> QED BY <2>1, <2>2 DEF InTurn, Complete
<1> QED BY <1>3, <1>4 DEF r

\* The messages ahead of a call start with its channel.
LEMMA AheadFacts ==
    ASSUME TypeInv, NEW f \in Finders
    PROVE  /\ Ahead(f) \in Seq(SeqNo)
           /\ callback[f] = None => Ahead(f) = msgCh[f]
           /\ callback[f] # None => Ahead(f) = Append(msgCh[f], callback[f])
           /\ msgCh[f] # << >> => Ahead(f) # << >> /\ Head(Ahead(f)) = Head(msgCh[f])
<1>1. msgCh[f] \in Seq(SeqNo) /\ callback[f] \in SeqNo \cup {None}
  BY DEF TypeInv
<1>2. CASE callback[f] = None
  <2>1. Ahead(f) = msgCh[f]
    BY <1>1, <1>2 DEF Ahead
  <2> QED BY <1>1, <1>2, <2>1
<1>3. CASE callback[f] # None
  <2>1. Ahead(f) = Append(msgCh[f], callback[f]) /\ callback[f] \in SeqNo
    BY <1>1, <1>3 DEF Ahead
  <2> QED BY <1>1, <1>3, <2>1
<1> QED BY <1>2, <1>3

-----------------------------------------------------------------------------
(* The steps. *)

\* At first no call is inside and nothing was delivered.
LEMMA InitInv == Init => Inv
<1> SUFFICES ASSUME Init PROVE Inv
  OBVIOUS
<1> USE BoundAssumption DEF Init
<1>1. TypeInv
  <2>1. 0 \in 0 .. MaxSeq /\ << >> \in Seq(SeqNo)
    OBVIOUS
  <2> QED BY <2>1 DEF TypeInv
<1>2. Inside = {}
  BY DEF Inside
<1>3. GroupInv /\ CloseInv
  BY <1>2, FS_EmptySet DEF GroupInv, CloseInv
<1>4. TurnInv
  <2> SUFFICES ASSUME NEW f \in Finders
               PROVE  /\ Ahead(f) = << >> /\ InTurn(f, << >>) /\ Complete(f, << >>, 0)
    BY DEF TurnInv
  <2>1. Ahead(f) = << >>
    BY DEF Ahead
  <2>2. \A m \in Wanted[f] : ~(m <= 0)
    BY FinderAssumption DEF SeqNo
  <2> QED BY <2>1, <2>2 DEF InTurn, Complete
<1>5. ReasonInv
  BY DEF ReasonInv
<1> QED BY <1>1, <1>3, <1>4, <1>5 DEF Inv

\* The server and the library give a call its next message, or one that it was
\* given before; the callback puts it in the channel.
LEMMA DeliveryStep ==
    ASSUME Inv, NEW f \in Finders, Deliver(f) \/ Redeliver(f) \/ CallbackSend(f)
    PROVE  Inv'
<1> USE DEF Inv
<1>1. UNCHANGED <<stream, call, client, joinedLate, active>> /\ subs' = subs
  BY DEF Deliver, Redeliver, CallbackSend, server, client
<1>2. TypeInv'
  <2>1. /\ delivered[f] \in 0 .. MaxSeq /\ stream \in 0 .. MaxSeq /\ MaxSeq \in Nat
        /\ callback[f] \in SeqNo \cup {None} /\ msgCh[f] \in Seq(SeqNo)
    BY BoundAssumption DEF TypeInv
  <2>2. CASE Deliver(f)
    <3>1. delivered[f] + 1 \in SeqNo /\ delivered[f] + 1 \in 0 .. MaxSeq
      BY <2>1, <2>2 DEF Deliver, SeqNo
    <3> QED BY <1>1, <2>2, <3>1 DEF Deliver, TypeInv, call, client
  <2>3. CASE Redeliver(f)
    <3>1. \A m \in 1 .. delivered[f] : m \in SeqNo
      BY <2>1 DEF SeqNo
    <3> QED BY <1>1, <2>3, <3>1 DEF Redeliver, TypeInv, call, client
  <2>4. CASE CallbackSend(f)
    <3>1. Append(msgCh[f], callback[f]) \in Seq(SeqNo)
      BY <2>1, <2>4 DEF CallbackSend
    <3> QED BY <1>1, <2>4, <3>1 DEF CallbackSend, TypeInv, call, client
  <2> QED BY <2>2, <2>3, <2>4
<1>3. GroupInv' /\ CloseInv'
  BY <1>1 DEF GroupInv, CloseInv, Inside, call, client
<1>4. ReasonInv'
  BY <1>1 DEF ReasonInv, call, client
<1>5. \A g \in Finders \ {f} : Ahead(g)' = Ahead(g) /\ delivered'[g] = delivered[g]
  BY <1>1 DEF Deliver, Redeliver, CallbackSend, Ahead, TypeInv
<1>6. TurnInv'
  <2>0. \/ InTurn(f, Ahead(f)') /\ Complete(f, Ahead(f)', delivered'[f])
        \/ pc[f] \notin {"idle", "subscribed", "search"}
    <3> SUFFICES ASSUME pc[f] \in {"idle", "subscribed", "search"}
                 PROVE  InTurn(f, Ahead(f)') /\ Complete(f, Ahead(f)', delivered'[f])
      OBVIOUS
    <3>0. InTurn(f, Ahead(f)) /\ Complete(f, Ahead(f), delivered[f])
      BY DEF TurnInv
    <3>1. CASE CallbackSend(f)
      <4>1. Ahead(f)' = Ahead(f) /\ delivered' = delivered
        <5>1. /\ callback'[f] = None /\ callback[f] # None
              /\ msgCh'[f] = Append(msgCh[f], callback[f]) /\ delivered' = delivered
          BY <3>1 DEF CallbackSend, TypeInv
        <5>2. msgCh[f] \in Seq(SeqNo) /\ callback[f] \in SeqNo
          BY <5>1 DEF TypeInv
        <5>3. /\ Ahead(f) = msgCh[f] \o <<callback[f]>>
              /\ Ahead(f)' = Append(msgCh[f], callback[f]) \o << >>
          BY <5>1 DEF Ahead
        <5>4. /\ msgCh[f] \o <<callback[f]>> = Append(msgCh[f], callback[f])
              /\ Append(msgCh[f], callback[f]) \o << >> = Append(msgCh[f], callback[f])
          BY <5>2
        <5> QED BY <5>1, <5>3, <5>4
      <4> QED BY <3>0, <4>1
    <3>2. CASE Deliver(f) \/ Redeliver(f)
      <4>1. PICK m \in SeqNo :
              /\ callback[f] = None /\ callback'[f] = m /\ msgCh'[f] = msgCh[f] /\ m # None
              /\ \/ m <= delivered[f] /\ delivered'[f] = delivered[f]
                 \/ m = delivered[f] + 1 /\ delivered'[f] = delivered[f] + 1
        <5>1. delivered[f] \in 0 .. MaxSeq /\ stream \in 0 .. MaxSeq /\ MaxSeq \in Nat
          BY BoundAssumption DEF TypeInv
        <5>2. CASE Deliver(f)
          <6>1. delivered[f] + 1 \in SeqNo /\ delivered[f] + 1 # None
            BY <5>1, <5>2 DEF Deliver, SeqNo, None
          <6> QED BY <5>2, <6>1 DEF Deliver, TypeInv
        <5>3. CASE Redeliver(f)
          <6>1. PICK m \in 1 .. delivered[f] : callback' = [callback EXCEPT ![f] = m]
            BY <5>3 DEF Redeliver
          <6>2. m \in SeqNo /\ m # None /\ m <= delivered[f]
            BY <5>1 DEF SeqNo, None
          <6> QED BY <5>3, <6>1, <6>2 DEF Redeliver, TypeInv
        <5> QED BY <3>2, <5>2, <5>3
      <4>2. Ahead(f) = msgCh[f] /\ Ahead(f)' = Append(msgCh[f], m) /\ msgCh[f] \in Seq(SeqNo)
        BY <4>1 DEF Ahead, TypeInv
      <4>3. delivered[f] \in Nat /\ delivered'[f] \in Nat
        BY <1>2 DEF TypeInv
      <4> QED BY <3>0, <4>1, <4>2, <4>3, AppendTurn
    <3> QED BY <3>1, <3>2
  <2>1. pc[f] \notin {"idle", "refused"}
    <3>1. CASE Deliver(f) \/ Redeliver(f)
      BY <3>1 DEF Deliver, Redeliver, TurnInv
    <3>2. CASE CallbackSend(f)
      <4>1. Ahead(f) # << >>
        BY <3>2, AheadFacts DEF CallbackSend, TypeInv
      <4> QED BY <4>1 DEF TurnInv
    <3> QED BY <3>1, <3>2
  <2> QED BY <1>1, <1>5, <2>0, <2>1 DEF TurnInv, call, InTurn, Complete
<1> QED BY <1>2, <1>3, <1>4, <1>6

\* Steps that leave the messages and the results alone keep every call's turn
\* when they only take it further on.
LEMMA SameTurn ==
    ASSUME Inv, UNCHANGED <<delivered, callback, msgCh, result>>,
           \A f \in Finders :
               \/ pc'[f] = pc[f] /\ (active'[f] => active[f]) /\ (f \in subs' => f \in subs)
               \/ pc'[f] = "refused" /\ pc[f] = "idle" /\ active'[f] = active[f] /\ subs' = subs
               \/ pc'[f] \in {"leaving", "returned"}
               \/ pc'[f] \in {"subscribed", "search"} /\ pc[f] \in {"idle", "subscribed", "search"}
    PROVE  TurnInv'
<1>1. \A f \in Finders : Ahead(f)' = Ahead(f)
  BY DEF Ahead
<1> QED BY <1>1 DEF Inv, TurnInv, InTurn, Complete

\* A call opens its subscription, which starts with the first message, or
\* fails to.
LEMMA SubscribeStep ==
    ASSUME Inv, NEW f \in Finders, Subscribe(f) \/ SubscribeFails(f)
    PROVE  Inv'
<1> USE DEF Inv
<1>1. /\ pc[f] = "idle" /\ delivered[f] = 0
      /\ pc' = [pc EXCEPT ![f] = pc'[f]]
      /\ \/ pc'[f] = "subscribed"
         \/ pc'[f] = "refused" /\ active' = active /\ subs' = subs
      /\ UNCHANGED <<stream, callback, msgCh, expired, result, wg, cancelled, closePc, joinedLate>>
      /\ delivered' \in [Finders -> 0 .. MaxSeq] /\ delivered' = delivered
      /\ active' \in [Finders -> BOOLEAN]
  <2>0. pc[f] = "idle" /\ delivered[f] = 0
    BY DEF Subscribe, SubscribeFails, TurnInv
  <2>1. CASE Subscribe(f)
    BY <2>0, <2>1, BoundAssumption DEF Subscribe, StartAfter, TypeInv, server
  <2>2. CASE SubscribeFails(f)
    BY <2>0, <2>2 DEF SubscribeFails, TypeInv, CloseInv, server, client
  <2> QED BY <2>1, <2>2
<1>2. TypeInv'
  BY <1>1 DEF TypeInv
<1>3. Inside' = Inside
  BY <1>1 DEF Inside, TypeInv
<1>4. GroupInv' /\ CloseInv'
  BY <1>1, <1>3 DEF GroupInv, CloseInv
<1>5. \A g \in Finders : g # f => pc'[g] = pc[g] /\ active'[g] = active[g] /\ (g \in subs' <=> g \in subs)
  BY <1>1 DEF Subscribe, SubscribeFails, TypeInv
<1>6. TurnInv'
  <2>1. \A g \in Finders :
           \/ pc'[g] = pc[g] /\ (active'[g] => active[g]) /\ (g \in subs' => g \in subs)
           \/ pc'[g] = "refused" /\ pc[g] = "idle" /\ active'[g] = active[g] /\ subs' = subs
           \/ pc'[g] = "subscribed" /\ pc[g] = "idle"
    BY <1>1, <1>5
  <2> QED BY <1>1, <2>1, SameTurn
<1>7. ReasonInv'
  BY <1>1, <1>5 DEF ReasonInv
<1> QED BY <1>2, <1>4, <1>6, <1>7

\* A call joins the wait group, late if Close has cancelled the context.
LEMMA EnterStep ==
    ASSUME Inv, NEW f \in Finders, Enter(f)
    PROVE  Inv'
<1> USE DEF Inv
<1>1. /\ pc[f] = "subscribed" /\ pc' = [pc EXCEPT ![f] = "search"] /\ wg' = wg + 1
      /\ UNCHANGED <<stream, delivered, active, callback, msgCh, expired, result, cancelled, closePc, subs>>
      /\ joinedLate \subseteq joinedLate' /\ (cancelled => f \in joinedLate')
  BY DEF Enter, Join, server
<1>2. TypeInv'
  BY <1>1 DEF TypeInv
<1>3. f \notin Inside /\ Inside' = Inside \cup {f}
  BY <1>1 DEF Inside, TypeInv
<1>4. GroupInv'
  BY <1>1, <1>3, FS_AddElement DEF GroupInv
<1>5. CloseInv'
  BY <1>1, <1>3 DEF CloseInv
<1>6. TurnInv'
  BY <1>1, SameTurn DEF TypeInv
<1>7. ReasonInv'
  BY <1>1 DEF ReasonInv, TypeInv
<1> QED BY <1>2, <1>4, <1>5, <1>6, <1>7

\* The call's timer fires, or it gives up because of that or of Close.
LEMMA TimeStep ==
    ASSUME Inv, NEW f \in Finders, Expire(f) \/ GiveUp(f)
    PROVE  Inv'
<1> USE DEF Inv
<1>1. /\ pc[f] = "search"
      /\ UNCHANGED <<stream, delivered, active, callback, msgCh, result, wg, cancelled, closePc, joinedLate, subs>>
      /\ \/ pc' = pc /\ expired' = [expired EXCEPT ![f] = TRUE]
         \/ /\ pc' = [pc EXCEPT ![f] = "leaving"] /\ expired' = expired
            /\ expired[f] \/ cancelled
  BY DEF Expire, GiveUp, TimeIsOver, server, client
<1>2. TypeInv'
  BY <1>1 DEF TypeInv
<1>3. Inside' = Inside
  BY <1>1 DEF Inside, TypeInv
<1>4. GroupInv' /\ CloseInv'
  BY <1>1, <1>3 DEF GroupInv, CloseInv
<1>5. TurnInv'
  BY <1>1, SameTurn DEF TypeInv
<1>6. ReasonInv'
  BY <1>1 DEF ReasonInv, TypeInv
<1> QED BY <1>2, <1>4, <1>5, <1>6

\* The first message of the channel is the answer if it is wanted.
LEMMA ReceiveStep ==
    ASSUME Inv, NEW f \in Finders, Receive(f)
    PROVE  Inv'
<1> USE DEF Inv
<1>1. /\ pc[f] = "search" /\ msgCh[f] \in Seq(SeqNo) /\ msgCh[f] # << >>
      /\ msgCh' = [msgCh EXCEPT ![f] = Tail(msgCh[f])]
      /\ UNCHANGED <<stream, delivered, active, callback, expired, wg, cancelled, closePc, joinedLate, subs>>
      /\ \/ /\ Head(msgCh[f]) \in Wanted[f]
            /\ result' = [result EXCEPT ![f] = Head(msgCh[f])]
            /\ pc' = [pc EXCEPT ![f] = "leaving"]
         \/ Head(msgCh[f]) \notin Wanted[f] /\ result' = result /\ pc' = pc
  BY DEF Receive, GoOn, server, client, TypeInv
<1>2. Head(msgCh[f]) \in SeqNo /\ Tail(msgCh[f]) \in Seq(SeqNo)
  BY <1>1
<1>3. TypeInv'
  BY <1>1, <1>2 DEF TypeInv
<1>4. Inside' = Inside
  BY <1>1 DEF Inside, TypeInv
<1>5. GroupInv' /\ CloseInv'
  BY <1>1, <1>4 DEF GroupInv, CloseInv
<1>6. /\ Ahead(f) \in Seq(SeqNo) /\ Ahead(f) # << >> /\ Head(Ahead(f)) = Head(msgCh[f])
      /\ Ahead(f)' = Tail(Ahead(f))
      /\ delivered[f] \in Nat
  <2>1. Ahead(f) \in Seq(SeqNo) /\ Ahead(f) # << >> /\ Head(Ahead(f)) = Head(msgCh[f])
    BY <1>1, AheadFacts
  <2>2. Ahead(f)' = Tail(Ahead(f))
    <3>1. callback[f] \in SeqNo \cup {None} /\ callback' = callback /\ msgCh'[f] = Tail(msgCh[f])
      BY <1>1 DEF TypeInv
    <3>2. CASE callback[f] = None
      BY <1>1, <1>2, <3>1, <3>2 DEF Ahead
    <3>3. CASE callback[f] # None
      <4>1. callback[f] \in SeqNo
        BY <3>1, <3>3
      <4>2. Ahead(f) = msgCh[f] \o <<callback[f]>> /\ Ahead(f)' = Tail(msgCh[f]) \o <<callback[f]>>
        BY <3>1, <3>3 DEF Ahead
      <4>3. /\ msgCh[f] \o <<callback[f]>> = Append(msgCh[f], callback[f])
            /\ Tail(msgCh[f]) \o <<callback[f]>> = Append(Tail(msgCh[f]), callback[f])
        BY <1>1, <1>2, <4>1
      <4>4. Tail(Append(msgCh[f], callback[f])) = Append(Tail(msgCh[f]), callback[f])
        BY <1>1, <4>1, HeadTailAppend
      <4> QED BY <4>2, <4>3, <4>4
    <3> QED BY <3>2, <3>3
  <2> QED BY <2>1, <2>2 DEF TypeInv
<1>7. InTurn(f, Ahead(f)) /\ Complete(f, Ahead(f), delivered[f])
  BY <1>1 DEF TurnInv
<1>8. /\ Head(msgCh[f]) \in Wanted[f] => \A m \in Wanted[f] : m >= Head(msgCh[f])
      /\ Head(msgCh[f]) \notin Wanted[f] =>
            InTurn(f, Ahead(f)') /\ Complete(f, Ahead(f)', delivered[f])
  BY <1>6, <1>7, HeadTurn
<1>9. TurnInv'
  <2>1. \A g \in Finders \ {f} : Ahead(g)' = Ahead(g) /\ pc'[g] = pc[g] /\ result'[g] = result[g]
    BY <1>1 DEF Ahead, TypeInv
  <2>2. pc'[f] = "leaving" \/ (/\ pc'[f] = "search" /\ result'[f] = None
                               /\ InTurn(f, Ahead(f)') /\ Complete(f, Ahead(f)', delivered[f]))
    BY <1>1, <1>8 DEF TypeInv, TurnInv
  <2> QED BY <1>1, <2>1, <2>2 DEF TurnInv, InTurn, Complete
<1>10. ReasonInv'
  <2>1. \A g \in Finders \ {f} : pc'[g] = pc[g] /\ result'[g] = result[g]
    BY <1>1 DEF TypeInv
  <2>2. result[f] = None /\ Head(msgCh[f]) # None
    BY <1>1, <1>2 DEF TurnInv, SeqNo, None
  <2>3. CASE Head(msgCh[f]) \in Wanted[f]
    <3>1. result'[f] = Head(msgCh[f])
      BY <1>1, <2>3 DEF TypeInv
    <3> QED BY <1>1, <1>8, <2>1, <2>2, <2>3, <3>1 DEF ReasonInv
  <2>4. CASE Head(msgCh[f]) \notin Wanted[f]
    BY <1>1, <2>4 DEF ReasonInv
  <2> QED BY <2>3, <2>4
<1> QED BY <1>3, <1>5, <1>9, <1>10

\* A call that leaves is taken from the wait group.
LEMMA LeaveStep ==
    ASSUME Inv, NEW f \in Finders, Leave(f)
    PROVE  Inv'
<1> USE DEF Inv
<1>1. /\ pc[f] = "leaving" /\ pc' = [pc EXCEPT ![f] = "returned"] /\ wg' = wg - 1
      /\ active' = [active EXCEPT ![f] = FALSE]
      /\ UNCHANGED <<stream, delivered, callback, msgCh, expired, result, cancelled, closePc, joinedLate, subs>>
  BY DEF Leave, Part, server
<1>2. f \in Inside /\ Inside' = Inside \ {f}
  BY <1>1 DEF Inside, TypeInv
<1>3. GroupInv' /\ wg' \in Nat
  <2>1. Cardinality(Inside) # 0
    BY <1>2, FS_EmptySet DEF GroupInv
  <2> QED BY <1>1, <1>2, <2>1, FS_RemoveElement DEF GroupInv, TypeInv
<1>4. TypeInv'
  BY <1>1, <1>3 DEF TypeInv
<1>5. CloseInv'
  BY <1>1, <1>2 DEF CloseInv
<1>6. TurnInv'
  BY <1>1, SameTurn DEF TypeInv
<1>7. ReasonInv'
  BY <1>1 DEF ReasonInv, TypeInv
<1> QED BY <1>3, <1>4, <1>5, <1>6, <1>7

\* Close waits until nobody is inside; a new message in the stream concerns
\* nobody yet.
LEMMA CloseOrPublishStep ==
    ASSUME Inv, Publish \/ CloseCancel \/ CloseWait \/ CloseConn
    PROVE  Inv'
<1> USE DEF Inv
<1>1. /\ UNCHANGED <<delivered, callback, msgCh, pc, expired, result, wg, joinedLate, subs>>
      /\ stream' \in 0 .. MaxSeq
      /\ active' \in [Finders -> BOOLEAN] /\ \A f \in Finders : active'[f] => active[f]
      /\ cancelled => cancelled'
  <2>1. CASE Publish
    BY <2>1, BoundAssumption DEF Publish, TypeInv, call, client
  <2>2. CASE CloseCancel
    BY <2>2 DEF CloseCancel, TypeInv, call, server
  <2>3. CASE CloseWait
    BY <2>3 DEF CloseWait, TypeInv, call, server
  <2>4. CASE CloseConn
    BY <2>4 DEF CloseConn, TypeInv, call, server
  <2> QED BY <2>1, <2>2, <2>3, <2>4
<1>2. /\ cancelled' \in BOOLEAN /\ closePc' \in {"open", "waiting", "waited", "closed"}
      /\ cancelled' <=> closePc' # "open"
      /\ \/ closePc' \in {"open", "waiting"}
         \/ closePc' = "waited" /\ wg = 0
         \/ closePc \in {"waited", "closed"}
  <2>1. CASE Publish
    BY <2>1 DEF Publish, TypeInv, CloseInv, client
  <2>2. CASE CloseCancel
    BY <2>2 DEF CloseCancel
  <2>3. CASE CloseWait
    BY <2>3 DEF CloseWait, WaitIsOver, TypeInv, CloseInv
  <2>4. CASE CloseConn
    BY <2>4 DEF CloseConn, TypeInv, CloseInv
  <2> QED BY <2>1, <2>2, <2>3, <2>4
<1>3. TypeInv'
  BY <1>1, <1>2 DEF TypeInv
<1>4. Inside' = Inside
  BY <1>1 DEF Inside
<1>5. wg = 0 => Inside = {}
  BY FS_EmptySet DEF GroupInv
<1>6. GroupInv' /\ CloseInv'
  BY <1>1, <1>2, <1>4, <1>5 DEF GroupInv, CloseInv
<1>7. TurnInv'
  BY <1>1, SameTurn
<1>8. ReasonInv'
  BY <1>1 DEF ReasonInv
<1> QED BY <1>3, <1>6, <1>7, <1>8

\* Every step keeps the invariant.
LEMMA NextInv == Inv /\ [Next]_vars => Inv'
<1> SUFFICES ASSUME Inv, [Next]_vars PROVE Inv'
  OBVIOUS
<1>1. CASE UNCHANGED vars
  <2> USE <1>1 DEF Inv, vars, server, call, client
  <2>1. TypeInv' /\ GroupInv' /\ CloseInv' /\ ReasonInv'
    BY DEF TypeInv, GroupInv, CloseInv, ReasonInv, Inside
  <2>2. TurnInv'
    BY SameTurn
  <2> QED BY <2>1, <2>2
<1>2. CASE Next
  BY <1>2, DeliveryStep, SubscribeStep, EnterStep, TimeStep, ReceiveStep, LeaveStep,
     CloseOrPublishStep DEF Next, CallStep, CloseStep
<1> QED BY <1>1, <1>2

\* The invariant holds in every reachable state.
LEMMA AlwaysInv == Spec => []Inv
BY InitInv, NextInv, PTL DEF Spec

\* FindMessageInStream returns the earliest message that it wants, late
\* acknowledgements or not, and comes back empty only for want of time,
\* because of Close, or because its subscription was refused.
THEOREM AnswersHaveReasons == Spec => []AnswerHasReason
<1>1. Inv => AnswerHasReason
  <2> SUFFICES ASSUME Inv, NEW f \in Finders, pc[f] = "refused"
               PROVE  f \notin subs /\ ~active[f] /\ callback[f] = None
    BY DEF Inv, ReasonInv, AnswerHasReason
  <2>1. Ahead(f) = << >> /\ f \notin subs /\ ~active[f]
    BY DEF Inv, TurnInv
  <2>2. CASE callback[f] = None
    BY <2>1, <2>2
  <2>3. CASE callback[f] # None
    <3>1. msgCh[f] \in Seq(SeqNo) /\ callback[f] \in SeqNo
      BY <2>3 DEF Inv, TypeInv
    <3>2. Ahead(f) # << >>
      BY <2>3, <3>1, AheadFacts DEF Inv
    <3> QED BY <2>1, <3>2
  <2> QED BY <2>2, <2>3
<1> QED BY <1>1, AlwaysInv, PTL

\* Close ends the connection only when no call is left that joined the wait
\* group before Close began.
THEOREM CloseWaits == Spec => []CloseWaitsForCalls
<1>1. Inv => CloseWaitsForCalls
  BY DEF Inv, CloseInv, CloseWaitsForCalls
<1> QED BY <1>1, AlwaysInv, PTL
=============================================================================
