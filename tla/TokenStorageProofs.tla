------------------------- MODULE TokenStorageProofs -------------------------
(***************************************************************************)
(* What holds of the token storage for any number of callers, any leeway,  *)
(* and any lives of the tokens.                                            *)
(***************************************************************************)
EXTENDS TokenStorage, TLAPS

TypeInv ==
    /\ now \in Nat /\ token \in Nat /\ expiresAt \in Nat
    /\ writer \in Callers \cup {Nobody}
    /\ pc \in [Callers -> {"idle", "slow", "locked", "sent"}]
    /\ reply \in [Callers -> [id : Nat, exp : Nat]]
    /\ issued \in Nat
    /\ answer \in [Callers -> Nat] /\ floor \in [Callers -> Nat]
    /\ handed \in Nat /\ failedAt \in Nat /\ staleBad \in Nat

\* Only the caller that holds the lock is between the second test and the end
\* of the refresh.
LockInv == \A c \in Callers : pc[c] \in {"locked", "sent"} => writer = c

\* What made it ask for a token still holds when it asks: nobody else stores
\* one meanwhile, and time only makes the token older.
StaleInv == \A c \in Callers : pc[c] = "locked" => expiresAt - now <= Leeway

\* The cached token, and the one that is about to be, are no older than any
\* that was handed out.
OrderInv ==
    /\ handed <= issued
    /\ token # Bad => handed <= token /\ token <= issued
    /\ \A c \in Callers : /\ pc[c] = "sent" => reply[c].id \in {Bad, issued}
                          /\ floor[c] <= handed

\* The empty token is cached from the failure on, for the assumed life.
BadInv ==
    /\ failedAt <= now
    /\ token = Bad => expiresAt = failedAt + Fallback
    /\ BadTokenIsGivenUp

Inv == TypeInv /\ LockInv /\ StaleInv /\ OrderInv /\ NeverAnOlderToken /\ BadInv

-----------------------------------------------------------------------------

\* At first nobody holds the lock and nothing was handed out.
LEMMA InitInv == Init => Inv
<1> SUFFICES ASSUME Init PROVE Inv
  OBVIOUS
<1> USE TimeAssumption DEF Init, Bad
<1>1. TypeInv
  <2>1. token \in Nat /\ expiresAt \in Nat /\ issued \in Nat
    <3>1. CASE token = 0 /\ expiresAt = Fallback /\ issued = 0
      BY <3>1
    <3>2. CASE token = 1 /\ expiresAt \in Lives /\ issued = 1
      BY <3>2
    <3> QED BY <3>1, <3>2
  <2>2. NoReply \in [id : Nat, exp : Nat]
    BY DEF NoReply
  <2>3. /\ answer \in [Callers -> Nat] /\ floor \in [Callers -> Nat]
        /\ reply \in [Callers -> [id : Nat, exp : Nat]]
        /\ pc \in [Callers -> {"idle", "slow", "locked", "sent"}]
    BY <2>2
  <2>4. now \in Nat /\ handed \in Nat /\ failedAt \in Nat /\ staleBad \in Nat
    OBVIOUS
  <2> QED BY <2>1, <2>3, <2>4 DEF TypeInv
<1>2. LockInv /\ StaleInv
  BY DEF LockInv, StaleInv
<1>3. OrderInv /\ NeverAnOlderToken
  BY DEF OrderInv, NeverAnOlderToken
<1>4. staleBad = 0 /\ failedAt = 0 /\ now = 0
  OBVIOUS
<1>5. BadTokenIsGivenUp
  <2>1. Larger(Fallback - Leeway, 1) > 0
    BY DEF Larger
  <2> QED BY <1>4, <2>1 DEF BadTokenIsGivenUp
<1>6. failedAt <= now
  BY <1>4
<1>7. token = Bad => expiresAt = failedAt + Fallback
  <2>1. CASE token = 0 /\ expiresAt = Fallback
    BY <1>4, <2>1
  <2>2. CASE token = 1
    BY <2>2
  <2> QED BY <2>1, <2>2
<1>8. BadInv
  BY <1>5, <1>6, <1>7 DEF BadInv
<1> QED BY <1>1, <1>2, <1>3, <1>8 DEF Inv

\* Time passes: a stored token only comes closer to its expiry.
LEMMA TickStep == Inv /\ Tick => Inv'
<1> SUFFICES ASSUME Inv, Tick PROVE Inv'
  OBVIOUS
<1> USE DEF Inv, Tick
<1>1. TypeInv'
  BY DEF TypeInv
<1>2. LockInv' /\ StaleInv'
  BY TimeAssumption DEF LockInv, StaleInv, TypeInv
<1>3. OrderInv' /\ NeverAnOlderToken'
  BY DEF OrderInv, NeverAnOlderToken
<1>4. BadInv'
  BY DEF BadInv, BadTokenIsGivenUp, TypeInv
<1> QED BY <1>1, <1>2, <1>3, <1>4

\* A call returns the cached token, with a floor that is no more than what has
\* been handed out.
LEMMA CachedStep ==
    ASSUME Inv, NEW c \in Callers, Fresh, Return(c, token, failedAt),
           pc[c] \in {"idle", "slow"},
           UNCHANGED <<now, token, expiresAt, writer, reply, issued, failedAt>>,
           floor' \in [Callers -> Nat],
           floor'[c] \in {floor[c], handed},
           \A d \in Callers \ {c} : floor'[d] = floor[d]
    PROVE  Inv'
<1> USE DEF Inv
<1>1. /\ answer' = [answer EXCEPT ![c] = token]
      /\ pc' = [pc EXCEPT ![c] = "idle"]
      /\ handed' = (IF handed > token THEN handed ELSE token)
      /\ staleBad' = IF token = Bad THEN Larger(staleBad, now - failedAt) ELSE staleBad
  BY DEF Return, Larger
<1>2. now - failedAt \in Nat
  BY DEF BadInv, TypeInv
<1>3. TypeInv'
  BY <1>1, <1>2 DEF TypeInv, Larger
<1>4. LockInv' /\ StaleInv'
  BY <1>1 DEF LockInv, StaleInv, TypeInv
<1>5. handed <= handed' /\ (token # Bad => handed' = token) /\ (token = Bad => handed' = handed)
  BY <1>1 DEF OrderInv, TypeInv, Bad
<1>6. OrderInv'
  <2>1. \A d \in Callers : floor'[d] <= handed'
    BY <1>5, <1>3 DEF OrderInv, TypeInv
  <2>2. handed' <= issued
    BY <1>5 DEF OrderInv, TypeInv
  <2>3. \A d \in Callers : pc'[d] = "sent" => pc[d] = "sent"
    BY <1>1 DEF TypeInv
  <2> QED BY <1>5, <2>1, <2>2, <2>3 DEF OrderInv, TypeInv
<1>7. NeverAnOlderToken'
  <2> SUFFICES ASSUME NEW d \in Callers, answer'[d] # Bad, pc'[d] = "idle"
               PROVE  answer'[d] >= floor'[d]
    BY DEF NeverAnOlderToken
  <2>1. CASE d = c
    BY <1>1, <2>1 DEF OrderInv, TypeInv
  <2>2. CASE d # c
    BY <1>1, <2>2 DEF NeverAnOlderToken, TypeInv
  <2> QED BY <2>1, <2>2
<1>8. BadInv'
  <2>1. token = Bad => now - failedAt < Fallback - Leeway
    BY TimeAssumption DEF Fresh, BadInv, TypeInv
  <2> QED BY <1>1, <1>2, <2>1, TimeAssumption DEF BadInv, BadTokenIsGivenUp, Larger, TypeInv
<1> QED BY <1>3, <1>4, <1>6, <1>7, <1>8

\* A request enters GetToken, or GetToken returns.
LEMMA GetTokenStep ==
    ASSUME Inv, NEW c \in Callers, GetToken(c)
    PROVE  Inv'
<1> USE DEF Inv
<1>1. /\ floor' = [floor EXCEPT ![c] = handed] /\ pc[c] = "idle"
      /\ UNCHANGED <<now, token, expiresAt, writer, reply, issued, failedAt>>
  BY DEF GetToken
<1>2. CASE Fresh
  BY <1>1, <1>2, CachedStep DEF GetToken, TypeInv
<1>3. CASE ~Fresh
  <2>1. pc' = [pc EXCEPT ![c] = "slow"] /\ UNCHANGED <<answer, handed, staleBad>>
    BY <1>3 DEF GetToken
  <2>2. TypeInv'
    BY <1>1, <2>1 DEF TypeInv
  <2>3. LockInv' /\ StaleInv'
    BY <1>1, <2>1 DEF LockInv, StaleInv, TypeInv
  <2>4. OrderInv'
    BY <1>1, <2>1 DEF OrderInv, TypeInv
  <2>5. NeverAnOlderToken'
    BY <1>1, <2>1 DEF NeverAnOlderToken, TypeInv
  <2>6. BadInv'
    BY <1>1, <2>1 DEF BadInv, BadTokenIsGivenUp
  <2> QED BY <2>2, <2>3, <2>4, <2>5, <2>6
<1> QED BY <1>2, <1>3

\* A request takes the read or the write lock.
LEMMA LockStep ==
    ASSUME Inv, NEW c \in Callers, LockAndTest(c)
    PROVE  Inv'
<1> USE DEF Inv
<1>1. /\ pc[c] = "slow" /\ writer = Nobody
      /\ UNCHANGED <<now, token, expiresAt, reply, issued, floor, failedAt>>
  BY DEF LockAndTest, Free
<1>2. CASE Fresh
  BY <1>1, <1>2, CachedStep DEF LockAndTest, StillFresh, TypeInv
<1>3. CASE ~Fresh
  <2>1. /\ writer' = c /\ pc' = [pc EXCEPT ![c] = "locked"]
        /\ UNCHANGED <<answer, handed, staleBad>>
    BY <1>3 DEF LockAndTest, StillFresh
  <2>2. \A d \in Callers : pc[d] \notin {"locked", "sent"}
    BY <1>1, CallerAssumption DEF LockInv
  <2>3. TypeInv'
    BY <1>1, <2>1 DEF TypeInv
  <2>4. LockInv'
    BY <2>1, <2>2 DEF LockInv, TypeInv
  <2>5. StaleInv'
    <3>1. expiresAt - now <= Leeway
      BY <1>3, TimeAssumption DEF Fresh, TypeInv
    <3> QED BY <1>1, <2>1, <3>1 DEF StaleInv, TypeInv
  <2>6. OrderInv'
    BY <1>1, <2>1 DEF OrderInv, TypeInv
  <2>7. NeverAnOlderToken'
    BY <1>1, <2>1 DEF NeverAnOlderToken, TypeInv
  <2>8. BadInv'
    BY <1>1, <2>1 DEF BadInv, BadTokenIsGivenUp
  <2> QED BY <2>3, <2>4, <2>5, <2>6, <2>7, <2>8
<1> QED BY <1>2, <1>3

\* CheckAdmin answers, or fails, to the request that holds the lock.
LEMMA CheckAdminStep ==
    ASSUME Inv, NEW c \in Callers, CheckAdmin(c)
    PROVE  Inv'
<1> USE DEF Inv
<1>1. /\ pc[c] = "locked" /\ pc' = [pc EXCEPT ![c] = "sent"]
      /\ UNCHANGED <<now, token, expiresAt, writer, answer, handed, floor, failedAt, staleBad>>
  BY DEF CheckAdmin
<1>2. PICK a \in Answers : reply' = [reply EXCEPT ![c] = a] /\ issued' = Larger(issued, a.id)
  BY DEF CheckAdmin
<1>3. /\ a \in [id : Nat, exp : Nat]
      /\ a.id \in {Bad, issued + 1}
      /\ issued' \in Nat /\ issued <= issued'
      /\ a.id \in {Bad, issued'}
  BY <1>2, TimeAssumption DEF Answers, TypeInv, Larger, Bad
<1>4. TypeInv'
  BY <1>1, <1>2, <1>3 DEF TypeInv
<1>5. LockInv' /\ StaleInv'
  BY <1>1 DEF LockInv, StaleInv, TypeInv
<1>6. OrderInv'
  <2>1. ASSUME NEW d \in Callers, pc'[d] = "sent" PROVE reply'[d].id \in {Bad, issued'}
    <3>1. d = c
      BY <1>1, <2>1 DEF LockInv, TypeInv
    <3> QED BY <1>2, <1>3, <3>1 DEF TypeInv
  <2> QED BY <1>1, <1>3, <2>1 DEF OrderInv, TypeInv
<1>7. NeverAnOlderToken'
  BY <1>1 DEF NeverAnOlderToken, TypeInv
<1>8. BadInv'
  BY <1>1 DEF BadInv, BadTokenIsGivenUp
<1> QED BY <1>4, <1>5, <1>6, <1>7, <1>8

\* The request that holds the write lock stores what CheckAdmin gave it.
LEMMA StoreStep ==
    ASSUME Inv, NEW c \in Callers, StoreToken(c)
    PROVE  Inv'
<1> USE DEF Inv
<1> DEFINE id == reply[c].id
<1>1. /\ pc[c] = "sent" /\ writer = c
      /\ id \in Nat /\ reply[c].exp \in Nat /\ id \in {Bad, issued}
  BY DEF StoreToken, LockInv, OrderInv, TypeInv
<1>2. /\ token' = id /\ writer' = Nobody
      /\ expiresAt' = IF id = Bad THEN now + Fallback ELSE reply[c].exp
      /\ failedAt' = IF id = Bad THEN now ELSE failedAt
      /\ answer' = [answer EXCEPT ![c] = id]
      /\ handed' = (IF handed > id THEN handed ELSE id)
      /\ staleBad' = IF id = Bad THEN Larger(staleBad, now - now) ELSE staleBad
      /\ pc' = [pc EXCEPT ![c] = "idle"]
      /\ reply' = [reply EXCEPT ![c] = NoReply]
      /\ UNCHANGED <<now, issued, floor>>
  BY DEF StoreToken, Expiry, Unlock, Return, Larger
<1>3. \A d \in Callers : pc'[d] \notin {"locked", "sent"}
  BY <1>1, <1>2 DEF LockInv, TypeInv
<1> HIDE DEF id
<1>4. TypeInv'
  BY <1>1, <1>2, TimeAssumption DEF TypeInv, Larger, NoReply, Bad
<1>5. LockInv' /\ StaleInv'
  BY <1>3 DEF LockInv, StaleInv
<1>6. OrderInv'
  <2>1. /\ handed <= handed' /\ handed' <= issued
        /\ id # Bad => handed' = id
    BY <1>1, <1>2 DEF OrderInv, TypeInv, Bad
  <2>2. \A d \in Callers : floor'[d] <= handed'
    BY <1>2, <1>4, <2>1 DEF OrderInv, TypeInv
  <2> QED BY <1>1, <1>2, <1>3, <2>1, <2>2 DEF OrderInv, TypeInv
<1>7. NeverAnOlderToken'
  <2> SUFFICES ASSUME NEW d \in Callers, answer'[d] # Bad, pc'[d] = "idle"
               PROVE  answer'[d] >= floor'[d]
    BY DEF NeverAnOlderToken
  <2>1. CASE d = c
    <3>1. answer'[d] = issued
      BY <1>1, <1>2, <2>1 DEF TypeInv
    <3> QED BY <1>2, <3>1 DEF OrderInv, TypeInv
  <2>2. CASE d # c
    BY <1>2, <2>2 DEF NeverAnOlderToken, TypeInv
  <2> QED BY <2>1, <2>2
<1>8. BadInv'
  BY <1>1, <1>2, TimeAssumption DEF BadInv, BadTokenIsGivenUp, Larger, TypeInv
<1> QED BY <1>4, <1>5, <1>6, <1>7, <1>8

-----------------------------------------------------------------------------
(* The theorems. *)

\* Every state the storage reaches satisfies the invariant.
LEMMA Inductive == Spec => []Inv
<1>1. Inv /\ [Next]_vars => Inv'
  <2> SUFFICES ASSUME Inv, [Next]_vars PROVE Inv'
    OBVIOUS
  <2>1. CASE Tick
    BY <2>1, TickStep
  <2>2. ASSUME NEW c \in Callers, GetToken(c) PROVE Inv'
    BY <2>2, GetTokenStep
  <2>3. ASSUME NEW c \in Callers, Continue(c) PROVE Inv'
    BY <2>3, LockStep, CheckAdminStep, StoreStep DEF Continue
  <2>4. CASE UNCHANGED vars
    BY <2>4 DEF vars, Inv, TypeInv, LockInv, StaleInv, OrderInv, NeverAnOlderToken, BadInv,
                BadTokenIsGivenUp
  <2> QED BY <2>1, <2>2, <2>3, <2>4 DEF Next
<1> QED BY <1>1, InitInv, PTL DEF Spec

\* No call gets an older token than one handed out before it began, unless it
\* is the empty one (token_storage.go:67-79).
THEOREM TokensAreInOrder == Spec => []NeverAnOlderToken
<1>1. Inv => NeverAnOlderToken
  BY DEF Inv
<1> QED BY <1>1, Inductive, PTL

\* The empty token of a failed refresh is not handed out once the assumed life,
\* less the leeway, is over (token_storage.go:88-94).
THEOREM BadTokenEnds == Spec => []BadTokenIsGivenUp
<1>1. Inv => BadTokenIsGivenUp
  BY DEF Inv, BadInv
<1> QED BY <1>1, Inductive, PTL

\* A token is asked for only when the cached one has no more than the leeway
\* left, however many calls found it stale (token_storage.go:71-75).
THEOREM RefreshesAreNeeded == Spec => OneRefreshPerExpiry
<1> DEFINE Needed == issued' # issued => expiresAt - now <= Leeway
<1>1. Inv /\ [Next]_vars => [Needed]_vars
  <2> SUFFICES ASSUME Inv, Next, issued' # issued PROVE expiresAt - now <= Leeway
    BY DEF Needed
  <2>1. PICK c \in Callers : CheckAdmin(c)
    BY DEF Next, Tick, GetToken, Continue, LockAndTest, StoreToken
  <2> QED BY <2>1 DEF CheckAdmin, Inv, StaleInv
<1>2. Inv /\ [Next]_vars => [issued' # issued => expiresAt - now <= Leeway]_vars
  BY <1>1 DEF Needed
<1> QED BY <1>2, Inductive, PTL DEF Spec, OneRefreshPerExpiry
=============================================================================
