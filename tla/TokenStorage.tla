---------------------------- MODULE TokenStorage ----------------------------
(***************************************************************************)
(* The cache of the CAP administrator's token, TokenStorage of             *)
(* internal/client/cap/token_storage.go.  The test steps of a suite share  *)
(* one CAP client and call GetToken concurrently.                          *)
(*                                                                         *)
(* The read under RLock is one step: it only reads.  The section under     *)
(* Lock contains an HTTP request and is several; writer names the call     *)
(* that holds the lock.  Tokens are numbered in the order in which the     *)
(* server issues them; Bad stands for the empty token of a failed request  *)
(* and for one that parseJWT cannot read.                                  *)
(*                                                                         *)
(* A definition named X_Something is X with one plausible slip; it is used *)
(* only to show that the properties notice that slip.                      *)
(***************************************************************************)
EXTENDS Integers

CONSTANTS Callers,
          Leeway,      \* 3 minutes
          Fallback,    \* 30 minutes: the life assumed for a token that does not parse
          Lives,       \* the lives the server may give a token
          MaxTime,     \* bound: time
          MaxCalls     \* bound: calls of GetToken per caller

ASSUME TimeAssumption ==
    /\ Leeway \in Nat
    /\ Fallback \in Nat \ {0}
    /\ Lives \subseteq Nat
    /\ MaxTime \in Nat
    /\ MaxCalls \in Nat

Nobody == "nobody"
ASSUME CallerAssumption == Nobody \notin Callers

Bad == 0
NoReply == [id |-> Bad, exp |-> 0]

VARIABLES
    now,
    token, expiresAt,   \* s.token, s.expiresAt
    writer,             \* the caller that holds s.mu for writing, or Nobody
    pc,                 \* pc[c]: "idle", "slow", "locked", "sent"
    reply,              \* reply[c]: what the server answered to c
    calls,              \* calls[c]: calls of c so far
    issued,             \* tokens issued by the server
    \* history
    answer,             \* answer[c]: what the last call of c returned
    handed,             \* the newest token any call has returned
    floor,              \* floor[c]: handed when the call of c began
    failedAt,           \* when a refresh last failed
    staleBad            \* how long after that a call was given Bad, at most

vars == <<now, token, expiresAt, writer, pc, reply, calls, issued,
          answer, handed, floor, failedAt, staleBad>>

Larger(a, b) == IF a > b THEN a ELSE b

\* What the server may answer to a request for a token sent now.
Answers == {[id |-> issued + 1, exp |-> now + life] : life \in Lives}
             \cup {[id |-> Bad, exp |-> now]}

\* NewTokenStorage refreshes once, before anyone shares the storage.
Init ==
    /\ now = 0
    /\ \/ token = Bad /\ expiresAt = Fallback /\ issued = 0
       \/ token = 1 /\ expiresAt \in Lives /\ issued = 1
    /\ writer = Nobody
    /\ pc = [c \in Callers |-> "idle"]
    /\ reply = [c \in Callers |-> NoReply]
    /\ calls = [c \in Callers |-> 0]
    /\ answer = [c \in Callers |-> Bad]
    /\ handed = Bad
    /\ floor = [c \in Callers |-> Bad]
    /\ failedAt = 0
    /\ staleBad = 0

Tick ==
    /\ now < MaxTime
    /\ now' = now + 1
    /\ UNCHANGED <<token, expiresAt, writer, pc, reply, calls, issued,
                   answer, handed, floor, failedAt, staleBad>>

\* time.Until(s.expiresAt) > 3*time.Minute
Fresh == expiresAt - now > Leeway

Return(c, t, failed) ==
    /\ answer' = [answer EXCEPT ![c] = t]
    /\ handed' = Larger(handed, t)
    /\ staleBad' = IF t = Bad THEN Larger(staleBad, now - failed) ELSE staleBad
    /\ pc' = [pc EXCEPT ![c] = "idle"]

\* GetToken up to RUnlock: the cached token, or on to the lock.
GetToken(c) ==
    /\ pc[c] = "idle"
    /\ calls[c] < MaxCalls
    /\ writer = Nobody
    /\ calls' = [calls EXCEPT ![c] = @ + 1]
    /\ floor' = [floor EXCEPT ![c] = handed]
    /\ IF Fresh
       THEN Return(c, token, failedAt)
       ELSE /\ pc' = [pc EXCEPT ![c] = "slow"]
            /\ UNCHANGED <<answer, handed, staleBad>>
    /\ UNCHANGED <<now, token, expiresAt, writer, reply, issued, failedAt>>

\* s.mu can be taken for writing.
Free_Shared == TRUE
Free == writer = Nobody

\* The second test, under the lock.
StillFresh_Skipped == FALSE
StillFresh == Fresh

LockAndTest(c) ==
    /\ pc[c] = "slow"
    /\ Free
    /\ IF StillFresh
       THEN /\ Return(c, token, failedAt)
            /\ UNCHANGED writer
       ELSE /\ writer' = c
            /\ pc' = [pc EXCEPT ![c] = "locked"]
            /\ UNCHANGED <<answer, handed, staleBad>>
    /\ UNCHANGED <<now, token, expiresAt, reply, calls, issued, floor, failedAt>>

\* refreshToken: the server answers CheckAdmin.
CheckAdmin(c) ==
    /\ pc[c] = "locked"
    /\ \E a \in Answers :
          /\ reply' = [reply EXCEPT ![c] = a]
          /\ issued' = Larger(issued, a.id)
    /\ pc' = [pc EXCEPT ![c] = "sent"]
    /\ UNCHANGED <<now, token, expiresAt, writer, calls, answer, handed, floor, failedAt, staleBad>>

\* The end of the life of the token in r, counted from now if it has no
\* readable one.
Expiry_Late(r) == IF r.id = Bad THEN now + Fallback + Leeway ELSE r.exp
Expiry(r) == IF r.id = Bad THEN now + Fallback ELSE r.exp

\* The deferred Unlock of GetToken.
Unlock_Forgotten == UNCHANGED writer
Unlock == writer' = Nobody

\* The rest of refreshToken, and the return of GetToken.
StoreToken(c) ==
    /\ pc[c] = "sent"
    /\ token' = reply[c].id
    /\ expiresAt' = Expiry(reply[c])
    /\ failedAt' = IF reply[c].id = Bad THEN now ELSE failedAt
    /\ Unlock
    /\ Return(c, reply[c].id, now)
    /\ reply' = [reply EXCEPT ![c] = NoReply]
    /\ UNCHANGED <<now, calls, issued, floor>>

\* A call that has begun.
Continue(c) == LockAndTest(c) \/ CheckAdmin(c) \/ StoreToken(c)

Next == Tick \/ \E c \in Callers : GetToken(c) \/ Continue(c)

Spec == Init /\ [][Next]_vars

\* Go's RWMutex is fair to writers, and the HTTP client has a timeout: every
\* call that waits or is being answered goes on.
FairSpec == Spec /\ \A c \in Callers : SF_vars(LockAndTest(c)) /\ WF_vars(CheckAdmin(c) \/ StoreToken(c))

-----------------------------------------------------------------------------

\* However many calls find the token stale at the same moment, one of them
\* asks for a new one and the others use it: a request is sent only when the
\* cached token has no more than the leeway left (token_storage.go:71-75).
OneRefreshPerExpiry ==
    [][issued' # issued => expiresAt - now <= Leeway]_vars

\* A call never gets an older token than one that had been handed out before
\* it began, unless a refresh has failed.
NeverAnOlderToken ==
    \A c \in Callers : answer[c] # Bad /\ pc[c] = "idle" => answer[c] >= floor[c]

\* A failed refresh empties the cache, and calls get the empty token from it,
\* but only until the leeway before the end of the assumed life; then the next
\* call asks again (token_storage.go:88-94).
BadTokenIsGivenUp == staleBad < Larger(Fallback - Leeway, 1)

\* Every call of GetToken returns.
CallsReturn == \A c \in Callers : pc[c] # "idle" ~> pc[c] = "idle"
=============================================================================
