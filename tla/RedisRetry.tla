----------------------------- MODULE RedisRetry -----------------------------
(***************************************************************************)
(* The reads of internal/transport/redis/redis.go that wait for a value:   *)
(* GetWithRetry and GetWithSeqCheck.  One call runs in a test step while   *)
(* the services under test go on writing the key.                          *)
(*                                                                         *)
(* What the key holds is one of: nothing, the empty string, text that is   *)
(* not JSON, or a wallet: its LastSeqNumber and the keys of the maps in    *)
(* it (WalletFullData.Gambling and the like).  The length of the pauses    *)
(* between attempts is left out; what happens during them is not.          *)
(*                                                                         *)
(* A definition named X_Something is X with one plausible slip; it is used *)
(* only to show that the properties notice that slip.                      *)
(***************************************************************************)
EXTENDS Integers, Sequences

CONSTANTS Attempts,       \* r.retryAttempts, as configured; 0 is accepted
          Keys,           \* keys of the maps of a wallet
          MaxSeq,         \* bound: updates of the wallet
          MaxFaults       \* bound: other changes of the key, and failed reads

ASSUME BoundAssumption == Attempts \in Nat /\ MaxSeq \in Nat /\ MaxFaults \in Nat

Wallet == [seq : 1 .. MaxSeq, keys : SUBSET Keys]
NoWallet == [seq |-> 0, keys |-> {}]

VARIABLES
    held,      \* what the key holds: "absent", "empty", "garbage", "wallet"
    wallet,    \* the wallet the services last wrote (external)
    faults,    \* other changes and failed reads so far (external)
    call,      \* "GetWithRetry" or "GetWithSeqCheck"
    awaited,   \* the LastSeqNumber that GetWithSeqCheck waits for
    i,         \* attempts made
    pc,        \* "idle", "try", "pause", "returned"
    lastErr,   \* "nil", "notFound", "getFailed", "badJson"
    result,    \* the value behind the result pointer
    err,       \* what the call returned: "nil" or "error"
    reads,     \* history: the wallets decoded, in order
    sawEmpty   \* history: an attempt read the empty string

service == <<held, wallet, faults>>
asked == <<call, awaited>>
vars == <<service, asked, i, pc, lastErr, result, err, reads, sawEmpty>>

\* No call yet.
Idle ==
    /\ faults = 0
    /\ call = "GetWithRetry" /\ awaited = 0
    /\ i = 0
    /\ pc = "idle"
    /\ lastErr = "nil"
    /\ result = NoWallet
    /\ err = "error"
    /\ reads = << >>
    /\ sawEmpty = FALSE

Init == Idle /\ held \in {"absent", "empty"} /\ wallet = NoWallet

-----------------------------------------------------------------------------
(* The services that write the key (external). *)

WriteWallet ==
    /\ wallet.seq < MaxSeq
    /\ held' = "wallet"
    /\ \E keys \in SUBSET Keys : wallet' = [seq |-> wallet.seq + 1, keys |-> keys]
    /\ UNCHANGED <<faults, asked, i, pc, lastErr, result, err, reads, sawEmpty>>

WriteOther ==
    /\ faults < MaxFaults
    /\ faults' = faults + 1
    /\ held' \in {"absent", "empty", "garbage"} \ {held}
    /\ UNCHANGED <<wallet, asked, i, pc, lastErr, result, err, reads, sawEmpty>>

-----------------------------------------------------------------------------
(* The call, and one pass of its for loop. *)

Begin(how, seq) ==
    /\ pc = "idle"
    /\ call' = how /\ awaited' = seq
    /\ pc' = "try"
    /\ UNCHANGED <<service, i, lastErr, result, err, reads, sawEmpty>>

Trying == pc = "try" /\ i < Attempts

\* An attempt that ends in the pause before the next.
Retry(e) ==
    /\ lastErr' = e
    /\ i' = i + 1
    /\ pc' = "pause"
    /\ UNCHANGED <<result, err, reads>>

\* Get returns "" with ErrKeyNotFound, or the empty string the key holds.
GetNothing ==
    /\ Trying
    /\ held \in {"absent", "empty"}
    /\ Retry(IF held = "absent" THEN "notFound" ELSE "nil")
    /\ sawEmpty' = (sawEmpty \/ held = "empty")
    /\ UNCHANGED <<service, asked>>

GetFails ==
    /\ Trying
    /\ faults < MaxFaults
    /\ faults' = faults + 1
    /\ Retry("getFailed")
    /\ UNCHANGED <<held, wallet, asked, sawEmpty>>

\* continue in a for loop: the attempt counts, but there is no pause.
Count_Forgotten == UNCHANGED i
Count == i' = i + 1

GetGarbage ==
    /\ Trying
    /\ held = "garbage"
    /\ lastErr' = "badJson"
    /\ Count
    /\ UNCHANGED <<service, asked, pc, result, err, reads, sawEmpty>>

\* json.Unmarshal into a value that may hold an earlier wallet: fields are
\* replaced, entries of maps are added to those already there.
Decoded_MapsKept(old, new) == [new EXCEPT !.keys = old.keys]
Decoded(old, new) == [new EXCEPT !.keys = @ \cup old.keys]

\* Whether the call takes the decoded wallet for its answer.
Accepted_NotOlder(w) == call = "GetWithSeqCheck" => w.seq >= awaited
Accepted(w) == call = "GetWithSeqCheck" => w.seq = awaited

GetWallet ==
    /\ Trying
    /\ held = "wallet"
    /\ result' = Decoded(result, wallet)
    /\ reads' = Append(reads, wallet)
    /\ IF Accepted(wallet)
       THEN /\ pc' = "returned" /\ err' = "nil"
            /\ UNCHANGED i
       ELSE /\ pc' = "pause" /\ i' = i + 1
            /\ UNCHANGED err
    /\ UNCHANGED <<service, asked, lastErr, sawEmpty>>

\* time.Sleep(delay); the last attempt pauses too.
Wake ==
    /\ pc = "pause"
    /\ pc' = "try"
    /\ UNCHANGED <<service, asked, i, lastErr, result, err, reads, sawEmpty>>

\* After the loop GetWithRetry returns lastErr, whatever it is, while
\* GetWithSeqCheck makes an error of it.
Exhausted ==
    /\ pc = "try" /\ i = Attempts
    /\ pc' = "returned"
    /\ err' = IF call = "GetWithRetry" /\ lastErr = "nil" THEN "nil" ELSE "error"
    /\ UNCHANGED <<service, asked, i, lastErr, result, reads, sawEmpty>>

-----------------------------------------------------------------------------

CallStep == GetNothing \/ GetFails \/ GetGarbage \/ GetWallet \/ Wake \/ Exhausted

Next ==
    \/ WriteWallet \/ WriteOther \/ CallStep
    \/ \E n \in 1 .. MaxSeq : Begin("GetWithRetry", 0) \/ Begin("GetWithSeqCheck", n)

Spec == Init /\ [][Next]_vars

\* The goroutine of the step keeps running.
FairSpec == Spec /\ WF_vars(CallStep)

-----------------------------------------------------------------------------
\* What a call says of its result is true, although the services overtake the
\* expected number and reads fail in between (redis.go:100, 139-142, 156).
\* GetWithSeqCheck succeeds only with the wallet as it was at the expected
\* number, and fails only after all its attempts, none of which saw that
\* number.  GetWithRetry succeeds with a value that it read; without one only if
\* an attempt read the empty string, or none is configured.
AnswerIsTrue ==
    pc = "returned" =>
        IF call = "GetWithSeqCheck"
        THEN IF err = "nil"
             THEN /\ reads # << >> /\ reads[Len(reads)].seq = awaited
                  /\ result.seq = awaited
             ELSE i = Attempts /\ \A n \in DOMAIN reads : reads[n].seq # awaited
        ELSE err = "nil" => reads # << >> \/ sawEmpty \/ Attempts = 0

\* All attempts decode into one value, so that a wallet read earlier leaves
\* traces in the answer; they are never more than map entries that some read
\* of this call really saw, and nothing of the last read is lost
\* (redis.go:118).
ResultIsMerged ==
    reads # << >> =>
        /\ result.seq = reads[Len(reads)].seq
        /\ reads[Len(reads)].keys \subseteq result.keys
        /\ \A k \in result.keys : \E n \in DOMAIN reads : k \in reads[n].keys
=============================================================================
