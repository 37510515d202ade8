----------------------------- MODULE Onboarding -----------------------------
(***************************************************************************)
(* How parallel suites create the players they test with:                  *)
(* CreateVerifiedPlayer and CreatePlayerWithFullRegistration of            *)
(* pkg/utils/default_steps, and the services they talk to as far as the    *)
(* steps see them.                                                         *)
(*                                                                         *)
(* An action is one step of the function (one WithNewStep).  Calls of the  *)
(* clients appear as what their own modules show them to do:               *)
(* FindMessageByFilter returns the oldest matching message of the topic    *)
(* (KafkaConsumer), FindMessageInStream the oldest in the stream           *)
(* (NatsFinder), GetWithSeqCheck a wallet with exactly the number it was   *)
(* given (RedisRetry).  A step whose Require fails ends the call.          *)
(*                                                                         *)
(* A definition named X_Something is X with one plausible slip; it is used *)
(* only to show that the properties notice that slip.                      *)
(***************************************************************************)
EXTENDS Integers, Sequences, FiniteSets

CONSTANTS Suites,
          Kind,        \* Kind[s]: "verified" or "full", the function s calls
          Deposits,    \* suites that ask for a deposit
          Phones,      \* numbers the generator can give
          MaxTime,     \* bound: seconds
          MaxFaults    \* bound: calls that are refused or time out, answers that are lost

ASSUME SuiteAssumption == /\ IsFiniteSet(Suites)
                          /\ Kind \in [Suites -> {"verified", "full"}]
                          /\ Deposits \subseteq {s \in Suites : Kind[s] = "verified"}
ASSUME BoundAssumption == MaxTime \in Nat /\ MaxFaults \in Nat

\* The steps of CreateVerifiedPlayer, in their order.
VerifiedProgram ==
    << "requestPhone", "phoneCode", "verifyPhone", "register", "signUp", "authorize",
       "identity", "status", "approve", "requestEmail", "emailCode", "confirmEmail",
       "betLimit", "turnoverLimit", "wallets", "deposit", "depositEvent", "readWallet" >>

\* The steps of CreatePlayerWithFullRegistration.
FullProgram ==
    << "requestPhone", "phoneCode", "verifyPhone", "register", "signUp", "authorize",
       "wallets", "readWallet" >>

Nothing == 0

\* A number that was drawn is never the empty string.
ASSUME PhoneAssumption == Nothing \notin Phones

VARIABLES
    now,          \* seconds
    faults,
    \* the services (external)
    topic,        \* the topic of player messages, oldest first
    outbox,       \* messages the services have yet to publish
    codes,        \* codes issued, in order: [contact, by]; a code is its index
    accounts,     \* registrations, in order: [phone, by]; a player is its index
    events,       \* events[p]: what happened to the wallet of p after its creation
    announced,    \* announced[p]: how many of them the NATS stream has
    applied,      \* applied[p]: how many of them the wallet in Redis shows
    \* registrationData of each call
    step,         \* position in the program of s
    outcome,      \* "running", "returned", "failed", "panicked"
    phone, email, code, player, token, documents, walletOf, expectedSeq,
    data          \* what the call returned

services == <<topic, outbox, codes, accounts, events, announced, applied>>
local == <<phone, email, code, player, token, documents, walletOf, expectedSeq>>
vars == <<now, faults, services, step, outcome, local, data>>

Program(s) == IF Kind[s] = "verified" THEN VerifiedProgram ELSE FullProgram

Players == 1 .. Cardinality(Suites)
NoData == [auth |-> Nothing, of |-> Nothing, shows |-> 0]

Init ==
    /\ now = 1
    /\ faults = 0
    /\ topic = << >> /\ outbox = {} /\ codes = << >> /\ accounts = << >>
    /\ events = [p \in Players |-> << >>]
    /\ announced = [p \in Players |-> 0]
    /\ applied = [p \in Players |-> 0]
    /\ step = [s \in Suites |-> 1]
    /\ outcome = [s \in Suites |-> "running"]
    /\ phone = [s \in Suites |-> Nothing]
    /\ email = [s \in Suites |-> Nothing]
    /\ code = [s \in Suites |-> Nothing]
    /\ player = [s \in Suites |-> Nothing]
    /\ token = [s \in Suites |-> Nothing]
    /\ documents = [s \in Suites |-> 0]
    /\ walletOf = [s \in Suites |-> Nothing]
    /\ expectedSeq = [s \in Suites |-> Nothing]
    /\ data = [s \in Suites |-> NoData]

-----------------------------------------------------------------------------
(* The services under test (external). *)

Tick ==
    /\ now < MaxTime
    /\ now' = now + 1
    /\ UNCHANGED <<faults, services, step, outcome, local, data>>

Publish ==
    /\ \E m \in outbox : topic' = Append(topic, m) /\ outbox' = outbox \ {m}
    /\ UNCHANGED <<now, faults, codes, accounts, events, announced, applied,
                   step, outcome, local, data>>

\* The wallet's next event reaches the NATS stream, or the wallet in Redis:
\* two consumers of their own, neither of which waits for the other.
Announce(p) ==
    /\ announced[p] < Len(events[p])
    /\ announced' = [announced EXCEPT ![p] = @ + 1]
    /\ UNCHANGED <<now, faults, topic, outbox, codes, accounts, events, applied,
                   step, outcome, local, data>>

Apply(p) ==
    /\ applied[p] < Len(events[p])
    /\ applied' = [applied EXCEPT ![p] = @ + 1]
    /\ UNCHANGED <<now, faults, topic, outbox, codes, accounts, events, announced,
                   step, outcome, local, data>>

\* The number of the deposit in the stream, if it is there.
DepositSeqs(p) == {n \in 1 .. announced[p] : events[p][n] = "deposit"}

\* A code for contact, asked for by s, whose message is published later.
IssueCode(s, type, contact) ==
    /\ codes' = Append(codes, [contact |-> contact, by |-> s])
    /\ outbox' = outbox \cup {[type |-> type, contact |-> contact, id |-> Len(codes) + 1]}

\* The services accept the last code issued for a contact and no code of
\* another one; whether they still accept an earlier one is theirs to say.
Foreign(n, contact) == codes[n].contact # contact
Superseded(n) == \E later \in DOMAIN codes : later > n /\ codes[later].contact = codes[n].contact
Verdicts(n, contact) ==
    (IF Foreign(n, contact) THEN {} ELSE {"accepted"})
        \cup (IF Foreign(n, contact) \/ Superseded(n) THEN {"refused"} ELSE {})

-----------------------------------------------------------------------------
(* The steps of a call. *)

At(s, name) == outcome[s] = "running" /\ Program(s)[step[s]] = name

GoOn(s) ==
    /\ step' = [step EXCEPT ![s] = @ + 1]
    /\ UNCHANGED <<outcome, data>>

Ends(s, how) ==
    /\ outcome' = [outcome EXCEPT ![s] = how]
    /\ UNCHANGED <<step, data>>

\* The services have done what s asked for.  When their answer is lost, the call
\* ends all the same: past the step whose request was done.
Answered(s) ==
    \/ GoOn(s) /\ UNCHANGED faults
    \/ /\ faults < MaxFaults
       /\ faults' = faults + 1
       /\ step' = [step EXCEPT ![s] = @ + 1]
       /\ outcome' = [outcome EXCEPT ![s] = "failed"]
       /\ UNCHANGED data

\* FindMessageByFilter: the oldest message of the type that passes the filter.
Passes_Any(m, type, contact) == m.type = type
Passes(m, type, contact) == m.type = type /\ m.contact = contact
Found(type, contact) == {n \in DOMAIN topic : Passes(topic[n], type, contact)}
Oldest(type, contact) ==
    topic[CHOOSE n \in Found(type, contact) : \A k \in Found(type, contact) : n <= k].id

\* The services do nothing and the status is not the expected one, or the wait
\* ends without a message: a Require ends the call.  The step that waits for the e-mail's code has none.
StepFails(s) ==
    /\ outcome[s] = "running"
    /\ ~At(s, "emailCode")
    /\ faults < MaxFaults
    /\ faults' = faults + 1
    /\ Ends(s, "failed")
    /\ UNCHANGED <<now, services, local>>

RequestPhone(s) ==
    /\ At(s, "requestPhone")
    /\ \E number \in Phones :
          /\ phone' = [phone EXCEPT ![s] = number]
          /\ IssueCode(s, "phone", number)
    /\ Answered(s)
    /\ UNCHANGED <<now, topic, accounts, events, announced, applied, email, code,
                   player, token, documents, walletOf, expectedSeq>>

TakePhoneCode(s) ==
    /\ At(s, "phoneCode")
    /\ Found("phone", phone[s]) # {}
    /\ code' = [code EXCEPT ![s] = Oldest("phone", phone[s])]
    /\ GoOn(s)
    /\ UNCHANGED <<now, faults, services, phone, email, player, token, documents, walletOf,
                   expectedSeq>>

VerifyPhone(s) ==
    /\ At(s, "verifyPhone")
    /\ \E verdict \in Verdicts(code[s], phone[s]) :
          IF verdict = "accepted" THEN GoOn(s) ELSE Ends(s, "failed")
    /\ UNCHANGED <<now, faults, services, local>>

\* The services register a number once.  The answer must be 201.
Taken(number) == \E p \in DOMAIN accounts : accounts[p].phone = number
CreatedRequired_No(s) == FALSE
CreatedRequired(s) == Taken(phone[s])

Register(s) ==
    /\ At(s, "register")
    /\ IF Taken(phone[s])
       THEN UNCHANGED <<accounts, outbox>>
       ELSE /\ accounts' = Append(accounts, [phone |-> phone[s], by |-> s])
            /\ outbox' = outbox \cup {[type |-> "signUp", contact |-> phone[s],
                                       id |-> Len(accounts) + 1]}
    /\ IF CreatedRequired(s) THEN Ends(s, "failed") /\ UNCHANGED faults ELSE Answered(s)
    /\ UNCHANGED <<now, topic, codes, events, announced, applied, local>>

TakeSignUp(s) ==
    /\ At(s, "signUp")
    /\ Found("signUp", phone[s]) # {}
    /\ player' = [player EXCEPT ![s] = Oldest("signUp", phone[s])]
    /\ GoOn(s)
    /\ UNCHANGED <<now, faults, services, phone, email, code, token, documents, walletOf,
                   expectedSeq>>

\* TokenCheck with the number and the password that all calls use.
Authorize(s) ==
    /\ At(s, "authorize")
    /\ \E p \in DOMAIN accounts :
          accounts[p].phone = phone[s] /\ token' = [token EXCEPT ![s] = p]
    /\ GoOn(s)
    /\ UNCHANGED <<now, faults, services, phone, email, code, player, documents, walletOf,
                   expectedSeq>>

VerifyIdentity(s) ==
    /\ At(s, "identity")
    /\ GoOn(s)
    /\ UNCHANGED <<now, faults, services, local>>

\* The status is 200, whether or not the document is already listed.
GetVerificationStatus(s) ==
    /\ At(s, "status")
    /\ \/ documents' = [documents EXCEPT ![s] = 1] /\ UNCHANGED faults
       \/ faults < MaxFaults /\ faults' = faults + 1 /\ UNCHANGED documents
    /\ GoOn(s)
    /\ UNCHANGED <<now, services, phone, email, code, player, token, walletOf, expectedSeq>>

\* verifications.Body[0] panics on an empty list.
UpdateVerificationStatus(s) ==
    /\ At(s, "approve")
    /\ IF documents[s] = 0 THEN Ends(s, "panicked") ELSE GoOn(s)
    /\ UNCHANGED <<now, faults, services, local>>

\* test<seconds>@example.com
RequestEmail(s) ==
    /\ At(s, "requestEmail")
    /\ email' = [email EXCEPT ![s] = now]
    /\ IssueCode(s, "email", now)
    /\ Answered(s)
    /\ UNCHANGED <<now, topic, accounts, events, announced, applied, phone, code,
                   player, token, documents, walletOf, expectedSeq>>

\* Found, or not: this step requires nothing.
TakeEmailCode(s) ==
    /\ At(s, "emailCode")
    /\ \/ /\ Found("email", email[s]) # {}
          /\ code' = [code EXCEPT ![s] = Oldest("email", email[s])]
          /\ UNCHANGED faults
       \/ /\ faults < MaxFaults
          /\ faults' = faults + 1
          /\ code' = [code EXCEPT ![s] = Nothing]
    /\ GoOn(s)
    /\ UNCHANGED <<now, services, phone, email, player, token, documents, walletOf, expectedSeq>>

\* The error of GetConfirmationContext is dropped and its nil result used.
ConfirmEmail(s) ==
    /\ At(s, "confirmEmail")
    /\ IF code[s] = Nothing
       THEN Ends(s, "panicked")
       ELSE \E verdict \in Verdicts(code[s], email[s]) :
               IF verdict = "accepted" THEN GoOn(s) ELSE Ends(s, "failed")
    /\ UNCHANGED <<now, faults, services, local>>

\* SetSingleBetLimit and SetTurnoverLimit: the wallet learns of it later.
SetLimit(s) ==
    /\ At(s, "betLimit") \/ At(s, "turnoverLimit")
    /\ events' = [events EXCEPT ![token[s]] = Append(@, "limit")]
    /\ Answered(s)
    /\ UNCHANGED <<now, topic, outbox, codes, accounts, announced, applied, local>>

\* GetWithRetry of the player's wallets; a key that holds the empty string
\* leaves the map empty, which only the full registration notices.
WalletRequired(s) == Kind[s] = "full"

GetWallets(s) ==
    /\ At(s, "wallets")
    /\ \/ /\ walletOf' = [walletOf EXCEPT ![s] = player[s]]
          /\ GoOn(s)
          /\ UNCHANGED faults
       \/ /\ faults < MaxFaults
          /\ faults' = faults + 1
          /\ UNCHANGED walletOf
          /\ IF WalletRequired(s) THEN Ends(s, "failed") ELSE GoOn(s)
    /\ UNCHANGED <<now, services, phone, email, code, player, token, documents, expectedSeq>>

CreateDeposit(s) ==
    /\ At(s, "deposit")
    /\ IF s \in Deposits
       THEN events' = [events EXCEPT ![token[s]] = Append(@, "deposit")] /\ Answered(s)
       ELSE UNCHANGED <<events, faults>> /\ GoOn(s)
    /\ UNCHANGED <<now, topic, outbox, codes, accounts, announced, applied, local>>

\* FindMessageInStream with the subject of the player.
TakeDepositEvent(s) ==
    /\ At(s, "depositEvent")
    /\ IF s \in Deposits
       THEN \E n \in DepositSeqs(player[s]) : expectedSeq' = [expectedSeq EXCEPT ![s] = n]
       ELSE UNCHANGED expectedSeq
    /\ GoOn(s)
    /\ UNCHANGED <<now, faults, services, phone, email, code, player, token, documents, walletOf>>

\* GetWithSeqCheck after a deposit, GetWithRetry otherwise.
Acceptable_Any(s, seq) == TRUE
Acceptable_Next(s, seq) == s \in Deposits => seq = expectedSeq[s] + 1
Acceptable(s, seq) == s \in Deposits => seq = expectedSeq[s]

\* Without a wallet the key is the empty string, which Redis does not have;
\* a wallet that has moved on never has the expected number.
ReadWallet(s) ==
    /\ At(s, "readWallet")
    /\ IF walletOf[s] = Nothing
       THEN Ends(s, "failed")
       ELSE LET seq == applied[walletOf[s]] IN
            \/ /\ Acceptable(s, seq)
               /\ data' = [data EXCEPT ![s] = [auth |-> token[s], of |-> walletOf[s], shows |-> seq]]
               /\ outcome' = [outcome EXCEPT ![s] = "returned"]
               /\ UNCHANGED step
            \/ ~Acceptable(s, seq) /\ seq > expectedSeq[s] /\ Ends(s, "failed")
    /\ UNCHANGED <<now, faults, services, local>>

-----------------------------------------------------------------------------

CallStep(s) ==
    \/ RequestPhone(s) \/ TakePhoneCode(s) \/ VerifyPhone(s) \/ Register(s) \/ TakeSignUp(s)
    \/ Authorize(s) \/ VerifyIdentity(s) \/ GetVerificationStatus(s)
    \/ UpdateVerificationStatus(s) \/ RequestEmail(s) \/ TakeEmailCode(s) \/ ConfirmEmail(s)
    \/ SetLimit(s) \/ GetWallets(s) \/ CreateDeposit(s) \/ TakeDepositEvent(s) \/ ReadWallet(s)

Next ==
    \/ Tick \/ Publish
    \/ \E p \in Players : Announce(p) \/ Apply(p)
    \/ \E s \in Suites : CallStep(s) \/ StepFails(s)

Spec == Init /\ [][Next]_vars

\* Calls go on, and the services publish and apply what they accepted.
FairSpec ==
    /\ Spec
    /\ WF_vars(Publish)
    /\ \A p \in Players : WF_vars(Announce(p)) /\ WF_vars(Apply(p))
    /\ \A s \in Suites : WF_vars(CallStep(s))

-----------------------------------------------------------------------------

\* The contacts that s shares with another call.
Shares(s) == \E t \in Suites \ {s} :
                \/ phone[t] = phone[s] /\ phone[s] # Nothing
                \/ email[t] = email[s] /\ email[s] # Nothing

\* A call returns the player that it registered itself, with the session, the
\* sign-up message and the wallet all of that one player, although parallel
\* calls read the same topic and may draw the same number
\* (create_veryfied_player.go:138-148, 157-163, 347-365).
ReturnsOwnPlayer ==
    \A s \in Suites : outcome[s] = "returned" =>
        /\ data[s].auth = data[s].of
        /\ accounts[data[s].auth].by = s

\* The code a call confirms with was issued for another call only if both use
\* the same contact: the same number, or an e-mail made in the same second
\* (create_veryfied_player.go:76-79, 224, 235-238).
ForeignCodeNeedsSharedContact ==
    \A s \in Suites : code[s] # Nothing /\ codes[code[s]].by # s => Shares(s)

\* A call that asked for a deposit returns the wallet as the deposit left it:
\* with the money and with both limits, although the event is in the stream
\* before the wallet in Redis shows it (create_veryfied_player.go:329-366).
DepositIsInWallet ==
    \A s \in Deposits : outcome[s] = "returned" =>
        LET shown == {events[data[s].of][n] : n \in 1 .. data[s].shows} IN
        /\ shown = {"limit", "deposit"}
        /\ data[s].shows = 3

\* When the services refuse nothing and publish everything, every call ends,
\* and it ends with its player unless it shares a contact with another one: no
\* other call can take its messages away, and its own events do not overtake
\* the wallet it waits for.
CallSucceeds ==
    \A s \in Suites :
        <>(outcome[s] = "returned" \/ (outcome[s] = "failed" /\ Shares(s)) \/ faults > 0)
=============================================================================
