-------------------------- MODULE OnboardingProofs --------------------------
(***************************************************************************)
(* What a call of the default steps returns, for any number of calls side  *)
(* by side, of either kind, and any numbers they may draw: also for calls  *)
(* that draw the same number or confirm the same e-mail.                   *)
(***************************************************************************)
EXTENDS Onboarding, FiniteSetTheorems, SequenceTheorems, WellFoundedInduction, TLAPS

-----------------------------------------------------------------------------
(* The invariant. *)

Verified(s) == Kind[s] = "verified"
LastStep(s) == IF Verified(s) THEN 18 ELSE 8

Contact == Phones \cup Nat
Message == [type : {"phone", "email", "signUp"}, contact : Contact, id : Nat]
Code == [contact : Contact, by : Suites]
Account == [phone : Phones, by : Suites]

TypeInv ==
    /\ now \in Nat \ {0}
    /\ faults \in Nat
    /\ topic \in Seq(Message)
    /\ outbox \in SUBSET Message
    /\ codes \in Seq(Code)
    /\ accounts \in Seq(Account)
    /\ events \in [Players -> Seq({"limit", "deposit"})]
    /\ announced \in [Players -> Nat]
    /\ applied \in [Players -> Nat]
    /\ step \in [Suites -> Nat \ {0}]
    /\ \A s \in Suites : step[s] <= LastStep(s)
    /\ outcome \in [Suites -> {"running", "returned", "failed", "panicked"}]
    /\ phone \in [Suites -> Phones \cup {Nothing}]
    /\ email \in [Suites -> Nat]
    /\ code \in [Suites -> Nat]
    /\ player \in [Suites -> Nat]
    /\ token \in [Suites -> Nat]
    /\ documents \in [Suites -> {0, 1}]
    /\ walletOf \in [Suites -> Nat]
    /\ expectedSeq \in [Suites -> Nat]
    /\ data \in [Suites -> [auth : Nat, of : Nat, shows : Nat]]

\* A call has a contact from the step on that makes it up.
ContactInv ==
    \A s \in Suites : /\ phone[s] # Nothing <=> step[s] > 1
                      /\ email[s] # Nothing <=> Verified(s) /\ step[s] > 10

\* The services have answered with m, or will.
Sent == {topic[n] : n \in DOMAIN topic} \cup outbox

\* A message brings the code of a call that has this contact, or the account
\* that was made with it.
Truthful(m) ==
    /\ m.contact # Nothing
    /\ m.type = "phone" => m.id \in DOMAIN codes /\ phone[codes[m.id].by] = m.contact
    /\ m.type = "email" => m.id \in DOMAIN codes /\ email[codes[m.id].by] = m.contact
    /\ m.type = "signUp" => m.id \in DOMAIN accounts /\ accounts[m.id].phone = m.contact

MessageInv == \A m \in Sent : Truthful(m)

SameContact(s, t) ==
    \/ phone[s] = phone[t] /\ phone[t] # Nothing
    \/ email[s] = email[t] /\ email[t] # Nothing

CodeInv ==
    \A s \in Suites : code[s] # Nothing =>
        code[s] \in DOMAIN codes /\ SameContact(codes[code[s]].by, s)

\* The account p was made by the call s with its number.
Own(s, p) == p \in DOMAIN accounts /\ accounts[p].by = s /\ accounts[p].phone = phone[s]

Registered == {s \in Suites : step[s] > 4}

\* No more accounts than calls that are past the registration, and no two with
\* one number.
AccountInv ==
    /\ Len(accounts) <= Cardinality(Registered)
    /\ \A p \in DOMAIN accounts : accounts[p].by \in Registered
    /\ \A p, q \in DOMAIN accounts : accounts[p].phone = accounts[q].phone => p = q

OwnInv ==
    \A s \in Suites :
        /\ step[s] > 4 => \E p \in DOMAIN accounts : Own(s, p)
        /\ step[s] > 5 => Own(s, player[s])
        /\ step[s] > 6 => Own(s, token[s])
        /\ walletOf[s] # Nothing => step[s] > 6 /\ walletOf[s] = player[s]

\* What the call s has made happen to the wallet of its player.
Made(s) ==
    CASE step[s] <= 13 -> << >>
      [] step[s] = 14 -> << "limit" >>
      [] step[s] \in {15, 16} \/ (step[s] > 16 /\ s \notin Deposits) -> << "limit", "limit" >>
      [] OTHER -> << "limit", "limit", "deposit" >>

WalletInv ==
    /\ \A p \in Players : announced[p] <= Len(events[p]) /\ applied[p] <= Len(events[p])
    /\ \A p \in Players : events[p] # << >> =>
          \E s \in Suites : Own(s, p) /\ Verified(s) /\ step[s] > 13
    /\ \A s \in Suites : Verified(s) /\ step[s] > 6 => events[token[s]] = Made(s)
    /\ \A s \in Deposits : step[s] > 17 => expectedSeq[s] = 3

ReturnInv ==
    \A s \in Suites : outcome[s] = "returned" =>
        /\ step[s] = LastStep(s)
        /\ walletOf[s] # Nothing
        /\ data[s].auth = token[s] /\ data[s].of = walletOf[s]
        /\ s \in Deposits => data[s].shows = 3

Inv ==
    /\ TypeInv /\ ContactInv /\ MessageInv /\ CodeInv /\ AccountInv /\ OwnInv
    /\ WalletInv /\ ReturnInv

-----------------------------------------------------------------------------
(* Facts about the state. *)

\* The steps have the same places in both programs up to the session.
LEMMA StepOf ==
    ASSUME TypeInv, NEW s \in Suites, outcome[s] = "running"
    PROVE  /\ At(s, "requestPhone") => step[s] = 1
           /\ At(s, "phoneCode") => step[s] = 2
           /\ At(s, "verifyPhone") => step[s] = 3
           /\ At(s, "register") => step[s] = 4
           /\ At(s, "signUp") => step[s] = 5
           /\ At(s, "authorize") => step[s] = 6
           /\ At(s, "identity") => Verified(s) /\ step[s] = 7
           /\ At(s, "status") => Verified(s) /\ step[s] = 8
           /\ At(s, "approve") => Verified(s) /\ step[s] = 9
           /\ At(s, "requestEmail") => Verified(s) /\ step[s] = 10
           /\ At(s, "emailCode") => Verified(s) /\ step[s] = 11
           /\ At(s, "confirmEmail") => Verified(s) /\ step[s] = 12
           /\ At(s, "betLimit") => Verified(s) /\ step[s] = 13
           /\ At(s, "turnoverLimit") => Verified(s) /\ step[s] = 14
           /\ At(s, "wallets") => step[s] = IF Verified(s) THEN 15 ELSE 7
           /\ At(s, "deposit") => Verified(s) /\ step[s] = 16
           /\ At(s, "depositEvent") => Verified(s) /\ step[s] = 17
           /\ At(s, "readWallet") => step[s] = LastStep(s)
<1>1. step[s] \in 1 .. LastStep(s)
  BY DEF TypeInv, LastStep
<1>2. CASE Verified(s)
  <2>1. step[s] \in {1, 2, 3, 4, 5, 6, 7, 8, 9, 10, 11, 12, 13, 14, 15, 16, 17, 18}
    BY <1>1, <1>2 DEF LastStep
  <2>2. Program(s) = VerifiedProgram
    BY <1>2 DEF Program, Verified
  <2> QED BY <1>2, <2>1, <2>2 DEF At, VerifiedProgram, LastStep
<1>3. CASE ~Verified(s)
  <2>1. step[s] \in {1, 2, 3, 4, 5, 6, 7, 8}
    BY <1>1, <1>3 DEF LastStep
  <2>2. Program(s) = FullProgram
    BY <1>3 DEF Program, Verified
  <2> QED BY <1>3, <2>1, <2>2 DEF At, FullProgram, LastStep
<1> QED BY <1>2, <1>3

\* The elements of the services' logs.
LEMMA Elements ==
    ASSUME TypeInv
    PROVE  /\ Len(codes) \in Nat /\ DOMAIN codes = 1 .. Len(codes)
           /\ \A n \in DOMAIN codes : codes[n].by \in Suites
           /\ Len(accounts) \in Nat /\ DOMAIN accounts = 1 .. Len(accounts)
           /\ \A n \in DOMAIN accounts : accounts[n].by \in Suites /\ accounts[n].phone \in Phones
           /\ Len(topic) \in Nat /\ DOMAIN topic = 1 .. Len(topic)
           /\ \A n \in DOMAIN topic : topic[n] \in Message
<1>1. /\ topic \in Seq(Message)
      /\ codes \in Seq(Code)
      /\ accounts \in Seq(Account)
  BY DEF TypeInv
<1>2. \A n \in DOMAIN codes : codes[n] \in Code
  BY <1>1
<1>3. \A n \in DOMAIN accounts : accounts[n] \in Account
  BY <1>1
<1> QED BY <1>1, <1>2, <1>3 DEF Code, Account

\* There is a player for every account.
LEMMA AccountIsPlayer ==
    ASSUME TypeInv, AccountInv
    PROVE  DOMAIN accounts \subseteq Players
<1>1. Registered \in SUBSET Suites
  BY DEF Registered
<1>2. /\ Cardinality(Registered) <= Cardinality(Suites)
      /\ Cardinality(Registered) \in Nat /\ Cardinality(Suites) \in Nat
  BY <1>1, SuiteAssumption, FS_Subset, FS_CardinalityType
<1>3. Len(accounts) \in Nat /\ DOMAIN accounts = 1 .. Len(accounts)
  BY DEF TypeInv
<1> QED BY <1>2, <1>3 DEF AccountInv, Players

\* A call has one account.
LEMMA OwnIsOne ==
    ASSUME AccountInv, NEW s, NEW p, NEW q, Own(s, p), Own(s, q)
    PROVE  p = q
BY DEF AccountInv, Own

\* What was issued, registered and made up stays as it is.
Kept ==
    /\ \A n \in DOMAIN codes : n \in DOMAIN codes' /\ codes'[n] = codes[n]
    /\ \A n \in DOMAIN accounts : n \in DOMAIN accounts' /\ accounts'[n] = accounts[n]
    /\ \A s \in Suites : /\ phone[s] # Nothing => phone'[s] = phone[s]
                         /\ email[s] # Nothing => email'[s] = email[s]

\* What a message says stays true.
LEMMA TruthIsKept ==
    ASSUME TypeInv, Kept, NEW m, Truthful(m)
    PROVE  Truthful(m)'
<1>1. \A n \in DOMAIN codes : codes[n].by \in Suites
  BY Elements
<1> QED BY <1>1 DEF Kept, Truthful

\* So does what a code is for.
LEMMA ContactIsKept ==
    ASSUME TypeInv, Kept, NEW s \in Suites, NEW t \in Suites, SameContact(s, t)
    PROVE  SameContact(s, t)'
BY DEF Kept, SameContact

\* And whose an account is.
LEMMA OwnIsKept ==
    ASSUME TypeInv, Kept, NEW s \in Suites, NEW p, Own(s, p)
    PROVE  Own(s, p)'
<1>1. accounts[p].phone \in Phones
  BY Elements DEF Own
<1>2. accounts[p].phone # Nothing
  BY <1>1, PhoneAssumption
<1> QED BY <1>2 DEF Kept, Own

\* A set of natural numbers has a least one.
LEMMA SmallestOfNat ==
    ASSUME NEW S \in SUBSET Nat, S # {}
    PROVE  \E n \in S : \A k \in S : n <= k
<1> DEFINE R == {pair \in Nat \X Nat : pair[1] < pair[2]}
<1>1. IsWellFoundedOn(R, Nat)
  BY NatLessThanWellFounded DEF OpToRel
<1>2. \E n \in S : \A k \in S : <<k, n>> \notin R
  <2> HIDE DEF R
  <2> QED BY <1>1, WFMin
<1>3. ASSUME NEW k \in S, NEW n \in S, <<k, n>> \notin R PROVE n <= k
  <2>1. k \in Nat /\ n \in Nat
    OBVIOUS
  <2> QED BY <1>3, <2>1
<1> HIDE DEF R
<1> QED BY <1>2, <1>3

\* A message that was found is one of those sent, and of the type and contact
\* asked for.
LEMMA FoundIsSent ==
    ASSUME TypeInv, MessageInv, NEW type, NEW contact, Found(type, contact) # {}
    PROVE  \E m \in Sent : /\ m.type = type /\ m.contact = contact
                           /\ Oldest(type, contact) = m.id /\ Truthful(m)
<1> DEFINE F == Found(type, contact)
           n == CHOOSE n \in F : \A k \in F : n <= k
<1>1. F \subseteq Nat /\ F # {}
  BY DEF TypeInv, Found
<1>2. \E k \in F : \A j \in F : k <= j
  BY <1>1, SmallestOfNat
<1>3. n \in F
  <2> HIDE DEF F
  <2> QED BY <1>2
<1>4. topic[n] \in Sent /\ topic[n].type = type /\ topic[n].contact = contact
  BY <1>3 DEF Found, Passes, Sent
<1>5. Oldest(type, contact) = topic[n].id
  BY DEF Oldest
<1> QED BY <1>4, <1>5 DEF MessageInv

-----------------------------------------------------------------------------
(* When a part of the invariant is kept. *)

\* The call s may go on to its next step, and no other call does.
Moves(s) == step' = step \/ step' = [step EXCEPT ![s] = @ + 1]

\* No call makes up a contact.
LEMMA ContactIsSame ==
    ASSUME TypeInv, ContactInv, NEW s \in Suites, Moves(s),
           step' # step => step[s] # 1 /\ (Verified(s) => step[s] # 10),
           UNCHANGED <<phone, email>>
    PROVE  ContactInv'
<1>1. \A t \in Suites : step[t] \in Nat
  BY DEF TypeInv
<1>2. \A t \in Suites : \/ step'[t] = step[t]
                        \/ t = s /\ step'[t] = step[t] + 1 /\ step' # step
  BY DEF Moves, TypeInv
<1>3. \A t \in Suites : /\ step'[t] > 1 <=> step[t] > 1
                        /\ Verified(t) => (step'[t] > 10 <=> step[t] > 10)
  BY <1>1, <1>2
<1> QED BY <1>3 DEF ContactInv, Verified

\* No message is sent.
LEMMA MessagesAreSame ==
    ASSUME TypeInv, MessageInv, Kept, Sent' \subseteq Sent
    PROVE  MessageInv'
BY TruthIsKept DEF MessageInv

\* No call takes a code.
LEMMA CodesAreSame ==
    ASSUME TypeInv, CodeInv, Kept, code' = code
    PROVE  CodeInv'
<1>1. ASSUME NEW s \in Suites, code[s] # Nothing
      PROVE  (code[s] \in DOMAIN codes /\ SameContact(codes[code[s]].by, s))'
  <2>1. code[s] \in DOMAIN codes /\ SameContact(codes[code[s]].by, s)
    BY <1>1 DEF CodeInv
  <2>2. code'[s] \in DOMAIN codes' /\ codes'[code'[s]] = codes[code[s]]
    BY <2>1 DEF Kept
  <2>3. PICK t \in Suites : t = codes[code[s]].by
    BY <2>1, Elements
  <2>4. SameContact(t, s)
    BY <2>1, <2>3
  <2>5. SameContact(t, s)'
    BY <2>4, ContactIsKept
  <2> QED BY <2>2, <2>3, <2>5 DEF SameContact
<1> QED BY <1>1 DEF CodeInv

\* No account is made, and no call passes the registration.
LEMMA AccountsAreSame ==
    ASSUME TypeInv, AccountInv, NEW s \in Suites, Moves(s),
           step' # step => step[s] # 4, accounts' = accounts
    PROVE  AccountInv'
<1>1. \A t \in Suites : step[t] \in Nat
  BY DEF TypeInv
<1>2. \A t \in Suites : \/ step'[t] = step[t]
                        \/ t = s /\ step'[t] = step[t] + 1 /\ step' # step
  BY DEF Moves, TypeInv
<1>3. Registered' = Registered
  BY <1>1, <1>2 DEF Registered
<1> QED BY <1>3 DEF AccountInv

\* No call learns of its player.
LEMMA OwnIsSame ==
    ASSUME TypeInv, OwnInv, NEW s \in Suites, Moves(s),
           step' # step => step[s] \notin {4, 5, 6},
           Kept, UNCHANGED <<player, token, walletOf>>
    PROVE  OwnInv'
<1>1. \A t \in Suites : step[t] \in Nat
  BY DEF TypeInv
<1>2. \A t \in Suites : \/ step'[t] = step[t]
                        \/ t = s /\ step'[t] = step[t] + 1 /\ step' # step
  BY DEF Moves, TypeInv
<1>3. \A t \in Suites : /\ step'[t] > 4 <=> step[t] > 4
                        /\ step'[t] > 5 <=> step[t] > 5
                        /\ step'[t] > 6 <=> step[t] > 6
  BY <1>1, <1>2
<1>4. \A t \in Suites : \A p : Own(t, p) => Own(t, p)'
  BY OwnIsKept
<1>5. \A t \in Suites : \A p \in DOMAIN accounts : p \in DOMAIN accounts'
  BY DEF Kept
<1> QED BY <1>3, <1>4, <1>5 DEF OwnInv

\* Nothing happens to a wallet, and no call is on the way to it.
LEMMA WalletsAreSame ==
    ASSUME TypeInv, WalletInv, NEW s \in Suites, Moves(s),
           step' # step =>
               /\ Verified(s) => step[s] \notin {6, 13, 14}
               /\ s \in Deposits => step[s] \notin {16, 17},
           Kept, UNCHANGED <<events, announced, applied, token, expectedSeq>>
    PROVE  WalletInv'
<1>1. \A t \in Suites : step[t] \in Nat
  BY DEF TypeInv
<1>2. \A t \in Suites : \/ step'[t] = step[t]
                        \/ t = s /\ step'[t] = step[t] + 1 /\ step' # step
  BY DEF Moves, TypeInv
<1>3. \A t \in Suites : Verified(t) =>
         /\ step'[t] > 6 <=> step[t] > 6
         /\ step'[t] > 13 <=> step[t] > 13
  BY <1>1, <1>2
<1>4. \A t \in Suites : Verified(t) => Made(t)' = Made(t)
  BY <1>1, <1>2 DEF Made
<1>5. \A t \in Deposits : t \in Suites /\ (step'[t] > 17 => step[t] > 17)
  BY <1>1, <1>2, SuiteAssumption
<1>6. \A t \in Suites : \A p : Own(t, p) => Own(t, p)'
  BY OwnIsKept
<1>7. \A p \in Players : announced'[p] <= Len(events'[p]) /\ applied'[p] <= Len(events'[p])
  BY DEF WalletInv
<1>8. ASSUME NEW p \in Players, events'[p] # << >>
      PROVE  \E t \in Suites : Own(t, p)' /\ Verified(t) /\ step'[t] > 13
  <2>1. PICK t \in Suites : Own(t, p) /\ Verified(t) /\ step[t] > 13
    BY <1>8 DEF WalletInv
  <2> QED BY <2>1, <1>3, <1>6
<1>9. \A t \in Suites : Verified(t) /\ step'[t] > 6 => events'[token'[t]] = Made(t)'
  BY <1>3, <1>4 DEF WalletInv
<1>10. \A t \in Deposits : step'[t] > 17 => expectedSeq'[t] = 3
  BY <1>5 DEF WalletInv
<1> QED BY <1>7, <1>8, <1>9, <1>10 DEF WalletInv, Verified

\* No call returns.
LEMMA ReturnsAreSame ==
    ASSUME TypeInv, ReturnInv, NEW s \in Suites, outcome[s] = "running", outcome'[s] # "returned",
           \A t \in Suites \ {s} :
               /\ outcome'[t] = outcome[t] /\ step'[t] = step[t] /\ walletOf'[t] = walletOf[t]
               /\ data'[t] = data[t] /\ token'[t] = token[t]
    PROVE  ReturnInv'
BY DEF ReturnInv, LastStep, Verified
-----------------------------------------------------------------------------
(* The initial state, and the steps of the services. *)

\* A step that moves no code, account, phone or mailbox keeps what the codes say.
LEMMA KeptIfSame ==
    ASSUME UNCHANGED <<codes, accounts, phone, email>>
    PROVE  Kept
BY DEF Kept

\* Every call starts with nothing, and so do the services.
LEMMA InitInv ==
    Init => Inv
<1> SUFFICES ASSUME Init PROVE Inv
  OBVIOUS
<1>1. TypeInv
  <2>1. /\ step = [s \in Suites |-> 1]
        /\ \A s \in Suites : LastStep(s) >= 1
    BY DEF Init, LastStep
  <2>2. data \in [Suites -> [auth : Nat, of : Nat, shows : Nat]]
    BY DEF Init, NoData, Nothing
  <2>3. /\ topic \in Seq(Message) /\ outbox \in SUBSET Message
        /\ codes \in Seq(Code) /\ accounts \in Seq(Account)
        /\ events \in [Players -> Seq({"limit", "deposit"})]
    BY DEF Init
  <2>4. /\ now \in Nat \ {0} /\ faults \in Nat
        /\ announced \in [Players -> Nat] /\ applied \in [Players -> Nat]
    BY DEF Init
  <2>5. /\ outcome \in [Suites -> {"running", "returned", "failed", "panicked"}]
        /\ phone \in [Suites -> Phones \cup {Nothing}] /\ email \in [Suites -> Nat]
        /\ code \in [Suites -> Nat] /\ player \in [Suites -> Nat] /\ token \in [Suites -> Nat]
        /\ documents \in [Suites -> {0, 1}] /\ walletOf \in [Suites -> Nat]
        /\ expectedSeq \in [Suites -> Nat]
    BY DEF Init, Nothing
  <2> QED BY <2>1, <2>2, <2>3, <2>4, <2>5 DEF TypeInv
<1>2. \A s \in Suites : step[s] = 1
  BY DEF Init
<1>3. ContactInv
  BY <1>2 DEF Init, ContactInv, Nothing
<1>4. MessageInv /\ CodeInv
  BY DEF Init, MessageInv, CodeInv, Sent, Nothing
<1>5. AccountInv
  <2>1. Registered = {} /\ Cardinality(Registered) = 0
    BY <1>2, FS_EmptySet DEF Registered
  <2> QED BY <2>1 DEF Init, AccountInv
<1>6. OwnInv
  BY <1>2 DEF Init, OwnInv, Nothing
<1>7. WalletInv
  <2>1. \A s \in Deposits : s \in Suites
    BY SuiteAssumption
  <2> QED BY <1>2, <2>1 DEF Init, WalletInv
<1>8. ReturnInv
  BY DEF Init, ReturnInv
<1> QED BY <1>1, <1>3, <1>4, <1>5, <1>6, <1>7, <1>8 DEF Inv

\* A step of the services that makes up no message and happens to no wallet.
LEMMA ServiceStep ==
    ASSUME Inv, TypeInv', Sent' \subseteq Sent,
           UNCHANGED <<codes, accounts, events, step, outcome, local, data>>,
           \A p \in Players : announced'[p] <= Len(events[p]) /\ applied'[p] <= Len(events[p])
    PROVE  Inv'
<1>1. UNCHANGED <<phone, email, code, player, token, walletOf, expectedSeq>>
  BY DEF local
<1>2. Kept
  BY <1>1, KeptIfSame
<1>3. ContactInv'
  BY <1>1 DEF Inv, ContactInv, Verified
<1>4. MessageInv' /\ CodeInv'
  BY <1>1, <1>2, MessagesAreSame, CodesAreSame DEF Inv
<1>5. AccountInv'
  BY DEF Inv, AccountInv, Registered
<1>6. OwnInv'
  BY <1>1 DEF Inv, OwnInv, Own
<1>7. WalletInv'
  BY <1>1 DEF Inv, WalletInv, Own, Verified, Made
<1>8. ReturnInv'
  BY <1>1 DEF Inv, ReturnInv, LastStep, Verified
<1> QED BY <1>3, <1>4, <1>5, <1>6, <1>7, <1>8 DEF Inv

\* The passage of time keeps every part of the invariant.
LEMMA TickKeepsInv ==
    ASSUME Inv, Tick
    PROVE  Inv'
<1>1. TypeInv
  BY DEF Inv
<1>2. UNCHANGED <<topic, outbox, codes, accounts, events, announced, applied>>
  BY DEF Tick, services
<1>3. TypeInv'
  BY <1>1, <1>2 DEF TypeInv, Tick, local
<1>4. Sent' = Sent
  BY <1>2 DEF Sent
<1> QED BY <1>2, <1>3, <1>4, ServiceStep DEF Tick, Inv, WalletInv

\* The platform publishing a message keeps every part of the invariant.
LEMMA PublishKeepsInv ==
    ASSUME Inv, Publish
    PROVE  Inv'
<1>1. TypeInv
  BY DEF Inv
<1>2. PICK m \in outbox : topic' = Append(topic, m) /\ outbox' = outbox \ {m}
  BY DEF Publish
<1>3. topic \in Seq(Message) /\ outbox \in SUBSET Message
  BY <1>1 DEF TypeInv
<1>4. topic' \in Seq(Message) /\ outbox' \in SUBSET Message
  BY <1>2, <1>3
<1>5. TypeInv'
  BY <1>1, <1>4 DEF TypeInv, Publish, local
<1>6. Sent' \subseteq Sent
  <2>1. ASSUME NEW n \in DOMAIN topic' PROVE topic'[n] \in Sent
    <3>1. (n \in DOMAIN topic /\ topic'[n] = topic[n]) \/ topic'[n] = m
      BY <1>2, <1>3
    <3> QED BY <3>1 DEF Sent
  <2> QED BY <1>2, <2>1 DEF Sent
<1> QED BY <1>5, <1>6, ServiceStep DEF Publish, Inv, WalletInv

\* Announcing and applying a deposit keep every part of the invariant.
LEMMA DeliveryKeepsInv ==
    ASSUME Inv, NEW p \in Players, Announce(p) \/ Apply(p)
    PROVE  Inv'
<1>1. TypeInv /\ WalletInv
  BY DEF Inv
<1>2. UNCHANGED <<topic, outbox, codes, accounts, events, step, outcome, local, data, now, faults>>
  BY DEF Announce, Apply
<1>3. /\ announced' \in [Players -> Nat] /\ applied' \in [Players -> Nat]
      /\ \A q \in Players : announced'[q] <= Len(events[q]) /\ applied'[q] <= Len(events[q])
  <2>1. \A q \in Players : Len(events[q]) \in Nat
    BY <1>1 DEF TypeInv
  <2>2. announced \in [Players -> Nat] /\ applied \in [Players -> Nat]
    BY <1>1 DEF TypeInv
  <2>3. \A q \in Players : announced[q] <= Len(events[q]) /\ applied[q] <= Len(events[q])
    BY <1>1 DEF WalletInv
  <2>4. CASE Announce(p)
    BY <2>1, <2>2, <2>3, <2>4 DEF Announce
  <2>5. CASE Apply(p)
    BY <2>1, <2>2, <2>3, <2>5 DEF Apply
  <2> QED BY <2>4, <2>5
<1>4. TypeInv'
  BY <1>1, <1>2, <1>3 DEF TypeInv, local
<1>5. Sent' = Sent
  BY <1>2 DEF Sent
<1> QED BY <1>2, <1>3, <1>4, <1>5, ServiceStep

\* A step that changes nothing keeps the invariant.
LEMMA StutterKeepsInv ==
    ASSUME Inv, UNCHANGED vars
    PROVE  Inv'
<1>1. UNCHANGED <<topic, outbox, codes, accounts, events, announced, applied, now, faults, step,
                  outcome, local, data>>
  BY DEF vars, services
<1>2. TypeInv'
  BY <1>1 DEF Inv, TypeInv, local
<1>3. Sent' = Sent
  BY <1>1 DEF Sent
<1> QED BY <1>1, <1>2, <1>3, ServiceStep DEF Inv, WalletInv

-----------------------------------------------------------------------------
(* The steps of a call. *)

\* A call goes on to a step that its program has, or ends without a player.
Continues(s) ==
    \/ (GoOn(s) \/ Answered(s)) /\ step[s] < LastStep(s)
    \/ Ends(s, "failed")
    \/ Ends(s, "panicked")

\* Then it is where its program has a step, and the other calls are where they
\* were.
LEMMA CallContinues ==
    ASSUME TypeInv, NEW s \in Suites, Continues(s)
    PROVE  /\ Moves(s)
           /\ step' \in [Suites -> Nat \ {0}]
           /\ \A t \in Suites : step'[t] <= LastStep(t)
           /\ outcome' \in [Suites -> {"running", "returned", "failed", "panicked"}]
           /\ data' = data
           /\ outcome[s] = "running" => outcome'[s] # "returned"
           /\ \A t \in Suites \ {s} : outcome'[t] = outcome[t] /\ step'[t] = step[t]
<1>1. /\ step \in [Suites -> Nat \ {0}]
      /\ \A t \in Suites : step[t] <= LastStep(t)
      /\ outcome \in [Suites -> {"running", "returned", "failed", "panicked"}]
  BY DEF TypeInv
<1>2. CASE (GoOn(s) \/ Answered(s)) /\ step[s] < LastStep(s)
  <2>1. LastStep(s) \in Nat
    BY DEF LastStep
  <2>2. step' = [step EXCEPT ![s] = @ + 1] /\ data' = data
    BY <1>2 DEF GoOn, Answered
  <2>3. outcome' = outcome \/ outcome' = [outcome EXCEPT ![s] = "failed"]
    BY <1>2 DEF GoOn, Answered
  <2> QED BY <1>1, <1>2, <2>1, <2>2, <2>3 DEF Moves
<1>3. CASE Ends(s, "failed") \/ Ends(s, "panicked")
  BY <1>1, <1>3 DEF Ends, Moves
<1> QED BY <1>2, <1>3 DEF Continues

\* An answer that is lost leaves the call where one that comes does.
LEMMA AnsweredMoves ==
    ASSUME TypeInv, NEW s \in Suites, Answered(s)
    PROVE  step' = [step EXCEPT ![s] = @ + 1] /\ faults' \in Nat
<1>1. faults \in Nat
  BY DEF TypeInv
<1> QED BY <1>1 DEF Answered, GoOn

\* A step that leaves the services alone and takes nothing from them that the
\* invariant speaks of.
LEMMA PlainStep ==
    ASSUME Inv, TypeInv', NEW s \in Suites, outcome[s] = "running", Continues(s),
           step' # step =>
               /\ step[s] \notin {1, 4, 5, 6}
               /\ Verified(s) => step[s] \notin {10, 13, 14}
               /\ s \in Deposits => step[s] \notin {16, 17},
           UNCHANGED <<services, phone, email, code, player, token, walletOf, expectedSeq>>
    PROVE  Inv'
<1>1. TypeInv
  BY DEF Inv
<1>2. UNCHANGED <<topic, outbox, codes, accounts, events, announced, applied>>
  BY DEF services
<1>3. Kept /\ Sent' = Sent
  BY <1>2, KeptIfSame DEF Sent
<1>4. /\ Moves(s) /\ data' = data
      /\ outcome'[s] # "returned"
      /\ \A t \in Suites \ {s} : outcome'[t] = outcome[t] /\ step'[t] = step[t]
  BY <1>1, CallContinues
<1>5. ContactInv'
  BY <1>1, <1>4, ContactIsSame DEF Inv
<1>6. MessageInv' /\ CodeInv'
  BY <1>1, <1>3, MessagesAreSame, CodesAreSame DEF Inv
<1>7. AccountInv'
  BY <1>1, <1>2, <1>4, AccountsAreSame DEF Inv
<1>8. OwnInv'
  BY <1>1, <1>3, <1>4, OwnIsSame DEF Inv
<1>9. WalletInv'
  BY <1>1, <1>2, <1>3, <1>4, WalletsAreSame DEF Inv
<1>10. ReturnInv'
  BY <1>1, <1>4, ReturnsAreSame DEF Inv
<1> QED BY <1>5, <1>6, <1>7, <1>8, <1>9, <1>10 DEF Inv

\* A call that waits, or has its answer checked, without a word to the services.
LEMMA WaitingKeepsInv ==
    ASSUME Inv, NEW s \in Suites,
           \/ VerifyPhone(s) \/ VerifyIdentity(s) \/ GetVerificationStatus(s)
           \/ UpdateVerificationStatus(s) \/ ConfirmEmail(s) \/ StepFails(s)
    PROVE  Inv'
<1>1. TypeInv
  BY DEF Inv
<1>2. outcome[s] = "running"
  BY DEF VerifyPhone, VerifyIdentity, GetVerificationStatus, UpdateVerificationStatus,
         ConfirmEmail, StepFails, At
<1>3. /\ Continues(s)
      /\ step' # step => step[s] \in {3, 7, 8, 9, 12}
  <2>1. LastStep(s) = IF Verified(s) THEN 18 ELSE 8
    BY DEF LastStep
  <2>2. CASE VerifyPhone(s)
    <3>1. step[s] = 3
      BY <1>1, <1>2, <2>2, StepOf DEF VerifyPhone
    <3>2. GoOn(s) \/ Ends(s, "failed")
      BY <2>2 DEF VerifyPhone
    <3> QED BY <2>1, <3>1, <3>2 DEF Continues
  <2>3. CASE VerifyIdentity(s)
    <3>1. Verified(s) /\ step[s] = 7
      BY <1>1, <1>2, <2>3, StepOf DEF VerifyIdentity
    <3> QED BY <2>1, <2>3, <3>1 DEF Continues, VerifyIdentity
  <2>4. CASE GetVerificationStatus(s)
    <3>1. Verified(s) /\ step[s] = 8
      BY <1>1, <1>2, <2>4, StepOf DEF GetVerificationStatus
    <3> QED BY <2>1, <2>4, <3>1 DEF Continues, GetVerificationStatus
  <2>5. CASE UpdateVerificationStatus(s)
    <3>1. Verified(s) /\ step[s] = 9
      BY <1>1, <1>2, <2>5, StepOf DEF UpdateVerificationStatus
    <3> QED BY <2>1, <2>5, <3>1 DEF Continues, UpdateVerificationStatus
  <2>6. CASE ConfirmEmail(s)
    <3>1. Verified(s) /\ step[s] = 12
      BY <1>1, <1>2, <2>6, StepOf DEF ConfirmEmail
    <3>2. GoOn(s) \/ Ends(s, "failed") \/ Ends(s, "panicked")
      BY <2>6 DEF ConfirmEmail
    <3> QED BY <2>1, <3>1, <3>2 DEF Continues
  <2>7. CASE StepFails(s)
    BY <2>7 DEF StepFails, Ends, Continues
  <2> QED BY <2>2, <2>3, <2>4, <2>5, <2>6, <2>7
<1>4. UNCHANGED <<now, services, phone, email, code, player, token, walletOf, expectedSeq>>
  BY DEF VerifyPhone, VerifyIdentity, GetVerificationStatus, UpdateVerificationStatus,
         ConfirmEmail, StepFails, local
<1>5. faults' \in Nat /\ documents' \in [Suites -> {0, 1}]
  <2>1. faults \in Nat /\ documents \in [Suites -> {0, 1}]
    BY <1>1 DEF TypeInv
  <2>2. CASE UNCHANGED <<faults, documents>>
    BY <2>1, <2>2
  <2>3. CASE faults' = faults + 1 /\ UNCHANGED documents
    BY <2>1, <2>3
  <2>4. CASE UNCHANGED faults /\ documents' = [documents EXCEPT ![s] = 1]
    BY <2>1, <2>4
  <2> QED BY <2>2, <2>3, <2>4 DEF VerifyPhone, VerifyIdentity, GetVerificationStatus,
             UpdateVerificationStatus, ConfirmEmail, StepFails, local
<1>6. TypeInv'
  BY <1>1, <1>3, <1>4, <1>5, CallContinues DEF TypeInv, services, LastStep, Verified
<1> QED BY <1>2, <1>3, <1>4, <1>6, PlainStep

\* The contact of a call, made up at its step, with the code that was asked for.
LEMMA RequestPhoneKeepsInv ==
    ASSUME Inv, NEW s \in Suites, RequestPhone(s)
    PROVE  Inv'
<1>1. TypeInv /\ outcome[s] = "running"
  BY DEF Inv, RequestPhone, At
<1>2. step[s] = 1
  BY <1>1, StepOf DEF RequestPhone
<1>3. Continues(s)
  BY <1>2 DEF RequestPhone, Continues, LastStep
<1>4. PICK number \in Phones : /\ phone' = [phone EXCEPT ![s] = number]
                               /\ IssueCode(s, "phone", number)
  BY DEF RequestPhone
<1>5. UNCHANGED <<now, topic, accounts, events, announced, applied, email, code,
                  player, token, documents, walletOf, expectedSeq>>
  BY DEF RequestPhone
<1>b. step' = [step EXCEPT ![s] = @ + 1] /\ faults' \in Nat
  BY <1>1, AnsweredMoves DEF RequestPhone
<1>a. PICK new, m : /\ new = [contact |-> number, by |-> s]
                    /\ m = [type |-> "phone", contact |-> number, id |-> Len(codes) + 1]
  OBVIOUS
<1>6. codes' = Append(codes, new) /\ outbox' = outbox \cup {m}
  BY <1>4, <1>a DEF IssueCode
<1>7. /\ codes \in Seq(Code) /\ outbox \in SUBSET Message
      /\ phone \in [Suites -> Phones \cup {Nothing}]
  BY <1>1 DEF TypeInv
<1>8. new \in Code /\ m \in Message
  BY <1>7, <1>a DEF Code, Message, Contact
<1>9. /\ codes' \in Seq(Code) /\ outbox' \in SUBSET Message
      /\ phone' \in [Suites -> Phones \cup {Nothing}]
  BY <1>4, <1>6, <1>7, <1>8
<1>10. TypeInv'
  BY <1>1, <1>3, <1>5, <1>b, <1>9, CallContinues DEF TypeInv, LastStep, Verified
<1>11. /\ phone[s] = Nothing /\ number # Nothing
       /\ email[s] = Nothing
  BY <1>2, PhoneAssumption DEF Inv, ContactInv
<1>12. /\ Moves(s) /\ data' = data /\ outcome'[s] # "returned"
       /\ \A t \in Suites \ {s} : outcome'[t] = outcome[t] /\ step'[t] = step[t]
  BY <1>1, <1>3, CallContinues
<1>13. Kept
  BY <1>4, <1>5, <1>6, <1>7, <1>11 DEF Kept
<1>14. ContactInv'
  <2>1. step' = [step EXCEPT ![s] = @ + 1] /\ step \in [Suites -> Nat \ {0}]
    BY <1>1, <1>b DEF TypeInv
  <2> QED BY <1>2, <1>4, <1>5, <1>7, <1>11, <2>1 DEF Inv, ContactInv, Verified
<1>15. MessageInv'
  <2>1. Sent' \subseteq Sent \cup {m}
    BY <1>5, <1>6 DEF Sent
  <2>2. Len(codes) + 1 \in DOMAIN codes' /\ codes'[Len(codes) + 1] = new
    BY <1>6, <1>7
  <2>3. phone'[s] = number
    BY <1>4, <1>7
  <2>4. Truthful(m)'
    BY <1>a, <1>11, <2>2, <2>3 DEF Truthful
  <2>5. \A msg \in Sent : Truthful(msg)'
    BY <1>1, <1>13, TruthIsKept DEF Inv, MessageInv
  <2> QED BY <2>1, <2>4, <2>5 DEF MessageInv
<1>16. CodeInv'
  BY <1>1, <1>5, <1>13, CodesAreSame DEF Inv
<1>17. AccountInv'
  BY <1>1, <1>2, <1>5, <1>12, AccountsAreSame DEF Inv
<1>18. OwnInv'
  BY <1>1, <1>2, <1>5, <1>12, <1>13, OwnIsSame DEF Inv
<1>19. WalletInv'
  BY <1>1, <1>2, <1>5, <1>12, <1>13, WalletsAreSame DEF Inv
<1>20. ReturnInv'
  BY <1>1, <1>5, <1>12, ReturnsAreSame DEF Inv
<1> QED BY <1>10, <1>14, <1>15, <1>16, <1>17, <1>18, <1>19, <1>20 DEF Inv

\* Asking for the code of the mailbox keeps every part of the invariant.
LEMMA RequestEmailKeepsInv ==
    ASSUME Inv, NEW s \in Suites, RequestEmail(s)
    PROVE  Inv'
<1>1. TypeInv /\ outcome[s] = "running"
  BY DEF Inv, RequestEmail, At
<1>2. Verified(s) /\ step[s] = 10
  BY <1>1, StepOf DEF RequestEmail
<1>3. Continues(s)
  BY <1>2 DEF RequestEmail, Continues, LastStep
<1>4. email' = [email EXCEPT ![s] = now] /\ IssueCode(s, "email", now)
  BY DEF RequestEmail
<1>5. UNCHANGED <<now, topic, accounts, events, announced, applied, phone, code,
                  player, token, documents, walletOf, expectedSeq>>
  BY DEF RequestEmail
<1>b. step' = [step EXCEPT ![s] = @ + 1] /\ faults' \in Nat
  BY <1>1, AnsweredMoves DEF RequestEmail
<1>a. PICK new, m : /\ new = [contact |-> now, by |-> s]
                    /\ m = [type |-> "email", contact |-> now, id |-> Len(codes) + 1]
  OBVIOUS
<1>6. codes' = Append(codes, new) /\ outbox' = outbox \cup {m}
  BY <1>4, <1>a DEF IssueCode
<1>7. /\ codes \in Seq(Code) /\ outbox \in SUBSET Message
      /\ email \in [Suites -> Nat] /\ now \in Nat /\ now # Nothing
  BY <1>1 DEF TypeInv, Nothing
<1>8. new \in Code /\ m \in Message
  BY <1>7, <1>a DEF Code, Message, Contact
<1>9. /\ codes' \in Seq(Code) /\ outbox' \in SUBSET Message
      /\ email' \in [Suites -> Nat]
  BY <1>4, <1>6, <1>7, <1>8
<1>10. TypeInv'
  BY <1>1, <1>3, <1>5, <1>b, <1>9, CallContinues DEF TypeInv, LastStep, Verified
<1>11. email[s] = Nothing
  BY <1>2 DEF Inv, ContactInv
<1>12. /\ Moves(s) /\ data' = data /\ outcome'[s] # "returned"
       /\ \A t \in Suites \ {s} : outcome'[t] = outcome[t] /\ step'[t] = step[t]
  BY <1>1, <1>3, CallContinues
<1>13. Kept
  BY <1>4, <1>5, <1>6, <1>7, <1>11 DEF Kept
<1>14. ContactInv'
  <2>1. step' = [step EXCEPT ![s] = @ + 1] /\ step \in [Suites -> Nat \ {0}]
    BY <1>1, <1>b DEF TypeInv
  <2> QED BY <1>2, <1>4, <1>5, <1>7, <1>11, <2>1 DEF Inv, ContactInv, Verified
<1>15. MessageInv'
  <2>1. Sent' \subseteq Sent \cup {m}
    BY <1>5, <1>6 DEF Sent
  <2>2. Len(codes) + 1 \in DOMAIN codes' /\ codes'[Len(codes) + 1] = new
    BY <1>6, <1>7
  <2>3. email'[s] = now
    BY <1>4, <1>7
  <2>4. Truthful(m)'
    BY <1>a, <1>5, <1>7, <2>2, <2>3 DEF Truthful
  <2>5. \A msg \in Sent : Truthful(msg)'
    BY <1>1, <1>13, TruthIsKept DEF Inv, MessageInv
  <2> QED BY <1>5, <2>1, <2>4, <2>5 DEF MessageInv
<1>16. CodeInv'
  BY <1>1, <1>5, <1>13, CodesAreSame DEF Inv
<1>17. AccountInv'
  BY <1>1, <1>2, <1>5, <1>12, AccountsAreSame DEF Inv
<1>18. OwnInv'
  BY <1>1, <1>2, <1>5, <1>12, <1>13, OwnIsSame DEF Inv
<1>19. WalletInv'
  BY <1>1, <1>2, <1>5, <1>12, <1>13, WalletsAreSame DEF Inv
<1>20. ReturnInv'
  BY <1>1, <1>5, <1>12, ReturnsAreSame DEF Inv
<1> QED BY <1>10, <1>14, <1>15, <1>16, <1>17, <1>18, <1>19, <1>20 DEF Inv

\* A call takes a code of its contact, or none.
LEMMA NewCode ==
    ASSUME TypeInv, CodeInv, Kept, NEW s \in Suites, NEW c,
           code' = [code EXCEPT ![s] = c],
           UNCHANGED <<codes, phone, email>>,
           c # Nothing => c \in DOMAIN codes /\ SameContact(codes[c].by, s)
    PROVE  CodeInv'
<1>1. code \in [Suites -> Nat]
  BY DEF TypeInv
<1> QED BY <1>1 DEF CodeInv, SameContact

\* Taking the code a consumer returned keeps every part of the invariant.
LEMMA TakeCodeKeepsInv ==
    ASSUME Inv, NEW s \in Suites, TakePhoneCode(s) \/ TakeEmailCode(s)
    PROVE  Inv'
<1>1. TypeInv /\ outcome[s] = "running"
  BY DEF Inv, TakePhoneCode, TakeEmailCode, At
<1>2. \/ step[s] = 2 /\ TakePhoneCode(s)
      \/ step[s] = 11 /\ Verified(s) /\ TakeEmailCode(s)
  BY <1>1, StepOf DEF TakePhoneCode, TakeEmailCode
<1>3. Continues(s)
  BY <1>2 DEF TakePhoneCode, TakeEmailCode, Continues, LastStep
<1>4. UNCHANGED <<now, topic, outbox, codes, accounts, events, announced, applied, phone, email,
                  player, token, documents, walletOf, expectedSeq>>
  BY DEF TakePhoneCode, TakeEmailCode, services
<1>5. PICK c : /\ code' = [code EXCEPT ![s] = c]
               /\ c # Nothing => c \in DOMAIN codes /\ SameContact(codes[c].by, s)
  <2>1. CASE step[s] = 2 /\ TakePhoneCode(s)
    <3>1. PICK m \in Sent : /\ m.type = "phone" /\ m.contact = phone[s]
                            /\ Oldest("phone", phone[s]) = m.id /\ Truthful(m)
      BY <1>1, <2>1, FoundIsSent DEF Inv, TakePhoneCode
    <3>2. phone[s] # Nothing
      BY <2>1 DEF Inv, ContactInv
    <3>3. m.id \in DOMAIN codes /\ SameContact(codes[m.id].by, s)
      BY <3>1, <3>2 DEF Truthful, SameContact
    <3>4. code' = [code EXCEPT ![s] = m.id]
      BY <2>1, <3>1 DEF TakePhoneCode
    <3> QED BY <3>3, <3>4
  <2>2. CASE step[s] = 11 /\ Verified(s) /\ TakeEmailCode(s)
    <3>1. CASE Found("email", email[s]) # {} /\ code' = [code EXCEPT ![s] = Oldest("email", email[s])]
      <4>1. PICK m \in Sent : /\ m.type = "email" /\ m.contact = email[s]
                              /\ Oldest("email", email[s]) = m.id /\ Truthful(m)
        BY <1>1, <3>1, FoundIsSent DEF Inv
      <4>2. email[s] # Nothing
        BY <2>2 DEF Inv, ContactInv
      <4>3. m.id \in DOMAIN codes /\ SameContact(codes[m.id].by, s)
        BY <4>1, <4>2 DEF Truthful, SameContact
      <4>4. code' = [code EXCEPT ![s] = m.id]
        BY <3>1, <4>1
      <4> QED BY <4>3, <4>4
    <3>2. CASE code' = [code EXCEPT ![s] = Nothing]
      BY <3>2
    <3> QED BY <2>2, <3>1, <3>2 DEF TakeEmailCode
  <2> QED BY <1>2, <2>1, <2>2
<1>6. faults' \in Nat /\ code' \in [Suites -> Nat]
  <2>1. faults \in Nat /\ code \in [Suites -> Nat] /\ codes \in Seq(Code)
    BY <1>1 DEF TypeInv
  <2>2. c \in Nat
    BY <1>5, <2>1 DEF Nothing
  <2>3. UNCHANGED faults \/ faults' = faults + 1
    BY DEF TakePhoneCode, TakeEmailCode
  <2> QED BY <1>5, <2>1, <2>2, <2>3
<1>7. TypeInv'
  BY <1>1, <1>3, <1>4, <1>6, CallContinues DEF TypeInv, LastStep, Verified
<1>8. /\ Moves(s) /\ data' = data /\ outcome'[s] # "returned"
      /\ \A t \in Suites \ {s} : outcome'[t] = outcome[t] /\ step'[t] = step[t]
  BY <1>1, <1>3, CallContinues
<1>9. Kept /\ Sent' = Sent
  BY <1>4, KeptIfSame DEF Sent
<1>10. ContactInv'
  BY <1>1, <1>2, <1>4, <1>8, ContactIsSame DEF Inv
<1>11. MessageInv'
  BY <1>1, <1>9, MessagesAreSame DEF Inv
<1>12. CodeInv'
  BY <1>1, <1>4, <1>5, <1>9, NewCode DEF Inv
<1>13. AccountInv'
  BY <1>1, <1>2, <1>4, <1>8, AccountsAreSame DEF Inv
<1>14. OwnInv'
  BY <1>1, <1>2, <1>4, <1>8, <1>9, OwnIsSame DEF Inv
<1>15. WalletInv'
  BY <1>1, <1>2, <1>4, <1>8, <1>9, WalletsAreSame DEF Inv
<1>16. ReturnInv'
  BY <1>1, <1>4, <1>8, ReturnsAreSame DEF Inv
<1> QED BY <1>7, <1>10, <1>11, <1>12, <1>13, <1>14, <1>15, <1>16 DEF Inv

\* The call that registers a number first has the account.
LEMMA RegisterKeepsInv ==
    ASSUME Inv, NEW s \in Suites, Register(s)
    PROVE  Inv'
<1>1. TypeInv /\ outcome[s] = "running"
  BY DEF Inv, Register, At
<1>2. step[s] = 4
  BY <1>1, StepOf DEF Register
<1>3. UNCHANGED <<now, topic, codes, events, announced, applied, phone, email, code,
                  player, token, documents, walletOf, expectedSeq>>
  BY DEF Register, local
<1>4. CASE Taken(phone[s])
  <2>1. UNCHANGED <<services, faults>> /\ Ends(s, "failed")
    BY <1>3, <1>4 DEF Register, CreatedRequired, services
  <2>2. Continues(s) /\ step' = step
    BY <2>1 DEF Continues, Ends
  <2>3. TypeInv'
    BY <1>1, <1>3, <2>1, <2>2, CallContinues DEF TypeInv, services, LastStep, Verified
  <2> QED BY <1>1, <1>3, <2>1, <2>2, <2>3, PlainStep
<1>5. CASE ~Taken(phone[s])
  <2>1. PICK new, m : /\ new = [phone |-> phone[s], by |-> s]
                      /\ m = [type |-> "signUp", contact |-> phone[s], id |-> Len(accounts) + 1]
    OBVIOUS
  <2>2. /\ accounts' = Append(accounts, new) /\ outbox' = outbox \cup {m}
        /\ Answered(s)
    BY <1>5, <2>1 DEF Register, CreatedRequired
  <2>3. Continues(s)
    BY <1>2, <2>2 DEF Continues, LastStep
  <2>b. step' = [step EXCEPT ![s] = @ + 1] /\ faults' \in Nat
    BY <1>1, <2>2, AnsweredMoves
  <2>4. /\ accounts \in Seq(Account) /\ outbox \in SUBSET Message
        /\ step \in [Suites -> Nat \ {0}]
    BY <1>1 DEF TypeInv
  <2>5. phone[s] \in Phones /\ phone[s] # Nothing
    BY <1>1, <1>2 DEF Inv, ContactInv, TypeInv
  <2>6. new \in Account /\ m \in Message
    BY <2>1, <2>4, <2>5 DEF Account, Message, Contact
  <2>7. accounts' \in Seq(Account) /\ outbox' \in SUBSET Message
    BY <2>2, <2>4, <2>6
  <2>8. TypeInv'
    BY <1>1, <1>3, <2>3, <2>b, <2>7, CallContinues DEF TypeInv, LastStep, Verified
  <2>9. /\ Moves(s) /\ data' = data /\ outcome'[s] # "returned"
        /\ \A t \in Suites \ {s} : outcome'[t] = outcome[t] /\ step'[t] = step[t]
    BY <1>1, <2>3, CallContinues
  <2>10. step'[s] = 5 /\ \A t \in Suites : step[t] \in Nat
    BY <1>2, <2>b, <2>4
  <2>a. PICK p : p = Len(accounts')
    OBVIOUS
  <2>11. /\ p \in DOMAIN accounts' /\ accounts'[p] = new
         /\ p = Len(accounts) + 1 /\ Len(accounts) \in Nat
         /\ DOMAIN accounts' = DOMAIN accounts \cup {p}
         /\ \A n \in DOMAIN accounts : accounts'[n] = accounts[n]
    BY <2>2, <2>4, <2>a
  <2>12. Kept
    BY <1>3, <2>11 DEF Kept
  <2>13. ContactInv'
    BY <1>1, <1>2, <1>3, <2>9, ContactIsSame DEF Inv
  <2>14. MessageInv'
    <3>1. Sent' \subseteq Sent \cup {m}
      BY <1>3, <2>2 DEF Sent
    <3>2. Truthful(m)'
      BY <2>1, <2>5, <2>11 DEF Truthful
    <3>3. \A msg \in Sent : Truthful(msg)'
      BY <1>1, <2>12, TruthIsKept DEF Inv, MessageInv
    <3> QED BY <3>1, <3>2, <3>3 DEF MessageInv
  <2>15. CodeInv'
    BY <1>1, <1>3, <2>12, CodesAreSame DEF Inv
  <2>16. AccountInv'
    <3>1. Registered' = Registered \cup {s} /\ s \notin Registered
      BY <1>2, <2>9, <2>10 DEF Registered
    <3>2. IsFiniteSet(Registered)
      BY SuiteAssumption, FS_Subset DEF Registered
    <3>3. /\ Cardinality(Registered') = Cardinality(Registered) + 1
          /\ Cardinality(Registered) \in Nat
      BY <3>1, <3>2, FS_AddElement, FS_CardinalityType
    <3>4. /\ Len(accounts) <= Cardinality(Registered)
          /\ \A n \in DOMAIN accounts : accounts[n].by \in Registered
          /\ \A n, k \in DOMAIN accounts : accounts[n].phone = accounts[k].phone => n = k
      BY DEF Inv, AccountInv
    <3>5. Len(accounts') <= Cardinality(Registered')
      BY <2>a, <2>11, <3>3, <3>4
    <3>6. \A n \in DOMAIN accounts' : accounts'[n].by \in Registered'
      BY <2>1, <2>11, <3>1, <3>4
    <3>7. \A n \in DOMAIN accounts : accounts[n].phone # phone[s]
      BY <1>5 DEF Taken
    <3>8. \A n, k \in DOMAIN accounts' : accounts'[n].phone = accounts'[k].phone => n = k
      BY <2>1, <2>11, <3>4, <3>7
    <3> QED BY <3>5, <3>6, <3>8 DEF AccountInv
  <2>17. OwnInv'
    <3>1. \A t \in Suites : \A q : Own(t, q) => Own(t, q)'
      BY <1>1, <2>12, OwnIsKept
    <3>2. Own(s, p)'
      BY <1>3, <2>1, <2>11 DEF Own
    <3>3. p \in DOMAIN accounts' /\ \A n \in DOMAIN accounts : n \in DOMAIN accounts'
      BY <2>11
    <3>4. \A t \in Suites : /\ step[t] > 4 => \E q \in DOMAIN accounts : Own(t, q)
                            /\ step[t] > 5 => Own(t, player[t])
                            /\ step[t] > 6 => Own(t, token[t])
                            /\ walletOf[t] # Nothing => step[t] > 6 /\ walletOf[t] = player[t]
      BY DEF Inv, OwnInv
    <3>5. ASSUME NEW t \in Suites \ {s}
          PROVE  (/\ step[t] > 4 => \E q \in DOMAIN accounts : Own(t, q)
                  /\ step[t] > 5 => Own(t, player[t])
                  /\ step[t] > 6 => Own(t, token[t])
                  /\ walletOf[t] # Nothing => step[t] > 6 /\ walletOf[t] = player[t])'
      BY <1>3, <2>9, <3>1, <3>3, <3>4
    <3>6. ~(step'[s] > 5) /\ ~(step'[s] > 6) /\ walletOf'[s] = Nothing
      BY <1>2, <1>3, <2>10, <3>4
    <3>7. (\E q \in DOMAIN accounts : Own(s, q))'
      BY <3>2, <3>3
    <3> QED BY <3>5, <3>6, <3>7 DEF OwnInv
  <2>18. WalletInv'
    BY <1>1, <1>2, <1>3, <2>9, <2>12, WalletsAreSame DEF Inv
  <2>19. ReturnInv'
    BY <1>1, <1>3, <2>9, ReturnsAreSame DEF Inv
  <2> QED BY <2>8, <2>13, <2>14, <2>15, <2>16, <2>17, <2>18, <2>19 DEF Inv
<1> QED BY <1>4, <1>5

\* A call learns of its player from the message of its number, and opens the
\* session with the number: both times it is the account that it made itself.
LEMMA LearnsOfPlayerKeepsInv ==
    ASSUME Inv, NEW s \in Suites, TakeSignUp(s) \/ Authorize(s)
    PROVE  Inv'
<1>1. TypeInv /\ outcome[s] = "running"
  BY DEF Inv, TakeSignUp, Authorize, At
<1>2. \/ step[s] = 5 /\ TakeSignUp(s)
      \/ step[s] = 6 /\ Authorize(s)
  BY <1>1, StepOf DEF TakeSignUp, Authorize
<1>3. GoOn(s) /\ Continues(s)
  BY <1>2 DEF TakeSignUp, Authorize, Continues, LastStep
<1>4. UNCHANGED <<now, faults, topic, outbox, codes, accounts, events, announced, applied, phone,
                  email, code, documents, walletOf, expectedSeq>>
  BY DEF TakeSignUp, Authorize, services
<1>5. PICK p \in Nat : /\ Own(s, p)
                       /\ \/ step[s] = 5 /\ player' = [player EXCEPT ![s] = p] /\ token' = token
                          \/ step[s] = 6 /\ token' = [token EXCEPT ![s] = p] /\ player' = player
  <2>1. PICK q \in DOMAIN accounts : Own(s, q)
    BY <1>2 DEF Inv, OwnInv
  <2>2. \A n \in DOMAIN accounts : accounts[n].phone = phone[s] => n = q
    BY <2>1 DEF Own, Inv, AccountInv
  <2>3. q \in Nat
    BY <1>1, Elements
  <2>4. CASE step[s] = 5 /\ TakeSignUp(s)
    <3>1. PICK m \in Sent : /\ m.type = "signUp" /\ m.contact = phone[s]
                            /\ Oldest("signUp", phone[s]) = m.id /\ Truthful(m)
      BY <1>1, <2>4, FoundIsSent DEF Inv, TakeSignUp
    <3>2. m.id = q
      BY <2>2, <3>1 DEF Truthful
    <3> QED BY <2>1, <2>3, <2>4, <3>1, <3>2 DEF TakeSignUp
  <2>5. CASE step[s] = 6 /\ Authorize(s)
    <3>1. token' = [token EXCEPT ![s] = q]
      BY <2>2, <2>5 DEF Authorize
    <3> QED BY <2>1, <2>3, <2>5, <3>1 DEF Authorize
  <2> QED BY <1>2, <2>4, <2>5
<1>6. player' \in [Suites -> Nat] /\ token' \in [Suites -> Nat]
  <2>1. player \in [Suites -> Nat] /\ token \in [Suites -> Nat]
    BY <1>1 DEF TypeInv
  <2> QED BY <1>5, <2>1
<1>7. TypeInv'
  BY <1>1, <1>3, <1>4, <1>6, CallContinues DEF TypeInv, LastStep, Verified
<1>8. /\ Moves(s) /\ data' = data /\ outcome'[s] # "returned"
      /\ \A t \in Suites \ {s} : outcome'[t] = outcome[t] /\ step'[t] = step[t]
  BY <1>1, <1>3, CallContinues
<1>9. Kept /\ Sent' = Sent
  BY <1>4, KeptIfSame DEF Sent
<1>10. /\ \A t \in Suites : step[t] \in Nat /\ (t # s => step'[t] = step[t])
       /\ step'[s] = step[s] + 1 /\ step[s] \in {5, 6}
  BY <1>1, <1>2, <1>3 DEF TypeInv, GoOn
<1>11. /\ player \in [Suites -> Nat] /\ token \in [Suites -> Nat]
       /\ \A t \in Suites \ {s} : player'[t] = player[t] /\ token'[t] = token[t]
  BY <1>1, <1>5 DEF TypeInv
<1>12. ContactInv'
  BY <1>1, <1>2, <1>4, <1>8, ContactIsSame DEF Inv
<1>13. MessageInv' /\ CodeInv'
  BY <1>1, <1>4, <1>9, MessagesAreSame, CodesAreSame DEF Inv
<1>14. AccountInv'
  BY <1>1, <1>2, <1>4, <1>8, AccountsAreSame DEF Inv
<1>15. OwnInv'
  <2>1. \A t \in Suites : \A q : Own(t, q) <=> Own(t, q)'
    BY <1>4 DEF Own
  <2>2. \A t \in Suites : /\ step[t] > 4 => \E q \in DOMAIN accounts : Own(t, q)
                          /\ step[t] > 5 => Own(t, player[t])
                          /\ step[t] > 6 => Own(t, token[t])
                          /\ walletOf[t] # Nothing => step[t] > 6 /\ walletOf[t] = player[t]
    BY DEF Inv, OwnInv
  <2>3. ASSUME NEW t \in Suites \ {s}
        PROVE  (/\ step[t] > 4 => \E q \in DOMAIN accounts : Own(t, q)
                /\ step[t] > 5 => Own(t, player[t])
                /\ step[t] > 6 => Own(t, token[t])
                /\ walletOf[t] # Nothing => step[t] > 6 /\ walletOf[t] = player[t])'
    BY <1>4, <1>10, <1>11, <2>1, <2>2
  <2>4. (/\ step[s] > 4 => \E q \in DOMAIN accounts : Own(s, q)
         /\ step[s] > 5 => Own(s, player[s])
         /\ step[s] > 6 => Own(s, token[s])
         /\ walletOf[s] # Nothing => step[s] > 6 /\ walletOf[s] = player[s])'
    BY <1>4, <1>5, <1>10, <1>11, <2>1, <2>2
  <2> QED BY <2>3, <2>4 DEF OwnInv
<1>16. WalletInv'
  <2>1. CASE step[s] = 5
    <3>1. token' = token
      BY <1>5, <2>1
    <3> QED BY <1>1, <1>4, <1>8, <1>9, <2>1, <3>1, WalletsAreSame DEF Inv
  <2>2. CASE step[s] = 6
    <3>1. token' = [token EXCEPT ![s] = p]
      BY <1>5, <2>2
    <3>2. p \in Players
      BY <1>1, <1>5, AccountIsPlayer DEF Inv, Own
    <3>3. events[p] = << >>
      <4>1. ASSUME NEW t \in Suites, Own(t, p), step[t] > 13 PROVE FALSE
        BY <1>5, <2>2, <4>1 DEF Own
      <4> QED BY <3>2, <4>1 DEF Inv, WalletInv
    <3>4. \A t \in Suites : \A q : Own(t, q) => Own(t, q)'
      BY <1>4 DEF Own
    <3>5. \A q \in Players : announced'[q] <= Len(events'[q]) /\ applied'[q] <= Len(events'[q])
      BY <1>4 DEF Inv, WalletInv
    <3>6. ASSUME NEW q \in Players, events'[q] # << >>
          PROVE  \E t \in Suites : Own(t, q)' /\ Verified(t) /\ step'[t] > 13
      <4>1. PICK t \in Suites : Own(t, q) /\ Verified(t) /\ step[t] > 13
        BY <1>4, <3>6 DEF Inv, WalletInv
      <4> QED BY <1>10, <2>2, <3>4, <4>1
    <3>7. ASSUME NEW t \in Suites, Verified(t), step'[t] > 6
          PROVE  events'[token'[t]] = Made(t)'
      <4>1. CASE t = s
        BY <1>4, <1>10, <1>11, <2>2, <3>1, <3>3, <4>1 DEF Made
      <4>2. CASE t # s
        <5>1. events[token[t]] = Made(t)
          BY <1>10, <3>7, <4>2 DEF Inv, WalletInv
        <5>2. Made(t)' = Made(t)
          BY <1>10, <4>2 DEF Made
        <5> QED BY <1>4, <1>11, <4>2, <5>1, <5>2
      <4> QED BY <4>1, <4>2
    <3>8. ASSUME NEW t \in Deposits, step'[t] > 17 PROVE expectedSeq'[t] = 3
      <4>1. t \in Suites
        BY SuiteAssumption
      <4> QED BY <1>4, <1>10, <2>2, <3>8, <4>1 DEF Inv, WalletInv
    <3> QED BY <3>5, <3>6, <3>7, <3>8 DEF WalletInv, Verified
  <2> QED BY <1>10, <2>1, <2>2
<1>17. ReturnInv'
  BY <1>1, <1>4, <1>8, <1>11, ReturnsAreSame DEF Inv
<1> QED BY <1>7, <1>12, <1>13, <1>14, <1>15, <1>16, <1>17 DEF Inv

\* A sequence that goes on with e.
LEMMA AppendIs ==
    ASSUME NEW S, NEW seq \in Seq(S), NEW e \in S, NEW longer \in Seq(S),
           Len(longer) = Len(seq) + 1, longer[Len(longer)] = e,
           \A i \in 1 .. Len(seq) : longer[i] = seq[i]
    PROVE  Append(seq, e) = longer
<1>1. /\ Append(seq, e) \in Seq(S) /\ Len(Append(seq, e)) = Len(longer)
      /\ \A i \in 1 .. Len(longer) : Append(seq, e)[i] = longer[i]
  OBVIOUS
<1> QED BY <1>1, SeqEqual

\* What a call does to its wallet: the next event of its own player, and of no
\* other one.
LEMMA WalletEventKeepsInv ==
    ASSUME Inv, NEW s \in Suites, NEW e \in {"limit", "deposit"},
           outcome[s] = "running", Verified(s), Answered(s),
           \/ step[s] \in {13, 14} /\ e = "limit"
           \/ step[s] = 16 /\ e = "deposit" /\ s \in Deposits,
           events' = [events EXCEPT ![token[s]] = Append(@, e)],
           UNCHANGED <<now, topic, outbox, codes, accounts, announced, applied, local>>
    PROVE  Inv'
<1>1. TypeInv
  BY DEF Inv
<1>2. step[s] \in {13, 14, 16}
  OBVIOUS
<1>3. Continues(s)
  BY <1>2 DEF Continues, LastStep
<1>4. UNCHANGED <<phone, email, code, player, token, documents, walletOf, expectedSeq>>
  BY DEF local
<1>a. step' = [step EXCEPT ![s] = @ + 1] /\ faults' \in Nat
  BY <1>1, AnsweredMoves
<1>5. Own(s, token[s])
  BY <1>2 DEF Inv, OwnInv
<1>6. token[s] \in Players
  BY <1>1, <1>5, AccountIsPlayer DEF Inv, Own
<1>7. /\ events \in [Players -> Seq({"limit", "deposit"})]
      /\ step \in [Suites -> Nat \ {0}] /\ announced \in [Players -> Nat]
      /\ applied \in [Players -> Nat]
  BY <1>1 DEF TypeInv
<1>8. /\ events' \in [Players -> Seq({"limit", "deposit"})]
      /\ events'[token[s]] = Append(events[token[s]], e)
      /\ \A p \in Players : p # token[s] => events'[p] = events[p]
  <2>1. Append(events[token[s]], e) \in Seq({"limit", "deposit"})
    BY <1>6, <1>7
  <2> QED BY <1>6, <1>7, <2>1
<1>9. TypeInv'
  BY <1>1, <1>3, <1>4, <1>a, <1>8, CallContinues DEF TypeInv, LastStep, Verified
<1>10. /\ Moves(s) /\ data' = data /\ outcome'[s] # "returned"
       /\ \A t \in Suites \ {s} : outcome'[t] = outcome[t] /\ step'[t] = step[t]
  BY <1>1, <1>3, CallContinues
<1>11. Kept /\ Sent' = Sent
  BY <1>4, KeptIfSame DEF Sent
<1>12. ContactInv'
  BY <1>1, <1>2, <1>4, <1>10, ContactIsSame DEF Inv
<1>13. MessageInv' /\ CodeInv'
  BY <1>1, <1>4, <1>11, MessagesAreSame, CodesAreSame DEF Inv
<1>14. AccountInv'
  BY <1>1, <1>2, <1>4, <1>10, AccountsAreSame DEF Inv
<1>15. OwnInv'
  BY <1>1, <1>2, <1>4, <1>10, <1>11, OwnIsSame DEF Inv
<1>16. WalletInv'
  <2>1. /\ step'[s] = step[s] + 1
        /\ \A t \in Suites \ {s} : step'[t] = step[t]
        /\ \A t \in Suites : step[t] \in Nat
    BY <1>7, <1>a
  <2>2. ASSUME NEW p \in Players
        PROVE  announced'[p] <= Len(events'[p]) /\ applied'[p] <= Len(events'[p])
    <3>1. /\ announced[p] <= Len(events[p]) /\ applied[p] <= Len(events[p])
          /\ announced[p] \in Nat /\ applied[p] \in Nat /\ Len(events[p]) \in Nat
      BY <1>7 DEF Inv, WalletInv
    <3>2. Len(events'[p]) \in {Len(events[p]), Len(events[p]) + 1}
      BY <1>7, <1>8
    <3> QED BY <3>1, <3>2
  <2>3. \A t \in Suites : \A q : Own(t, q) => Own(t, q)'
    BY <1>4 DEF Own
  <2>4. ASSUME NEW p \in Players, events'[p] # << >>
        PROVE  \E t \in Suites : Own(t, p)' /\ Verified(t) /\ step'[t] > 13
    <3>1. CASE p = token[s]
      BY <1>2, <1>5, <2>1, <2>3, <3>1
    <3>2. CASE p # token[s]
      <4>1. PICK t \in Suites : Own(t, p) /\ Verified(t) /\ step[t] > 13
        BY <1>8, <2>4, <3>2 DEF Inv, WalletInv
      <4> QED BY <2>1, <2>3, <4>1
    <3> QED BY <3>1, <3>2
  <2>5. ASSUME NEW t \in Suites, Verified(t), step'[t] > 6
        PROVE  events'[token'[t]] = Made(t)'
    <3>1. CASE t = s
      <4>1. events[token[s]] = Made(s)
        BY <1>2 DEF Inv, WalletInv
      <4>2. Append(Made(s), e) = Made(s)'
        <5>1. CASE step[s] = 13
          <6>1. Made(s) = << >> /\ Made(s)' = << "limit" >> /\ e = "limit"
            BY <2>1, <5>1 DEF Made
          <6> QED BY <6>1
        <5>2. CASE step[s] = 14
          <6>1. Made(s) = << "limit" >> /\ Made(s)' = << "limit", "limit" >> /\ e = "limit"
            BY <2>1, <5>2 DEF Made
          <6>2. Append(<< "limit" >>, "limit") = << "limit", "limit" >>
            <7> DEFINE old == << "limit" >>
                       new == << "limit", "limit" >>
            <7>1. /\ Len(old) = 1 /\ old[1] = "limit"
                  /\ Len(new) = 2 /\ new[1] = "limit" /\ new[2] = "limit"
                  /\ old \in Seq({"limit"}) /\ new \in Seq({"limit"})
              OBVIOUS
            <7>2. \A i \in 1 .. Len(old) : i = 1
              BY <7>1
            <7> HIDE DEF old, new
            <7>3. /\ Len(new) = Len(old) + 1 /\ new[Len(new)] = "limit"
                  /\ \A i \in 1 .. Len(old) : new[i] = old[i]
              BY <7>1, <7>2
            <7>4. Append(old, "limit") = new
              BY <7>1, <7>3, AppendIs
            <7> QED BY <7>4 DEF old, new
          <6> QED BY <6>1, <6>2
        <5>3. CASE step[s] = 16
          <6>1. /\ Made(s) = << "limit", "limit" >> /\ e = "deposit"
                /\ Made(s)' = << "limit", "limit", "deposit" >>
            BY <2>1, <5>3 DEF Made
          <6>2. Append(<< "limit", "limit" >>, "deposit") = << "limit", "limit", "deposit" >>
            <7> DEFINE old == << "limit", "limit" >>
                       new == << "limit", "limit", "deposit" >>
            <7>1. /\ Len(old) = 2 /\ old[1] = "limit" /\ old[2] = "limit"
                  /\ Len(new) = 3 /\ new[1] = "limit" /\ new[2] = "limit" /\ new[3] = "deposit"
                  /\ old \in Seq({"limit", "deposit"}) /\ new \in Seq({"limit", "deposit"})
              OBVIOUS
            <7>2. \A i \in 1 .. Len(old) : i = 1 \/ i = 2
              BY <7>1
            <7> HIDE DEF old, new
            <7>3. /\ Len(new) = Len(old) + 1 /\ new[Len(new)] = "deposit"
                  /\ \A i \in 1 .. Len(old) : new[i] = old[i]
              BY <7>1, <7>2
            <7>4. Append(old, "deposit") = new
              BY <7>1, <7>3, AppendIs
            <7> QED BY <7>4 DEF old, new
          <6> QED BY <6>1, <6>2
        <5> QED BY <1>2, <5>1, <5>2, <5>3
      <4> QED BY <1>4, <1>8, <3>1, <4>1, <4>2
    <3>2. CASE t # s
      <4>1. events[token[t]] = Made(t) /\ Own(t, token[t])
        BY <2>1, <2>5, <3>2 DEF Inv, WalletInv, OwnInv
      <4>2. token[t] # token[s]
        BY <1>5, <3>2, <4>1 DEF Own
      <4>3. token[t] \in Players
        BY <1>1, <4>1, AccountIsPlayer DEF Inv, Own
      <4>4. Made(t)' = Made(t)
        BY <2>1, <3>2 DEF Made
      <4> QED BY <1>4, <1>8, <4>1, <4>2, <4>3, <4>4
    <3> QED BY <3>1, <3>2
  <2>6. ASSUME NEW t \in Deposits, step'[t] > 17 PROVE expectedSeq'[t] = 3
    <3>1. t \in Suites
      BY SuiteAssumption
    <3> QED BY <1>2, <1>4, <2>1, <2>6, <3>1 DEF Inv, WalletInv
  <2> QED BY <2>2, <2>4, <2>5, <2>6 DEF WalletInv, Verified
<1>17. ReturnInv'
  BY <1>1, <1>4, <1>10, ReturnsAreSame DEF Inv
<1> QED BY <1>9, <1>12, <1>13, <1>14, <1>15, <1>16, <1>17 DEF Inv

\* Setting a limit of the created player keeps every part of the invariant.
LEMMA SetLimitKeepsInv ==
    ASSUME Inv, NEW s \in Suites, SetLimit(s)
    PROVE  Inv'
<1>1. outcome[s] = "running" /\ Answered(s)
  BY DEF SetLimit, At
<1>2. Verified(s) /\ step[s] \in {13, 14}
  BY <1>1, StepOf DEF SetLimit, Inv
<1> QED BY <1>1, <1>2, WalletEventKeepsInv DEF SetLimit

\* Creating the deposit keeps every part of the invariant.
LEMMA CreateDepositKeepsInv ==
    ASSUME Inv, NEW s \in Suites, CreateDeposit(s)
    PROVE  Inv'
<1>1. TypeInv /\ outcome[s] = "running"
  BY DEF CreateDeposit, At, Inv
<1>2. Verified(s) /\ step[s] = 16
  BY <1>1, StepOf DEF CreateDeposit
<1>3. CASE s \in Deposits
  BY <1>1, <1>2, <1>3, WalletEventKeepsInv DEF CreateDeposit
<1>4. CASE s \notin Deposits
  <2>1. UNCHANGED <<services, faults>> /\ GoOn(s)
    BY <1>4 DEF CreateDeposit, services
  <2>2. Continues(s)
    BY <1>2, <2>1 DEF Continues, LastStep
  <2>3. UNCHANGED <<now, phone, email, code, player, token, documents, walletOf, expectedSeq>>
    BY DEF CreateDeposit, local
  <2>4. TypeInv'
    BY <1>1, <2>1, <2>2, <2>3, CallContinues DEF TypeInv, services, LastStep, Verified
  <2> QED BY <1>1, <1>2, <1>4, <2>1, <2>2, <2>3, <2>4, PlainStep
<1> QED BY <1>3, <1>4

\* The wallet that a call finds is its player's.
LEMMA GetWalletsKeepsInv ==
    ASSUME Inv, NEW s \in Suites, GetWallets(s)
    PROVE  Inv'
<1>1. TypeInv /\ outcome[s] = "running"
  BY DEF GetWallets, At, Inv
<1>2. step[s] = IF Verified(s) THEN 15 ELSE 7
  BY <1>1, StepOf DEF GetWallets
<1>3. Continues(s)
  BY <1>2 DEF GetWallets, Continues, LastStep
<1>4. UNCHANGED <<now, services, phone, email, code, player, token, documents, expectedSeq>>
  BY DEF GetWallets
<1>5. \/ walletOf' = [walletOf EXCEPT ![s] = player[s]] /\ UNCHANGED faults
      \/ UNCHANGED walletOf /\ faults' = faults + 1
  BY DEF GetWallets
<1>6. TypeInv'
  <2>1. walletOf' \in [Suites -> Nat] /\ faults' \in Nat
    <3>1. /\ walletOf \in [Suites -> Nat] /\ player \in [Suites -> Nat]
          /\ player[s] \in Nat /\ faults \in Nat
      BY <1>1 DEF TypeInv
    <3>2. walletOf' \in [Suites -> Nat]
      BY <1>5, <3>1
    <3> QED BY <1>5, <3>1, <3>2
  <2> QED BY <1>1, <1>3, <1>4, <2>1, CallContinues DEF TypeInv, services, LastStep, Verified
<1>7. s \in Deposits => step[s] \notin {16, 17}
  BY <1>2
<1>8. CASE UNCHANGED walletOf
  BY <1>1, <1>2, <1>3, <1>4, <1>6, <1>7, <1>8, PlainStep
<1>9. CASE walletOf' = [walletOf EXCEPT ![s] = player[s]]
  <2>1. UNCHANGED <<topic, outbox, codes, accounts, events, announced, applied>>
    BY <1>4 DEF services
  <2>2. Kept /\ Sent' = Sent
    BY <1>4, <2>1, KeptIfSame DEF Sent
  <2>3. /\ Moves(s) /\ data' = data /\ outcome'[s] # "returned"
        /\ \A t \in Suites \ {s} : outcome'[t] = outcome[t] /\ step'[t] = step[t]
    BY <1>1, <1>3, CallContinues
  <2>4. ContactInv'
    BY <1>1, <1>2, <1>4, <2>3, ContactIsSame DEF Inv
  <2>5. MessageInv' /\ CodeInv'
    BY <1>1, <1>4, <2>2, MessagesAreSame, CodesAreSame DEF Inv
  <2>6. AccountInv'
    BY <1>1, <1>2, <2>1, <2>3, AccountsAreSame DEF Inv
  <2>7. walletOf \in [Suites -> Nat] /\ step \in [Suites -> Nat \ {0}]
    BY <1>1 DEF TypeInv
  <2>8. OwnInv'
    <3>1. \A t \in Suites : \A q : Own(t, q) <=> Own(t, q)'
      BY <1>4, <2>1 DEF Own
    <3>2. \A t \in Suites : \/ step'[t] = step[t]
                            \/ t = s /\ step'[t] = step[t] + 1
      BY <2>3, <2>7 DEF Moves
    <3>3. \A t \in Suites : /\ step'[t] > 4 <=> step[t] > 4
                            /\ step'[t] > 5 <=> step[t] > 5
                            /\ step'[t] > 6 <=> step[t] > 6
      BY <1>2, <2>7, <3>2
    <3>4. \A t \in Suites : walletOf'[t] # Nothing => step'[t] > 6 /\ walletOf'[t] = player[t]
      BY <1>2, <1>9, <2>7, <3>3 DEF Inv, OwnInv
    <3> QED BY <1>4, <2>1, <3>1, <3>3, <3>4 DEF Inv, OwnInv
  <2>9. WalletInv'
    BY <1>1, <1>2, <1>4, <1>7, <2>1, <2>2, <2>3, WalletsAreSame DEF Inv
  <2>10. ReturnInv'
    <3>1. \A t \in Suites \ {s} : walletOf'[t] = walletOf[t]
      BY <1>9, <2>7
    <3> QED BY <1>1, <1>4, <2>3, <3>1, ReturnsAreSame DEF Inv
  <2> QED BY <1>6, <2>4, <2>5, <2>6, <2>8, <2>9, <2>10 DEF Inv
<1> QED BY <1>5, <1>8, <1>9

\* The deposit of a call is the third event of its wallet.
LEMMA TakeDepositEventKeepsInv ==
    ASSUME Inv, NEW s \in Suites, TakeDepositEvent(s)
    PROVE  Inv'
<1>1. TypeInv /\ outcome[s] = "running" /\ GoOn(s)
  BY DEF TakeDepositEvent, At, Inv
<1>2. Verified(s) /\ step[s] = 17
  BY <1>1, StepOf DEF TakeDepositEvent
<1>3. Continues(s)
  BY <1>1, <1>2 DEF Continues, LastStep
<1>4. UNCHANGED <<now, faults, services, phone, email, code, player, token, documents, walletOf>>
  BY DEF TakeDepositEvent
<1>5. CASE s \notin Deposits
  <2>1. UNCHANGED expectedSeq
    BY <1>5 DEF TakeDepositEvent
  <2>2. TypeInv'
    BY <1>1, <1>3, <1>4, <2>1, CallContinues DEF TypeInv, services, LastStep, Verified
  <2> QED BY <1>1, <1>2, <1>3, <1>4, <1>5, <2>1, <2>2, PlainStep
<1>6. CASE s \in Deposits
  <2>1. PICK n \in DepositSeqs(player[s]) : expectedSeq' = [expectedSeq EXCEPT ![s] = n]
    BY <1>6 DEF TakeDepositEvent
  <2>2. Own(s, player[s]) /\ Own(s, token[s])
    BY <1>2 DEF Inv, OwnInv
  <2>3. player[s] = token[s] /\ player[s] \in Players
    BY <1>1, <2>2, OwnIsOne, AccountIsPlayer DEF Inv, Own
  <2>4. events[player[s]] = << "limit", "limit", "deposit" >>
    <3>1. Made(s) = << "limit", "limit", "deposit" >>
      BY <1>2, <1>6 DEF Made
    <3> QED BY <1>2, <2>3, <3>1 DEF Inv, WalletInv
  <2>5. announced[player[s]] \in Nat /\ announced[player[s]] <= 3
    BY <1>1, <2>3, <2>4 DEF Inv, WalletInv, TypeInv
  <2>6. n = 3
    <3>1. n \in 1 .. announced[player[s]] /\ events[player[s]][n] = "deposit"
      BY DEF DepositSeqs
    <3>2. n \in {1, 2, 3}
      BY <2>5, <3>1
    <3> QED BY <2>4, <3>1, <3>2
  <2>7. expectedSeq \in [Suites -> Nat] /\ step \in [Suites -> Nat \ {0}]
    BY <1>1 DEF TypeInv
  <2>8. expectedSeq' \in [Suites -> Nat]
    BY <2>1, <2>6, <2>7
  <2>9. TypeInv'
    BY <1>1, <1>3, <1>4, <2>8, CallContinues DEF TypeInv, services, LastStep, Verified
  <2>10. UNCHANGED <<topic, outbox, codes, accounts, events, announced, applied>>
    BY <1>4 DEF services
  <2>11. Kept /\ Sent' = Sent
    BY <1>4, <2>10, KeptIfSame DEF Sent
  <2>12. /\ Moves(s) /\ data' = data /\ outcome'[s] # "returned"
         /\ \A t \in Suites \ {s} : outcome'[t] = outcome[t] /\ step'[t] = step[t]
    BY <1>1, <1>3, CallContinues
  <2>13. ContactInv'
    BY <1>1, <1>2, <1>4, <2>12, ContactIsSame DEF Inv
  <2>14. MessageInv' /\ CodeInv'
    BY <1>1, <1>4, <2>11, MessagesAreSame, CodesAreSame DEF Inv
  <2>15. AccountInv'
    BY <1>1, <1>2, <2>10, <2>12, AccountsAreSame DEF Inv
  <2>16. OwnInv'
    BY <1>1, <1>2, <1>4, <2>11, <2>12, OwnIsSame DEF Inv
  <2>17. WalletInv'
    <3>1. /\ step'[s] = 18
          /\ \A t \in Suites \ {s} : step'[t] = step[t]
          /\ \A t \in Suites : step[t] \in Nat
      BY <1>1, <1>2, <2>7 DEF GoOn
    <3>2. \A t \in Suites : \A q : Own(t, q) => Own(t, q)'
      BY <1>4, <2>10 DEF Own
    <3>3. \A t \in Suites : /\ step[t] > 13 <=> step'[t] > 13
                            /\ step[t] > 6 <=> step'[t] > 6
                            /\ Made(t)' = Made(t)
      BY <1>2, <1>6, <3>1 DEF Made
    <3>4. ASSUME NEW q \in Players, events'[q] # << >>
          PROVE  \E t \in Suites : Own(t, q)' /\ Verified(t) /\ step'[t] > 13
      <4>1. PICK t \in Suites : Own(t, q) /\ Verified(t) /\ step[t] > 13
        BY <2>10, <3>4 DEF Inv, WalletInv
      <4> QED BY <3>2, <3>3, <4>1
    <3>5. ASSUME NEW t \in Deposits, step'[t] > 17 PROVE expectedSeq'[t] = 3
      <4>1. t \in Suites
        BY SuiteAssumption
      <4> QED BY <2>1, <2>6, <2>7, <3>1, <3>5, <4>1 DEF Inv, WalletInv
    <3>6. /\ \A q \in Players : announced'[q] <= Len(events'[q]) /\ applied'[q] <= Len(events'[q])
          /\ \A t \in Suites : Verified(t) /\ step'[t] > 6 => events'[token'[t]] = Made(t)'
      BY <1>4, <2>10, <3>3 DEF Inv, WalletInv
    <3> QED BY <3>4, <3>5, <3>6 DEF WalletInv, Verified
  <2>18. ReturnInv'
    BY <1>1, <1>4, <2>12, ReturnsAreSame DEF Inv
  <2> QED BY <2>9, <2>13, <2>14, <2>15, <2>16, <2>17, <2>18 DEF Inv
<1> QED BY <1>5, <1>6

\* A call returns what it has: its session, and its wallet as it is by now.
LEMMA ReadWalletKeepsInv ==
    ASSUME Inv, NEW s \in Suites, ReadWallet(s)
    PROVE  Inv'
<1>1. TypeInv /\ outcome[s] = "running"
  BY DEF ReadWallet, At, Inv
<1>2. step[s] = LastStep(s) /\ step[s] \in {8, 18} /\ (step[s] = 18 <=> Verified(s))
  BY <1>1, StepOf DEF ReadWallet, LastStep
<1>3. UNCHANGED <<now, faults, services, phone, email, code, player, token, documents, walletOf,
                  expectedSeq>>
  BY DEF ReadWallet, local
<1>4. CASE Ends(s, "failed")
  <2>1. Continues(s) /\ step' = step
    BY <1>4 DEF Continues, Ends
  <2>2. TypeInv'
    BY <1>1, <1>3, <2>1, CallContinues DEF TypeInv, services, LastStep, Verified
  <2> QED BY <1>1, <1>3, <2>1, <2>2, PlainStep
<1>5. CASE ~Ends(s, "failed")
  <2> DEFINE seq == applied[walletOf[s]]
             result == [auth |-> token[s], of |-> walletOf[s], shows |-> seq]
  <2>1. /\ walletOf[s] # Nothing /\ Acceptable(s, seq)
        /\ data' = [data EXCEPT ![s] = result]
        /\ outcome' = [outcome EXCEPT ![s] = "returned"]
        /\ UNCHANGED step
    BY <1>5 DEF ReadWallet
  <2>2. walletOf[s] \in Players
    BY <1>1, <1>2, <2>1, AccountIsPlayer DEF Inv, OwnInv, Own
  <2>3. result \in [auth : Nat, of : Nat, shows : Nat]
    <3>1. token[s] \in Nat /\ walletOf[s] \in Nat /\ seq \in Nat
      BY <1>1, <2>2 DEF TypeInv
    <3> QED BY <3>1
  <2>4. /\ data \in [Suites -> [auth : Nat, of : Nat, shows : Nat]]
        /\ outcome \in [Suites -> {"running", "returned", "failed", "panicked"}]
    BY <1>1 DEF TypeInv
  <2>5. /\ data' \in [Suites -> [auth : Nat, of : Nat, shows : Nat]]
        /\ data'[s] = result /\ \A t \in Suites \ {s} : data'[t] = data[t]
        /\ outcome' \in [Suites -> {"running", "returned", "failed", "panicked"}]
        /\ \A t \in Suites \ {s} : outcome'[t] = outcome[t]
    <3> HIDE DEF result
    <3> QED BY <2>1, <2>3, <2>4
  <2>6. TypeInv'
    BY <1>1, <1>3, <2>1, <2>5 DEF TypeInv, services, LastStep, Verified
  <2>7. UNCHANGED <<topic, outbox, codes, accounts, events, announced, applied>>
    BY <1>3 DEF services
  <2>8. Kept /\ Sent' = Sent
    BY <1>3, <2>7, KeptIfSame DEF Sent
  <2>9. Moves(s)
    BY <2>1 DEF Moves
  <2>10. ContactInv'
    BY <1>1, <1>3, <2>1, <2>9, ContactIsSame DEF Inv
  <2>11. MessageInv' /\ CodeInv'
    BY <1>1, <1>3, <2>8, MessagesAreSame, CodesAreSame DEF Inv
  <2>12. AccountInv'
    BY <1>1, <2>1, <2>7, <2>9, AccountsAreSame DEF Inv
  <2>13. OwnInv'
    BY <1>1, <1>3, <2>1, <2>8, <2>9, OwnIsSame DEF Inv
  <2>14. WalletInv'
    BY <1>1, <1>3, <2>1, <2>7, <2>8, <2>9, WalletsAreSame DEF Inv
  <2>15. ReturnInv'
    <3>1. s \in Deposits => seq = 3
      <4>1. ASSUME s \in Deposits PROVE step[s] = 18
        BY <1>2, <4>1, SuiteAssumption DEF Verified
      <4> QED BY <2>1, <4>1 DEF Acceptable, Inv, WalletInv
    <3>2. (/\ step[s] = LastStep(s) /\ walletOf[s] # Nothing
           /\ data[s].auth = token[s] /\ data[s].of = walletOf[s]
           /\ s \in Deposits => data[s].shows = 3)'
      BY <1>2, <1>3, <2>1, <2>5, <3>1 DEF LastStep, Verified
    <3>3. ASSUME NEW t \in Suites \ {s}, outcome'[t] = "returned"
          PROVE  (/\ step[t] = LastStep(t) /\ walletOf[t] # Nothing
                  /\ data[t].auth = token[t] /\ data[t].of = walletOf[t]
                  /\ t \in Deposits => data[t].shows = 3)'
      BY <1>3, <2>1, <2>5, <3>3 DEF Inv, ReturnInv, LastStep, Verified
    <3> QED BY <3>2, <3>3 DEF ReturnInv
  <2> QED BY <2>6, <2>10, <2>11, <2>12, <2>13, <2>14, <2>15 DEF Inv
<1> QED BY <1>4, <1>5

-----------------------------------------------------------------------------
(* The results. *)

\* No step of the services or of a call breaks the invariant.
LEMMA NextInv ==
    Inv /\ [Next]_vars => Inv'
<1> SUFFICES ASSUME Inv, [Next]_vars PROVE Inv'
  OBVIOUS
<1>1. CASE Tick \/ Publish
  BY <1>1, TickKeepsInv, PublishKeepsInv
<1>2. CASE \E p \in Players : Announce(p) \/ Apply(p)
  BY <1>2, DeliveryKeepsInv
<1>3. ASSUME NEW s \in Suites, CallStep(s) \/ StepFails(s) PROVE Inv'
  BY <1>3, WaitingKeepsInv, RequestPhoneKeepsInv, RequestEmailKeepsInv, TakeCodeKeepsInv,
     RegisterKeepsInv, LearnsOfPlayerKeepsInv, SetLimitKeepsInv, CreateDepositKeepsInv,
     GetWalletsKeepsInv, TakeDepositEventKeepsInv, ReadWalletKeepsInv DEF CallStep
<1>4. CASE UNCHANGED vars
  BY <1>4, StutterKeepsInv
<1> QED BY <1>1, <1>2, <1>3, <1>4 DEF Next

\* The invariant holds for any calls, of either kind.
LEMMA AlwaysInv ==
    Spec => []Inv
BY InitInv, NextInv, PTL DEF Spec

\* A call returns the player that it registered itself, with the session and
\* the wallet of that player, however many calls run beside it and whatever
\* numbers they draw (create_veryfied_player.go:138-163, 347-365).
THEOREM ReturnsOwn ==
    Spec => []ReturnsOwnPlayer
<1>1. ASSUME Inv PROVE ReturnsOwnPlayer
  <2> SUFFICES ASSUME NEW s \in Suites, outcome[s] = "returned"
               PROVE  data[s].auth = data[s].of /\ accounts[data[s].auth].by = s
    BY DEF ReturnsOwnPlayer
  <2>1. /\ step[s] = LastStep(s) /\ walletOf[s] # Nothing
        /\ data[s].auth = token[s] /\ data[s].of = walletOf[s]
    BY <1>1 DEF Inv, ReturnInv
  <2>2. step[s] > 6
    BY <2>1 DEF LastStep
  <2>3. step[s] > 5
    BY <2>1 DEF LastStep
  <2>4. Own(s, player[s]) /\ Own(s, token[s]) /\ walletOf[s] = player[s]
    BY <1>1, <2>1, <2>2, <2>3 DEF Inv, OwnInv
  <2> QED BY <1>1, <2>1, <2>4, OwnIsOne DEF Inv, Own
<1> QED BY <1>1, AlwaysInv, PTL

\* The code that a call holds was issued for its own contact: for another call
\* only if that one uses the same contact
\* (create_veryfied_player.go:76-79, 224, 235-238).
THEOREM ForeignCodeNeedsShared ==
    Spec => []ForeignCodeNeedsSharedContact
<1>1. ASSUME Inv PROVE ForeignCodeNeedsSharedContact
  <2> SUFFICES ASSUME NEW s \in Suites, code[s] # Nothing, codes[code[s]].by # s
               PROVE  Shares(s)
    BY DEF ForeignCodeNeedsSharedContact
  <2>1. PICK t : t = codes[code[s]].by
    OBVIOUS
  <2>2. t \in Suites /\ SameContact(t, s) /\ t # s
    BY <1>1, <2>1, Elements DEF Inv, CodeInv
  <2> QED BY <2>2 DEF SameContact, Shares
<1> QED BY <1>1, AlwaysInv, PTL

\* A call that asked for a deposit returns the wallet with both limits and the
\* deposit, and with nothing after it (create_veryfied_player.go:329-366).
THEOREM DepositIsReturned ==
    Spec => []DepositIsInWallet
<1>1. ASSUME Inv PROVE DepositIsInWallet
  <2> SUFFICES ASSUME NEW s \in Deposits, outcome[s] = "returned"
               PROVE  LET shown == {events[data[s].of][n] : n \in 1 .. data[s].shows} IN
                      shown = {"limit", "deposit"} /\ data[s].shows = 3
    BY DEF DepositIsInWallet
  <2>1. s \in Suites /\ Verified(s)
    BY SuiteAssumption DEF Verified
  <2>2. /\ step[s] = 18 /\ walletOf[s] # Nothing
        /\ data[s].of = walletOf[s] /\ data[s].shows = 3
    BY <1>1, <2>1 DEF Inv, ReturnInv, LastStep
  <2>3. Own(s, player[s]) /\ Own(s, token[s]) /\ walletOf[s] = player[s]
    BY <1>1, <2>1, <2>2 DEF Inv, OwnInv
  <2>4. walletOf[s] = token[s]
    BY <1>1, <2>3, OwnIsOne DEF Inv
  <2>5. Made(s) = << "limit", "limit", "deposit" >>
    BY <2>2 DEF Made
  <2>6. events[data[s].of] = << "limit", "limit", "deposit" >>
    BY <1>1, <2>1, <2>2, <2>4, <2>5 DEF Inv, WalletInv
  <2>7. 1 .. data[s].shows = {1, 2, 3}
    BY <2>2
  <2> QED BY <2>2, <2>6, <2>7
<1> QED BY <1>1, AlwaysInv, PTL
=============================================================================
