----------------------------- MODULE WalletTest -----------------------------
(***************************************************************************)
(* One test of the suites under test/e2e/wallet and test/e2e/limits, from  *)
(* the moment its player exists: it asks the services for something, waits *)
(* for the event of the wallet that says it was done, and then compares    *)
(* what the other places show - Kafka topics, Redis, the database, the     *)
(* APIs - with that event.                                                 *)
(*                                                                         *)
(* Each place follows the wallet at a pace of its own.  Messages are found *)
(* as KafkaConsumer and NatsFinder show: the oldest that matches, or none  *)
(* when the wait is over.  The read of Redis is the call of RedisRetry,    *)
(* attempt by attempt.                                                     *)
(*                                                                         *)
(* A definition named X_Something is X with one plausible slip; it is used *)
(* only to show that the properties notice that slip.                      *)
(***************************************************************************)
EXTENDS RedisRetry, TestSteps, FiniteSets, SequencesExt, Mappers

CONSTANTS MaxOther,   \* bound: events of the wallet that no step asked for
          MaxAlone    \* bound: updates of the wallet when no test runs

VARIABLES
    test,       \* which test; "none" when only the call of Redis is looked at
    param,      \* the words of the adjustment it asks for
    blockers,   \* the blockers it asks for
    told,       \* the numbers in the event of the adjustment (external)
    lost,       \* places that never show what the test waits for (external)
    events,     \* kinds of the wallet's events, in order (external)
    due,        \* kinds the services have accepted and not yet done (external)
    found       \* Sequence of the event the test found last

world == <<param, blockers, told, lost, events, due>>
progress == <<stepVars, found>>
testVars == <<test, world, progress>>

-----------------------------------------------------------------------------
(* The steps. *)

Step(does, place, kinds) == [does |-> does, place |-> place, kinds |-> kinds, async |-> FALSE]
Async(step) == [step EXCEPT !.async = TRUE]

\* A request that the services accept, and the kinds of events it leads to.
Act(kinds) == Step("act", "api", kinds)
\* Waits until the place shows the oldest message or row of that kind.
Find(place, kind) == Step("find", place, <<kind>>)
\* The same for the projection, by the number of the event found before.
FindNumbered(kind) == Step("numbered", "projection", <<kind>>)
\* Looks for a row through a connector that the suite never opens
\* (switch_wallet_test.go:202).
NoConnector == Step("panic", "db", << >>)
\* Asks an API once.
Look(place) == Step("read", place, << >>)
LookForAbsence(place) == Step("absence", place, << >>)
\* The wallet in Redis.
GetWithSeqCheck == Step("GetWithSeqCheck", "redis", << >>)
GetWithRetry == Step("GetWithRetry", "redis", << >>)

\* TestTurnoverLimitCreate, and the same for the other two limits.
LimitCreate ==
    << Act(<<"limitCreated">>), Find("topic", "limitCreated"), Find("stream", "limitCreated"),
       Async(Look("public")), Async(Look("cap")), Async(GetWithSeqCheck),
       Async(Find("projection", "limitCreated")), Async(Find("db", "limitCreated")) >>

\* TestTurnoverLimitUpdate
Projection_Oldest(kind) == Find("projection", kind)
Projection(kind) == FindNumbered(kind)

LimitUpdate ==
    << Act(<<"limitCreated">>), Find("topic", "limitCreated"),
       Act(<<"limitUpdated">>), Find("topic", "limitUpdated"), Find("stream", "limitUpdated"),
       Async(Look("public")), Async(Look("cap")), Async(GetWithSeqCheck),
       Async(Projection("limitUpdated")) >>

\* TestTurnoverLimitReset
LimitReset ==
    << Act(<<"limitCreated">>), Find("topic", "limitCreated"), Find("stream", "limitCreated"),
       Act(<<"balanceAdjusted", "limitReset">>), Find("stream", "limitReset"),
       Async(Look("public")), Async(Look("cap")), Async(GetWithRetry),
       Async(FindNumbered("limitReset")) >>

\* TestBalanceAdjustment, and the test with a table of parameters
Adjust ==
    << Act(<<"balanceAdjusted">>), Find("stream", "balanceAdjusted"),
       Async(Find("projection", "balanceAdjusted")), GetWithRetry >>
AdjustTable_EventAside ==
    << Act(<<"balanceAdjusted">>), Async(Find("stream", "balanceAdjusted")),
       Async(Find("projection", "balanceAdjusted")), Async(GetWithSeqCheck) >>
AdjustTable ==
    << Act(<<"balanceAdjusted">>), Find("stream", "balanceAdjusted"),
       Async(Find("projection", "balanceAdjusted")), Async(GetWithSeqCheck) >>

\* TestDeposit
Deposit ==
    << Act(<<"depositedMoney">>), Find("topic", "depositedMoney"), Find("stream", "depositedMoney"),
       Async(Find("projection", "depositedMoney")), Async(GetWithSeqCheck),
       Async(Find("db", "depositedMoney")) >>

\* TestBlockAmount and TestDeleteBlockAmount
Block ==
    << Act(<<"balanceAdjusted">>), Act(<<"blockStarted">>), Find("stream", "blockStarted"),
       Async(Find("projection", "blockStarted")), GetWithRetry, Look("cap"), Look("cap") >>
Unblock ==
    << Act(<<"balanceAdjusted">>), Act(<<"blockStarted">>), Act(<<"blockRevoked">>),
       Find("stream", "blockRevoked"), Async(Find("projection", "blockRevoked")) >>

\* TestCreateWallet, TestSwitchWallet and TestRemoveWallet
AddWallet ==
    << Act(<<"walletAdded">>), Find("stream", "walletAdded"), GetWithRetry,
       Find("db", "walletAdded"), Look("public") >>
SwitchWallet ==
    << Act(<<"walletAdded">>), Find("stream", "walletAdded"),
       Act(<<"defaultStarted", "defaultUnset", "defaultSet">>), Find("stream", "defaultStarted"),
       Find("stream", "defaultUnset"), Find("stream", "defaultSet"), Async(NoConnector) >>
RemoveWallet ==
    << Act(<<"walletAdded">>), Find("stream", "walletAdded"),
       Act(<<"walletDisabled">>), Find("stream", "walletDisabled"),
       Async(LookForAbsence("public")), Async(GetWithRetry), Async(Find("db", "walletDisabled")) >>

\* TableTestBlockers
Blockers ==
    << Act(<<"blockersSet">>), Find("stream", "blockersSet"),
       Async(Find("db", "blockersSet")), Async(Look("cap")) >>

Program ==
    [name \in {"limitCreate", "limitUpdate", "limitReset", "adjust", "adjustTable", "deposit", "block",
               "unblock", "addWallet", "switchWallet", "removeWallet", "blockers", "none"} |->
        CASE name = "limitCreate" -> LimitCreate
          [] name = "limitUpdate" -> LimitUpdate
          [] name = "limitReset" -> LimitReset
          [] name = "adjust" -> Adjust
          [] name = "adjustTable" -> AdjustTable
          [] name = "deposit" -> Deposit
          [] name = "block" -> Block
          [] name = "unblock" -> Unblock
          [] name = "addWallet" -> AddWallet
          [] name = "switchWallet" -> SwitchWallet
          [] name = "removeWallet" -> RemoveWallet
          [] name = "blockers" -> Blockers
          [] name = "none" -> << >>]

Steps == Program[test]

\* Tests whose player comes with the wallet that was read from Redis.
ReadsWalletFirst == {"limitCreate", "limitUpdate", "limitReset", "adjustTable", "deposit"}

\* What the test is about: the last event it asks for.
Target(name) ==
    LET acts == {k \in DOMAIN Program[name] : Program[name][k].does = "act"}
    IN  Last(Program[name][Max(acts)].kinds)

-----------------------------------------------------------------------------
(* The adjustment of a balance: words asked for, numbers in the event. *)

Words(direction, operation, reason) ==
    [direction |-> direction, operation |-> operation, reason |-> reason]

\* ParamBalanceAdjustment
Params ==
    {Words("Increase", "Correction", "Malfunction"),
     Words("Increase", "Deposit", "OperationalMistake"),
     Words("Increase", "Gift", "BalanceCorrection"),
     Words("Increase", "Cashback", "OperationalMistake"),
     Words("Increase", "TournamentPrize", "Malfunction"),
     Words("Increase", "Jackpot", "BalanceCorrection"),
     Words("Decrease", "Correction", "BalanceCorrection"),
     Words("Decrease", "Withdrawal", "OperationalMistake"),
     Words("Decrease", "Gift", "Malfunction"),
     Words("Decrease", "ReferralCommission", "OperationalMistake"),
     Words("Decrease", "TournamentPrize", "BalanceCorrection"),
     Words("Decrease", "Jackpot", "Malfunction")}

\* The numbers that the wallet service gives to the words (external).
Meant(words) ==
    [direction |-> IF words.direction = "Increase" THEN 1 ELSE 0,
     operation |-> CHOOSE n \in 0 .. 7 :
                      words.operation = << "Correction", "Deposit", "Withdrawal", "Gift",
                          "ReferralCommission", "Cashback", "TournamentPrize", "Jackpot" >>[n + 1],
     reason |-> CHOOSE n \in 0 .. 2 :
                   words.reason = << "Malfunction", "OperationalMistake", "BalanceCorrection" >>[n + 1]]

\* What the test compares the numbers of the event with.
Expected(words) ==
    [direction : {MapDirectionToNats(words.direction)},
     operation : MapOperationTypeToNats(words.operation),
     reason : MapReasonToNats(words.reason)]

Adjusts == {"adjust", "adjustTable"}

-----------------------------------------------------------------------------
(* The blockers, which can be what every wallet begins with. *)

\* ParamBlockers, and the blockers of a new wallet
BlockersParams == [gambling : BOOLEAN, betting : BOOLEAN]
NewBlockers == [gambling |-> TRUE, betting |-> TRUE]

\* Places that show what the test asks for before its event, and without it.
Standing(step) ==
    test = "blockers" /\ blockers = NewBlockers /\ step.place \in {"db", "cap"}

-----------------------------------------------------------------------------
(* What the steps share, and where they look. *)

\* The fields of testData that a step sets, and those it may read.
Sets(step) ==
    CASE step.does = "act" -> {"request"}
      [] step.place = "topic" -> {"message"}
      [] step.place = "stream" -> {"event"}
      [] step.place = "projection" -> {"projection"}
      [] step.place = "public" -> {"response"}
      [] OTHER -> {}
Reads(step) == {"request", "message", "event"} \ Sets(step)

\* The places where the steps of a test look for its target.
Places(name) ==
    {step.place : step \in {s \in Range(Program[name]) :
                               s.does # "act" /\ (s.kinds = << >> \/ s.kinds[1] = Target(name))}}

\* Events of an adjustment that are wrong in few of the numbers.
Alike(p, q) == p.operation = q.operation \/ (p.direction = q.direction /\ p.reason = q.reason)

TestInit ==
    /\ Idle
    /\ test \in DOMAIN Program
    /\ lost \in {{}} \cup {{p} : p \in Places(test)}
    /\ param \in CASE test = "adjustTable" -> Params
                   [] OTHER -> {Words("Increase", "Deposit", "OperationalMistake")}
    /\ blockers \in IF test = "blockers" THEN BlockersParams ELSE {NewBlockers}
    /\ told \in {Meant(p) : p \in {q \in Params :
                  q = param \/ (test \in Adjusts /\ lost = {} /\ Alike(param, q))}}
    /\ events = IF test = "none" THEN << >> ELSE << "walletCreated" >>
    /\ due = << >>
    /\ IF test \in ReadsWalletFirst
       THEN held = "wallet" /\ wallet = [seq |-> 1, keys |-> {}]
       ELSE /\ wallet = NoWallet
            /\ held \in (IF test = "none" THEN {"absent", "empty"} ELSE {"absent"})
    /\ NothingDone /\ found = 0

-----------------------------------------------------------------------------
(* The services under test (external). *)

Happen ==
    /\ due # << >>
    /\ events' = Append(events, Head(due)) /\ due' = Tail(due)
    /\ UNCHANGED <<vars, test, param, blockers, told, lost, progress>>

\* An event of the wallet that the test did not ask for.
Other ==
    /\ test # "none"
    /\ Cardinality({n \in DOMAIN events : events[n] = "other"}) < MaxOther
    /\ events' = Append(events, "other")
    /\ UNCHANGED <<vars, test, param, blockers, told, lost, due, progress>>

\* The wallet in Redis follows its events; nobody looks after the call.
Apply ==
    /\ "redis" \in Places(test) /\ pc # "returned"
    /\ wallet.seq < Len(events)
    /\ ~("redis" \in lost /\ events[wallet.seq + 1] = Target(test))
    /\ WriteWallet /\ wallet'.keys = {}
    /\ UNCHANGED testVars

Services == Happen \/ Other \/ Apply

-----------------------------------------------------------------------------
(* The test. *)

Spawn == SpawnNext(Steps) /\ UNCHANGED <<vars, test, world, found>>

Accepted200(k) ==
    /\ Steps[k].does = "act"
    /\ due' = due \o Steps[k].kinds
    /\ Ends(k, "passed")
    /\ UNCHANGED <<vars, test, param, blockers, told, lost, events, found>>

\* Types of the projection do not tell what happened to a limit.
MessageType(kind) ==
    IF kind \in {"limitCreated", "limitUpdated", "limitReset"} THEN "limitChanged" ELSE kind

Matching(step) ==
    {n \in DOMAIN events :
        CASE step.does = "numbered" -> n = found
          [] step.does = "find" /\ step.place = "projection" -> MessageType(events[n]) = MessageType(step.kinds[1])
          [] OTHER -> events[n] = step.kinds[1]}
Oldest(step) == CHOOSE n \in Matching(step) : \A m \in Matching(step) : n <= m

\* The event that the test is about never comes to the place in time, and the
\* place needs it to show what the step looks for.
Missing(step) == step.place \in lost /\ step.kinds[1] = Target(test) /\ ~Standing(step)

Compares_No(step) == FALSE
Compares(step) == test \in Adjusts /\ step.place \in {"stream", "projection"}
Agrees(step, numbers) == Compares(step) => numbers = told

FindEvent(k) ==
    /\ Steps[k].place = "stream"
    /\ ~Missing(Steps[k]) /\ Matching(Steps[k]) # {}
    /\ found' = Oldest(Steps[k])
    /\ \E numbers \in Expected(param) :
          Ends(k, IF Agrees(Steps[k], numbers) THEN "passed" ELSE "failed")
    /\ UNCHANGED <<vars, test, world>>

\* limits.v2, or the topic of transactions: written when the request is
\* accepted, whether or not the wallet has its event already.
FindMessage(k) ==
    /\ Steps[k].place = "topic"
    /\ ~Missing(Steps[k])
    /\ \E n \in DOMAIN (events \o due) : (events \o due)[n] = Steps[k].kinds[1]
    /\ Ends(k, "passed")
    /\ UNCHANGED <<vars, test, world, found>>

FindProjection(k) ==
    /\ Steps[k].place = "projection"
    /\ ~Missing(Steps[k]) /\ Matching(Steps[k]) # {}
    /\ \E numbers \in Expected(param) :
          Ends(k, IF Oldest(Steps[k]) = found /\ Agrees(Steps[k], numbers) THEN "passed" ELSE "failed")
    /\ UNCHANGED <<vars, test, world, found>>

\* ExecuteWithRetry: the row is there at the first attempt, or at a later one,
\* when those before have marked the step (database.go:25-37).
FindRow(k) ==
    /\ Steps[k].does = "find" /\ Steps[k].place = "db"
    /\ ~Missing(Steps[k]) /\ Matching(Steps[k]) # {}
    /\ \E verdict \in {"passed", "failed"} : Ends(k, verdict)
    /\ UNCHANGED <<vars, test, world, found>>

\* Tests that only Assert what they found; the others Require it or dereference
\* it (remove_wallet_test.go:178, 225).
OnlyAsserts == {"removeWallet"}

\* The wait is over: nothing was found.
FindNothing(k) ==
    /\ Steps[k].does \in {"find", "numbered"}
    /\ Missing(Steps[k])
    /\ Ends(k, IF test \in OnlyAsserts THEN "failed" ELSE "fatal")
    /\ UNCHANGED <<vars, test, world, found>>

\* The connector is nil.
Panic(k) ==
    /\ Steps[k].does = "panic"
    /\ Ends(k, "fatal")
    /\ UNCHANGED <<vars, test, world, found>>

\* What a failed step is: an Assert failed, or a Require, or it dereferenced
\* what was not there.
Failures == {"failed", "fatal"}

\* Read at once, whatever is there: what the place shows of the events may
\* include the one found, unless that is lost, or not yet.  A list that is to
\* show nothing may also have come to no event at all.
ReadNow(k) ==
    /\ Steps[k].does \in {"read", "absence"}
    /\ \/ /\ Steps[k].place \notin lost \/ Standing(Steps[k]) \/ Steps[k].does = "absence"
          /\ Ends(k, "passed")
       \/ \E verdict \in Failures : Ends(k, verdict)
    /\ UNCHANGED <<vars, test, world, found>>

\* The API answers with an error: no list, and so nothing in it.
RequestFails(k) ==
    /\ Steps[k].does \in {"read", "absence"}
    /\ faults < MaxFaults /\ faults' = faults + 1
    /\ \E verdict \in IF Steps[k].does = "absence" THEN {"passed"} ELSE Failures : Ends(k, verdict)
    /\ UNCHANGED <<held, wallet, asked, i, pc, lastErr, result, err, reads, sawEmpty, test, world, found>>

BeginRead(k) ==
    /\ Steps[k].does \in {"GetWithRetry", "GetWithSeqCheck"}
    /\ Begin(Steps[k].does, IF Steps[k].does = "GetWithSeqCheck" THEN found ELSE 0)
    /\ UNCHANGED testVars

\* TestBalanceAdjustment compares LastSeqNumber with the event's number; the
\* others look for what the event brought.
Tells(seq) ==
    IF test = "adjust" THEN seq = found ELSE \E n \in 1 .. seq : events[n] = Target(test)

EndRead(k) ==
    /\ Steps[k].place = "redis" /\ pc = "returned"
    /\ Ends(k, IF err = "error" THEN "fatal" ELSE IF Tells(result.seq) THEN "passed" ELSE "failed")
    /\ UNCHANGED <<vars, test, world, found>>

StepOf(k) ==
    \/ Accepted200(k) \/ FindEvent(k) \/ FindMessage(k) \/ FindProjection(k) \/ FindRow(k)
    \/ FindNothing(k) \/ Panic(k) \/ ReadNow(k) \/ RequestFails(k) \/ BeginRead(k) \/ EndRead(k)

TestStep == Spawn \/ \E k \in UnderWay(Steps) : StepOf(k)

TestNext ==
    \/ test = "none" /\ Next /\ wallet'.seq <= MaxAlone /\ UNCHANGED testVars
    \/ Services
    \/ TestStep
    \/ test # "none" /\ CallStep /\ UNCHANGED testVars

allVars == <<vars, testVars>>
TestSpec == TestInit /\ [][TestNext]_allVars

\* The goroutines of the steps go on, and the services do what they accepted
\* and report it, but for what is lost.
TestFairSpec ==
    /\ TestSpec
    /\ WF_allVars(TestStep)
    /\ WF_allVars(CallStep /\ UNCHANGED testVars)
    /\ WF_allVars(Happen)

-----------------------------------------------------------------------------

\* A test that passed has seen what it asked for wherever it looked: a place
\* that never shows the event, and an event with wrong numbers, always fail the
\* test, although its steps run side by side and some only mark a failure and
\* go on.  Two places tell nothing: the list in which a removed wallet must be
\* absent, as it also is from the answer of a request that failed
\* (remove_wallet_test.go:188-198); and, when the blockers asked for are those
\* of a new wallet, the row and the answer of GetBlockers, which show them
\* anyway (update_blockers_test.go:66, 156-182).
PassedMeansShown ==
    Ended(Steps) /\ failed = {} /\ test # "none" =>
        /\ told = Meant(param)
        /\ \/ lost = {}
           \/ test = "removeWallet" /\ lost = {"public"}
           \/ test = "blockers" /\ blockers = NewBlockers /\ lost \subseteq {"db", "cap"}

\* When every place shows everything in time and nothing is wrong, the only
\* steps that can fail are those that read before the place has come to the
\* event: one look at an API, a row that is not there at the first attempt,
\* GetWithRetry, or GetWithSeqCheck when the wallet has moved past the number or
\* not come to it within the attempts - and the step without a connector.  A
\* search in a topic or in the stream never takes another event for the one it
\* is about (turnover_limit_test.go:166-170, 423-430, 630-633,
\* balance_adjustment_test.go:239-246).
OnlyHastyReadsFail ==
    lost = {} /\ told = Meant(param) /\ faults = 0 =>
        \A k \in failed :
            CASE Steps[k].does \in {"read", "absence", "panic"} -> TRUE
              [] Steps[k].does = "GetWithRetry" -> result.seq # found
              [] Steps[k].does = "GetWithSeqCheck" -> \A n \in DOMAIN reads : reads[n].seq # found
              [] OTHER -> Steps[k].place = "db"

\* No two steps that are under way at once use a field of testData that one of
\* them sets: what an asynchronous step reads was set before it was started
\* (balance_adjustment_parametrized_test.go:253-297).
NoDataRace ==
    \A p, q \in UnderWay(Steps) : p # q =>
        Sets(Steps[p]) \cap (Sets(Steps[q]) \cup Reads(Steps[q])) = {}

\* Every test ends, and no goroutine of it is left behind: also when a step
\* waits for what never comes, and when the key in Redis holds garbage for ever.
TestEnds == <>[](Ended(Steps) /\ pc \in {"idle", "returned"})
=============================================================================
