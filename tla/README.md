# Verification of CB_auto

CB_auto is a Go framework of end-to-end tests for a gambling platform. The
tests call the platform's HTTP APIs and then wait for the effects: a message in
Kafka, an event in NATS, a value in Redis, a row in MySQL. This directory holds
TLA+ modules of the code that calls and waits, configurations that check them
with TLC, and proofs that TLAPS checks. The platform is not modelled for its
own sake: it appears as external actions that may do whatever the clients have
to cope with.

Contents: [1 The system](#1-the-system) ·
[2 The modules](#2-the-modules) ·
[3 The runs](#3-the-runs) ·
[4 Fairness](#4-fairness) ·
[5 Proofs](#5-proofs) ·
[6 What the code does that a reader may not expect](#6-what-the-code-does-that-a-reader-may-not-expect) ·
[7 Not modelled](#7-not-modelled) ·
[8 Plan](#8-plan)

## 1 The system

| Part | Source | State | Operations | Hard behaviour |
|---|---|---|---|---|
| Kafka client | `internal/transport/kafka/kafka.go` | ring buffer per topic, table of subscribers, context, goroutines | `readMessages`, `SubscribeToTopic`, `FindMessageByFilter`, `Unsubscribe`, `close` | one reader and two goroutines per call share channels; channels are closed under the sender; the snapshot and the live stream must join without gap or overlap |
| Shared Kafka instance | same file, 123-159 | `instance`, `once`, `refCount` | `GetInstance`, `CloseInstance` | suites run in parallel, may fail before they take the client, and may forget to give it back |
| NATS client | `internal/transport/nats/nats.go` | wait group, context, subscriptions | `FindMessageInStream`, `Close` | a callback that blocks on a channel nobody reads, late acknowledgements, `wg.Add` against `wg.Wait` |
| Redis client | `internal/transport/redis/redis.go` | none but a call's own | `GetWithRetry`, `GetWithSeqCheck` | the key changes between attempts; one value is decoded into again and again |
| Token storage | `internal/client/cap/token_storage.go` | token, expiry, RWMutex | `GetToken`, `refreshToken` | two tests around a lock; failed refreshes are cached |
| HTTP client | `internal/client/client.go`, `types`, `factory` | none but a call's own | `makeRequest`, `DoRequest` | path parameters in random order, errors of four kinds in one result |
| Database reads | `internal/repository` | none but a call's own | `ExecuteWithRetry`, seven repositories | filters in random order, wrapped errors, a step failed by an attempt that is repeated |
| Default steps | `pkg/utils/default_steps` | `registrationData` of a call | `CreateVerifiedPlayer`, `CreatePlayerWithFullRegistration` | parallel calls share topics and may share contacts; four services are awaited in turn |
| API methods | `internal/client/{cap,public}` | none | 28 methods of the CAP API, 24 of the public one | a placeholder that no caller fills, an empty id in a path |
| Random data, mappers | `pkg/utils/rndstr.go`, `pkg/mappers` | none | `Get`, the `Map...` functions | lengths at their limits, characters of two bytes, words that two numbers share |
| Tests | `test/e2e` | `testData` of a test | synchronous and asynchronous steps | steps that share `testData` without a lock; places that follow the wallet at their own pace; a failed Assert goes on, a failed Require does not |
| Models, config, connectors, report helpers | `internal/config`, `internal/repository/connector.go`, `pkg` | none | — | not modelled, see section 7 |

How they interact. A suite takes the shared Kafka client in `BeforeAll` and
releases it in `AfterAll` (KafkaInstance). Its steps call the API through the
HTTP client (HttpClient), with a token from the storage for the CAP API
(TokenStorage), and wait through `FindMessageByFilter` (KafkaConsumer),
`FindMessageInStream` (NatsFinder), `GetWithRetry` and `GetWithSeqCheck`
(RedisRetry) or a repository (Repository). The default steps are the longest
of these sequences, and parallel suites run them side by side (Onboarding).
After them a test has steps of its own (TestSteps): those of the wallet and
limit suites compare Kafka, NATS, Redis, the database and the APIs with one
event (WalletTest, on top of RedisRetry); those of the catalogue suites make
one request after another and read the rows (CatalogueTest, on top of
ApiMethods and HttpClient).

What makes each part correct, in a sentence:

- Kafka client: a call is given each message of its topic that was buffered
  when it subscribed, or came later, exactly once; it comes back empty only for
  a reason; nothing is left running after the close.
- Shared instance: whoever holds a reference has a live client; one client at a
  time reads for the group; without a leak it is closed in the end.
- NATS client: the earliest match is found, and `Close` waits for the calls
  that entered before it, and returns.
- Redis client: success means that the value was really read at that number.
- Token storage: one refresh per expiry, never an older token, a bad one is
  given up.
- HTTP client: the path does not depend on the order of a map; the four
  outcomes can be told apart.
- Database reads: the query selects what was asked; an answer is the truth of
  the last query.
- Default steps: a call returns its own player and the wallet as its deposit
  left it, whatever other calls do in the same topics.
- API methods: every placeholder of a path is filled in by the parameters that
  the suites pass.
- Random data: as long as asked for, and of the form that the services accept.
- Tests: a test that passed has seen, or done, all that it says; with services
  that work only the reads that do not wait can fail; no two steps that run at
  once write and read the same field; every test ends.

## 2 The modules

State variables have the names of the code's fields and locals; a program
counter (`pc`, `readerPc`, ...) says where a goroutine stands. Code that runs
entirely under a mutex and does not block is one action. In every module a
definition `X_Something` is `X` with one plausible slip, kept to show that some
property notices it; nothing else uses it.

**BoundedLog, RingBuffer.** `RingBuffer` is the array with `head` and `count`
of kafka.go:73-109. Its abstract specification `BoundedLog` keeps the last
`Size` messages as a sequence. `KeepsTheMostRecent` is the refinement: the
window is what `GetAll` returns.

**TopicFeed, KafkaConsumer.** `KafkaConsumer` has one action per step of each
goroutine that another can see. Reader of a topic: `ReaderTop`,
`ReadMessage`/`ReadError`/`ReadCancelled`, `BufferMessage` (ring and copy of the
table under the lock), `NextSubscriber`, then `ReaderSend`, `ReaderDone`,
`ReaderStop`, `ReaderBlock` or `ReaderPanic` for one `select`. Replay goroutine:
`ReplaySend`, `ReplayEnd`, `ReplayBlock`, `ReplayPanic`. Call:
`Subscribe`/`SubscribeClosed`, `Receive`/`ReceiveClosed`, `GiveUp`,
`Unsubscribe`. Close: `Cancel`, then `CloseSubscribers`. A `select` looks at its
cases in an unknown order, and a send on a closed channel panics when it is
looked at before a ready case is chosen; so where the channel is closed and
`done` is ready, both `ReaderDone` and `ReaderPanic` are possible. `TopicFeed`
is what a test may rely on, without goroutines, channels or locks;
`DeliversExactlyOnce` is the refinement. The ring is used here as the bounded
log that `ImplementsBoundedLog` and `BuffersAreRings` show it to be.

**KafkaInstance.** `GetInstance` and `CloseInstance` as single steps (they run
under `instanceMu`), the goroutines of each generation of the client, and
suites that run them from `BeforeAll` and `AfterAll`. A failed `BeforeAll` does
not keep `AfterAll` from running (`SetupFails`).

**TokenStorage.** The test under the read lock, the wait for the write lock,
the second test, the request, and the store. Time passes between any two.

**NatsFinder.** The stream, the callback of each subscription with its queue
and its blocked send, the finders, and `Close` in its three steps. The library
acknowledges a message when the callback has returned, so a callback that waits
for room may see its message again. `SubscribeFails` is an error of
`js.Subscribe`, which the library returns for a closed connection but also for a
stream it does not find, a subject it does not accept or a server that does not
answer: the call returns nil at once, whatever the state of the client
(`"refused"`).

**RedisRetry.** One call and the services that write the key meanwhile. All
attempts decode into one value, so maps are merged.

**Repository.** Building the WHERE clause, one field per step, because the
order is that of a Go map; then the attempts of `ExecuteWithRetry`; then what
the repository makes of the error. The four kinds of loop (`guards`, `skips`,
`warns`, `joins`) are the ways in which the seven repositories treat a field
that is not allowed.

**HttpClient.** One request: `FillIn` once per path parameter in any order, the
body, the headers, the exchange with its timeout, the decoding. A path is a
sequence of parts, so that braces in a value can be told from placeholders.

**Onboarding.** Two calls of the default steps side by side, one action per
`WithNewStep`. The clients appear as what their own modules show of them: the
oldest matching message of the topic, an event of the stream, a wallet at
exactly the expected number. The services issue codes, register players, and
publish and apply wallet events independently of each other. A step may fail
with nothing done (`StepFails`), or with its request done and the answer lost
(`Answered`).

**TestSteps.** How the steps of one test run: `WithNewStep` in order,
`WithNewAsyncStep` beside those that follow; what a failed Assert and a failed
Require end.

**WalletTest.** EXTENDS RedisRetry and TestSteps. Twelve programs stand for the
tests under `test/e2e/wallet` and `test/e2e/limits`; a step asks the services
(`Accepted200`), finds the oldest match in the stream, a topic, the projection
or the database (`FindEvent`, `FindMessage`, `FindProjection`, `FindRow`,
`FindNothing`), reads at once (`ReadNow`, `RequestFails`), runs the call of
RedisRetry attempt by attempt (`BeginRead`, `EndRead`), or dereferences a
connector that is nil (`Panic`). A row that is found may have been missed by an
attempt before, which marks the step (`FindRow`). The services do what
they accepted (`Happen`), write events nobody asked for (`Other`), and Redis
follows (`Apply`). At most one place never shows the event (`lost`), and the
numbers of an adjustment may be wrong (`told`). The test of the blockers asks
for any of the four combinations; one of them is what a new wallet has, and then
the row and the API show it without the event (`Standing`). With test `"none"` the call of
Redis is alone and the key is written in any way. **Mappers** holds the maps
from the words of an adjustment to the numbers of its event.

**ApiMethods.** Every method of the two APIs as its path template, the
parameter that `fmt.Sprintf` appends, and what it sends; `Call` hands them to
`DoRequest`. `GivenBySuites` is what its callers pass.

**CatalogueTest.** EXTENDS ApiMethods, RandomStrings and TestSteps. Nineteen
programs stand for the suites of brands, categories, collections, games and
labels. Every request is the request of HttpClient, step by step; a row is
read in one step, as Repository shows. A request that is given up may still be
served (`ServeLate`), the database follows the API (`Show`). A step whose
answer lacks the list that it indexes panics (`Verdicts`). Test `"client"` is
a request of HttpClient alone, `"api"` every method alone, `"data"` draws one
text or date of **RandomStrings**, where a text is a sequence of the classes of
its characters.

**KafkaConsumerProofs** (with the ring), **KafkaInstanceProofs,
TokenStorageProofs, NatsFinderProofs, RepositoryProofs, WalletTestProofs** (with
RedisRetry), **CatalogueTestProofs** (with HttpClient, ApiMethods and
RandomStrings)**, OnboardingProofs.**
Lemmas and theorems, section 5. **MC…** modules give values to constants that a
`.cfg` cannot write.

## 3 The runs

Twelve runs; each takes a few minutes at most with two workers.

| Run | Module, cfg | Bounds | Shows |
|---|---|---|---|
| `ring_buffer` | MCRingBuffer, RingBuffer.cfg | 3 slots, 4 messages | `KeepsTheMostRecent` |
| `kafka_safety` | MCKafkaConsumer, KafkaSafety.cfg | 1 topic, 2 calls, ring 2, channel 1, 3 messages | `TableIsExact`, `InOrder`, `DeliversExactlyOnce` |
| `kafka_live` | MCKafkaConsumer, KafkaLive.cfg | 1 call, ring 2, channel 1, 4 messages, 1 failed read, close at any moment | `AnswerHasReason`, `NoGoroutineIsStuck`, `MatchIsFound`, `CallReturns`, `CloseEndsAll` |
| `kafka_assert` | MCKafkaConsumer, KafkaAssert.cfg | 1 topic, 2 calls | violation of `MatchIsAlwaysFound` |
| `instance` | MCKafkaInstance, Instance.cfg | 4 suites, one leaks, one may fail, 3 messages | `HolderHasInstance`, `CountIsHolders`, `ClosedReadersEnd`, `ClientIsClosed` |
| `token` | MCTokenStorage, Token.cfg | 3 callers, time up to 5 | `NeverAnOlderToken`, `BadTokenIsGivenUp`, `OneRefreshPerExpiry`, `CallsReturn` |
| `nats` | MCNatsFinder, Nats.cfg | 2 calls, channel 1, 3 messages, 1 redelivery | `AnswerHasReason`, `CloseWaitsForCalls`, `CloseReturns`, `MatchIsFound` |
| `redis` | MCWalletTest, Redis.cfg | 12 tests and the call alone, 3 attempts, wallet up to number 5 (3 alone), 4 combinations of blockers, 1 fault, 1 unasked event | `AnswerIsTrue`, `ResultIsMerged`, `PassedMeansShown`, `OnlyHastyReadsFail`, `NoDataRace`, `TestEnds` |
| `repository` | MCRepository, Repository.cfg | 3 fields of which 2 allowed, 2 values, 3 attempts, 2 changes | `AnswerIsTrue`, `SelectsWhatIsAsked` |
| `repository_assert` | MCRepository, RepositoryAssert.cfg | the same | violation of `NoRowsIsNil` |
| `http` | MCCatalogueTest, Http.cfg | 19 tests, every method, 3 templates, 3 values, 4 statuses, 2 faults, texts up to 6 | `PathIsOrderFree`, `OutcomeIsTold`, `PathNamesItem`, `PassedMeansDone`, `OnlyRowsFail`, `GeneratedFits`, `CatalogueEnds` |
| `onboard` | MCOnboarding, Onboard.cfg | a verified player with a deposit beside a full registration, 2 numbers, 2 seconds, 1 fault: a refusal, a wait in vain or a lost answer | `ReturnsOwnPlayer`, `ForeignCodeNeedsSharedContact`, `DepositIsInWallet`, `CallSucceeds` |

Why the bounds are enough.

- *Ring.* Three slots reach empty, partly filled, full and wrapped several
  times; the state space is complete because the contents repeat. The theorems
  cover every size.
- *Kafka, safety.* Two calls on one topic are what the interesting cases need:
  one leaves while the reader holds a copy of the table that still names it,
  and while the other waits behind it. A channel of one fills at once. A ring of
  two with three messages drops one before a late subscription. Two topics
  differ only in that `Unsubscribe` searches both; the theorems cover any number
  of topics, calls and messages and any capacity.
- *Kafka, liveness.* One call: the reader serves subscribers one after another
  and its only wait is for the current one, so everything that can hold it is a
  call that does not receive, has left, or is being closed. Four messages let
  the call's own be pushed out of the ring, be in it, or come later, and let
  the replay goroutine still send when the call has left. In this run a send
  can meet a closed channel as well (`crashed`), and the liveness properties
  say so: a crash is the one escape they allow besides the timer and the
  cancellation.
- *Instance.* One suite that leaks and one that may release without having
  taken anything, next to two ordinary ones, which are enough to close a client,
  create the next, and share it.
- *Token.* Three callers find the token stale at once: one refreshes, one waits
  for the lock, one comes later. Lives of 1 and 3 with a leeway of 1 give a
  token that is stale when issued and one that can be used.
- *NATS.* One call finds its message while its callback still sends, the other
  never finds its own; either may be refused its subscription, before Close or
  after. The channel of one makes the callback wait.
- *Redis, wallet tests.* Three attempts have a first, a middle and a last. A
  test that reads Redis asks for at most three events; the creation of the
  wallet and one unasked event make five. The steps of a test run
  side by side in every order; a second lost place would only add a reason to
  fail.
- *Repository.* Two changes let the row appear and disappear, or appear after a
  failed query.
- *HTTP, catalogue tests.* For the client alone, a path with both placeholders,
  one with the same placeholder twice, and values that contain either
  placeholder. For the tests, two faults: one may lose an answer and the other
  the repetition of the request. Texts of up to six characters with the limits
  of the code shrunk to five and four lie below, at and above each limit; the
  years 2007, 2000 and 1900 of the ages 18, 25 and 125 are an ordinary year and
  the two kinds of centuries.
- *Onboarding.* Two calls collide in every way a phone number can collide. The
  run has one call that confirms an e-mail, so the collision of two e-mails made
  in the same second (create_veryfied_player.go:224) is in the module but not
  reached by this run: two verified players have too many interleavings for
  TLC with liveness. In this run `ForeignCodeNeedsSharedContact` therefore
  shows phone numbers only; its theorem covers any number of verified players,
  and so the e-mails too.

## 4 Fairness

- *Kafka* (`Fairness`): weak fairness of each goroutine (`ReaderStep`,
  `ReplayStep`, `FinderStep`) and of the second step of `close`, for Go
  schedules every goroutine that can run. There is none on the broker, on the
  timer (`Expire`) or on calling `close`, so no property is helped by a timeout:
  `CallReturns` starts from a timer that has fired, and `MatchIsFound` holds
  without one. All goroutines stop when the process has crashed.
- *Instance*: suites end, and a goroutine whose context is cancelled goes on.
  A goroutine that waits for a message may wait for ever.
- *Token*: strong fairness of getting the write lock, since Go's `RWMutex` does
  not starve writers; weak fairness of the request, since the HTTP client has a
  timeout (shown by `http`).
- *NATS*: the goroutines run and the library delivers what the server has; no
  timer is relied on.
- *Wallet tests*: the goroutines of the steps run (`TestStep`, `CallStep`), and
  the services do what they accepted (`Happen`). Redis need not follow, and a
  place may lose the event.
- *Catalogue tests, HTTP*: the client's own steps and those of the test run
  (`TestStep`), and the timer of a request fires when it is set (`CallExpires`).
  The server need not answer nor finish.
- *Onboarding*: calls go on, and the services publish and apply what they
  accepted. How often they refuse, or an answer is lost, is bounded by
  `MaxFaults`, and `CallSucceeds` speaks of the behaviours without either.

## 5 Proofs

Every safety invariant of the passing runs, both refinements of an abstract
specification and the one action property are theorems, for every value of the
constants.

| Theorem | Module | States |
|---|---|---|
| `RingTypeCorrect` | KafkaConsumerProofs | `RingSpec => []RingTypeOK` for every size |
| `ReadsOnlyWritten` | KafkaConsumerProofs | `RingSpec => []OnlyWrittenSlotsRead` |
| `ImplementsBoundedLog` | KafkaConsumerProofs | `RingSpec => KeepsTheMostRecent` |
| `TypeCorrect` | KafkaConsumerProofs | `Spec => []TypeOK` |
| `TableAlwaysExact` | KafkaConsumerProofs | `Spec => []TableIsExact` |
| `NeverTwice` | KafkaConsumerProofs | `Spec => []NoDuplicates` |
| `AnswersHaveReasons` | KafkaConsumerProofs | `Spec => []AnswerHasReason` |
| `GivenInOrder` | KafkaConsumerProofs | `Spec => []InOrder` |
| `ImplementsTopicFeed` | KafkaConsumerProofs | `Spec => DeliversExactlyOnce` |
| `BuffersAreRings` | KafkaConsumerProofs | `Spec => Window(t)!Spec` for every topic `t` |
| `HoldersAreServed` | KafkaInstanceProofs | `Spec => []HolderHasInstance` |
| `CountIsExact` | KafkaInstanceProofs | `Spec => []CountIsHolders` |
| `FewLateReads` | KafkaInstanceProofs | `Spec => []LateReadsBounded` |
| `TokensAreInOrder` | TokenStorageProofs | `Spec => []NeverAnOlderToken` |
| `BadTokenEnds` | TokenStorageProofs | `Spec => []BadTokenIsGivenUp` |
| `RefreshesAreNeeded` | TokenStorageProofs | `Spec => OneRefreshPerExpiry` |
| `AnswersHaveReasons` | NatsFinderProofs | `Spec => []AnswerHasReason` |
| `CloseWaits` | NatsFinderProofs | `Spec => []CloseWaitsForCalls` |
| `AnswersAreTrue` | WalletTestProofs | `Spec => []AnswerIsTrue`, a call of Redis alone |
| `ResultsAreMerged` | WalletTestProofs | `Spec => []ResultIsMerged`, the same |
| `AnswersInTests` | WalletTestProofs | `TestSpec =>` both, for the calls that tests make |
| `PassedTestsWereShown` | WalletTestProofs | `TestSpec => []PassedMeansShown` |
| `SearchesDoNotFail` | WalletTestProofs | `TestSpec => []OnlyHastyReadsFail` |
| `StepsShareNothing` | WalletTestProofs | `TestSpec => []NoDataRace` |
| `QueriesSelectWhatIsAsked` | RepositoryProofs | `Spec => []SelectsWhatIsAsked` |
| `AnswersOfReadsAreTrue` | RepositoryProofs | `Spec => []AnswerIsTrue` |
| `PathsAreOrderFree` | CatalogueTestProofs | `PathIsOrderFree`, a request alone |
| `OutcomesAreTold` | CatalogueTestProofs | `OutcomeIsTold`, the same |
| `RequestsInTests` | CatalogueTestProofs | `TestSpec =>` both, for the requests that tests make |
| `PathsNameItems` | CatalogueTestProofs | `TestSpec => []PathNamesItem` |
| `PassedTestsAreDone` | CatalogueTestProofs | `TestSpec => []PassedMeansDone` |
| `OnlyHastyRowsFail` | CatalogueTestProofs | `TestSpec => []OnlyRowsFail` |
| `GeneratedDataFits` | CatalogueTestProofs | `TestSpec => []GeneratedFits` |
| `ReturnsOwn` | OnboardingProofs | `Spec => []ReturnsOwnPlayer` |
| `ForeignCodeNeedsShared` | OnboardingProofs | `Spec => []ForeignCodeNeedsSharedContact` |
| `DepositIsReturned` | OnboardingProofs | `Spec => []DepositIsInWallet` |

Assumptions: the named `ASSUME`s of the modules only.

- The ring has at least one slot (the code replaces a smaller size by 500), a
  channel at least one place; every call looks in one topic. Topics, calls and
  messages are otherwise arbitrary, and so is their number.
- `PhoneAssumption`: no number that is drawn is the empty string; all begin with
  `+371` (rndstr.go:380-383).
- `KeysAssumption`: the keys under which the suites give parameters are keys
  (they are the ones that ApiMethods lists).
- `FaultsAssumption`: at least one fault may happen. The bound would otherwise
  hide the first timer that fires, and `faults = 0` would not mean that nothing
  went wrong.
- `SizeAssumption`: the limits of RandomStrings are natural numbers, and the
  limit of a game's title (255, rndstr.go:359) is not below that of the other
  titles (25, rndstr.go:298, 327). `DataAssumption`: ages and the year are
  integers.
- `NoRowAssumption`, `MessageAssumption` and `CallerAssumption`: the values that
  stand for nothing are not values of the kind they are missing from.
- The bounds (`MaxFaults`, `MaxSeq`, `MaxTime` and the like) are any natural
  numbers: the theorems hold however far a bound is pushed.

*Ring.* `RingTypeOK` is inductive. What a slot holds is related to the window by
modular arithmetic: slot `(head - count + i + size) % size` before and after an
`Add`. The lemmas about `%` are what the step needs, with the three cases not
full, full, and wrapping. `BuffersAreRings` closes the gap between the ring and
the client: the window of every topic in KafkaConsumer behaves as the abstract
log `BoundedLog`, which the ring implements.

*Client.* None of the properties is inductive by itself. The invariant is

    AllInv = TypeInv /\ TableInv /\ DeliveryInv

- `TypeInv`: `TypeOK`, and a reader between `ReadMessage` and the end of its
  delivery holds a real message.
- `TableInv`: `TableIsExact`, and a call that was never made has no closed
  subscriber. The second half is needed because a subscription makes an entry
  for a call that must be open.
- `DeliveryInv`: `LogInv` (the log of a topic has no message twice, none that
  has not been fetched, and the ring is its end), `CopyInv` (the copy of the
  table a reader holds has no call twice, and only calls of that topic that have
  begun), and `WayInv` (what a call has taken, what is in its channel, what is
  still to be replayed and what the reader is about to send are different
  messages of the log).

Each is preserved by every action given those before it; `TypeStep`,
`TableStep`, `LogStep`, `CopyStep`, `WayReader` and `WayFinder` say so. Without
`CopyInv` and `WayInv` a snapshot taken while the reader holds an older copy of
the table could overlap it. For the refinement every action maps to `Publish`
(the reader puts a message in the ring and copies the table), `Open`
(subscribe), `Take` (receive), `Release` (unsubscribe, close, cancel, and sends
that drop), or to a stutter.

Two more invariants of the client rest on `AllInv`. `AnswerInv`: a call that
still searches has taken nothing that it wants, and its subscriber is open
unless the consumer was cancelled. `OrderInv`: the log of a topic is sorted;
of what a call was given, the replayed messages (up to `mark`, the last one when
it subscribed) are sorted, and so are the live ones; what is still to be replayed is
sorted, not newer than `mark`, and newer than what was replayed before; and the
message that the reader is about to send is newer than `mark` and than the live
ones.

*Instance.* `SuiteInv` (who has called `GetInstance`, and that generations do
not outnumber the suites), `GenInv` (the current generation is the last and
open, all others are cancelled), `HolderInv` (as long as releases are matched,
the count is the number of holders and each holds the current generation; the
cardinality of `Holders` is why the suites must be finitely many), `LateInv` (a
goroutine that took one message too many does not read again).

*Token storage.* `LockInv` (only the holder of the lock is past the second
test), `StaleInv` (the reason for its request still holds when it is sent),
`OrderInv` (the cached token and the one on its way are not older than any that
was handed out), `BadInv` (since when the empty token is cached).

*NATS.* `GroupInv`: the wait group is the number of calls between `Add` and
`Done`. `CloseInv`: past the wait, whoever is still inside joined too late.
`TurnInv`: of the messages ahead of a call - its channel, then the one its
callback holds - every one that it wants comes after all earlier ones that it
wants, and none that was delivered is missing. Redelivered copies may stand
anywhere behind their first occurrence. A refused call has no subscription, no
callback and no place in the wait group, which is the other half of
`AnswerHasReason`: an empty answer that neither the timer nor Close explains has
left nothing behind.

*Repository.* `QueryInv`: the conditions are exactly the visited filters that
the repository does not drop, and the argument at each place is the value of the
filter named there; that the two sequences stay aligned is what makes the order
of the map irrelevant. `AnswerInv`: until an attempt succeeds there is no record
and no error; afterwards the record is the row that the last query found.

*Redis.* `GoingOnInv`: while a call goes on, no value it has read was the
answer, and an attempt of `GetWithRetry` without an error saw the empty string.

*Wallet tests.* `TestInv` carries the invariant of the call and, of the test,
`StepsInv` (open steps are asynchronous and behind `at`), `WorldInv`, `FoundInv`
(`found` is the oldest event of the kind last searched for), `BehindInv` (the
wallet in Redis is behind the events, and never reaches the event if Redis does
not follow), `AskedInv` and `FirstInv` (whose call is under way, what it waits for
and what it may have read), `SawInv` (what a step that is over and passed has
seen) and `FailedInv`. `PassedMeansShown` needs `SawInv` for every step, also
those that ended long ago, because the places may differ from step to step.
A step that stands by itself (`Standing`) has seen nothing, so `SawInv` leaves
it out, and the property names the test in which there are such steps.
What the twelve programs have in common is `WellFormed` - the shape of each
step, no search of the stream and no request after an asynchronous step, Redis
and the projection compared with the last event searched for - proved for each
program, and all that the induction knows of them.

*HTTP client.* `PathInv`: after any part of the loop over the path parameters
the path is the template with the visited placeholders replaced at once. One
more `ReplaceAll` keeps that because no escaped value holds a placeholder
(`url.PathEscape` escapes the braces), which is why the order does not matter.
`ResponseInv`: the Response stays empty until the request returns.

*Catalogue tests.* On top of `HttpInv`: `StepsInv` and `CallInv` (the request
under way is that of a step under way, and its path has placeholders of its own
parameters only), `GoodCallInv` (as long as there was no fault, the item is known
and every answer is the expected one), `ItemInv` (as long as there was no fault,
the item is what the last step that was served made of it), `SealedInv` (with
faults: a step that seals the item - one that deletes it or, in a program
without such a step, any that creates or changes it - and was answered well has
done so, and no request that is served
late undoes it). The nineteen
programs enter through `WellFormed`, proved for each: the first step makes or
picks the item and no other does, a later request is for an item that is there,
nothing is done to the item by an asynchronous step, and the states in which its
steps leave the item do not conflict. The last is what makes a late request
harmless.

*Random data.* `DrawnInv` says that a text drawn is one of `Get`. Each kind of
text then has a lemma about its length and form (`PlainFits`, `AliasFits`,
`TitleFits`, `PasswordFits`, `JoinedFits`). That a year has its 365 or 366 dates
is a bijection of the dates with `1 .. 365 + Extra(year)`; that
the leap years counted by division agree with the rule of `daysIn` is
`LeapsCount`.

*Onboarding.* `MessageInv`: a message brings the code, or the account, of a call
with its contact. `CodeInv`: so does a code that a call holds. `AccountInv`: no
two accounts have one number, and there are no more of them than registered
calls. `OwnInv`: player, session and wallet of a call are those of the account it
made - although the code it confirmed with may be another's. `WalletInv`: the
events of a wallet are those its own call has asked for, so that the exact
number the call waits for is the deposit. `ReturnInv` ties what is returned to them.

Statements about all numbers or all sequences are proved without the induction
theorems of the library, which take an operator as a parameter: `NumbersAreIn`
and `SequencesAreIn` say that a *set* with zero (the empty sequence) and all
successors has all, by the least counterexample.

What the proofs changed in the models. Two `CASE`s had arms that overlap, where
TLC takes the first and TLA+ leaves the choice open (the kinds of places in
WalletTest, the last state in `PassedMeansDone`); they are written as
conditionals or with disjoint arms. `Alias` was a recursive function without a
ground case outside its domain; it is a set of texts now. None of this
changed what TLC explores.

Only model-checked: the liveness properties (`NoGoroutineIsStuck`,
`MatchIsFound`, `CallReturns`, `CloseEndsAll`, `ClosedReadersEnd`,
`ClientIsClosed`, `CallsReturn`, `CloseReturns`, `TestEnds`, `CatalogueEnds`,
`CallSucceeds`), because fairness and `ENABLED` are outside what the prover
handles; and the two runs that end in a violation, which are counterexamples
and need no proof. No module declares a `RECURSIVE` operator.

## 6 What the code does that a reader may not expect

Two runs end in a violation, because the code does not do what it says.

- `kafka_assert`. `Unsubscribe` closes the channel of its subscriber. The
  reader has copied the table before and tests `closed` before its `select`
  (kafka.go:254-258), so that the send may find the channel closed and panic, in
  a goroutine nobody recovers. The replay goroutine has the same window (315).
  A call whose message is there then never gets it.
- `repository_assert`. `ExecuteWithRetry` wraps `sql.ErrNoRows` (database.go:39)
  and the repositories compare with `==`, so that the branches that announce
  `(nil, nil)` for no rows (wallet.go:159-161, brand.go:112-114) are dead under
  retries: the answer is an error.

Others are part of the models, and the properties are stated so that they say
what is really promised:

- `OnlyRowsFail`: `sCtx.Fail()` on every failed attempt (database.go:25-31)
  makes a step fail whose row appears in time, so that a read with retries does
  not wait in the end.
- `OnlyHastyReadsFail`: `GetWithRetry` takes the first value that there is, and
  its number is compared with an event found elsewhere
  (turnover_limit_test.go:632, balance_adjustment_test.go:241). For the same
  `sCtx.Fail()` the wallet tests' reads of a row fail when it comes after the
  first attempt. And the last step of `TestSwitchWallet` never passes: it reads
  through `s.walletDB`, which `BeforeAll` does not set
  (switch_wallet_test.go:56-58, 202).
- `PassedMeansShown`: the test that a removed wallet is absent from the list
  passes when the request for the list fails (remove_wallet_test.go:188), and
  when the list has not yet come to the wallet's creation. The test of the
  blockers with both enabled passes its steps for the row and for `GetBlockers`
  though nothing was applied: a new wallet has both
  (update_blockers_test.go:66, 156-182).
- `AnswerHasReason` (NatsFinder): a refused subscription is an empty answer
  while the connection is open (nats.go:91-95).
- `TestRemoveWallet` only asserts what it finds in the stream and in the
  database (remove_wallet_test.go:178, 225), and goes on without it; the others
  require it or dereference it.
- CatalogueTest: the last step of `TestDeleteBrand` looks for the status 2,
  which a new brand has too (create_brand_test.go:95), so that it finds a brand
  that was not deleted (delete_brand_test.go:110-118). What the test shows of the
  deletion is the status of its answer.
- CatalogueTest: `TestCreateLabel` indexes the titles of an answer that only an
  Assert has looked at, and panics when there are none
  (create_label_test.go:103-107).
- `GeneratedFits`: an alias may begin or end with a dash, never have two in a
  row (rndstr.go:269-281); a brand title of negative length panics
  (rndstr.go:290), which no other kind of text does.
- `PathNamesItem`: tests that assert where they might require go on without an
  id, and send requests whose path names nothing (brand_status_test.go:62).
- CatalogueTest: a delete that is sent again after its answer was lost is
  answered with 404, and the step fails although the item is gone
  (delete_collection_test.go:114).
- `GeneratedFits`: the generator of Cyrillic texts picks bytes, not characters
  (rndstr.go:132-137), so that its texts are not valid UTF-8.
- `AnswerIsTrue` (RedisRetry): a key with the empty string makes `GetWithRetry`
  return no error and no value, since `lastErr` is set to the nil error of that
  read (redis.go:84-108). With no attempts configured it does so without
  reading anything.
- `SelectsWhatIsAsked`: the wallet repositories log an inadmissible field and
  filter by it (wallet.go:105-109, limit_record_v2.go:92-96); the wallet's even
  tests the fields of the limit records.
- `HolderHasInstance`: a suite whose `BeforeAll` failed takes the reference of
  another.
- `BadTokenIsGivenUp`: the empty token of a failed refresh is handed out for as
  long as the assumed life.
- `AnswerIsTrue` (Repository): game's repository returns the zero value when
  there is no row.
- Onboarding: the step that receives the e-mail's message requires nothing, and
  the next one uses the nil result; the first verification is taken from a list
  that may be empty (create_veryfied_player.go:204, 233-245).
- HttpClient: a caller's Content-Type replaces that of a form and with it the
  boundary (client.go:84, 105).

## 7 Not modelled

- Types without behaviour: the fields of messages, events, models of the APIs
  and of Redis; null types; constants. Where a test tells kinds of them apart,
  the kinds are in WalletTest.
- The mappers in the opposite direction and those of limits, statuses, amounts
  and times: pure functions that no suite calls, or whose result is compared
  only with itself.
- The negative tests of brands (create_brand_negative_test.go): one request
  each, without a state that a later step depends on.
- The test that registers a player, deposits, and reads two values of Redis at
  once (create_wallet_after_registration_test.go): WalletTest has one call of
  Redis at a time. Its registration is in Onboarding.
- Configuration: read once; its values are the constants of the modules. The
  configured Kafka timeout is read by nobody, the wait is fixed (kafka.go:203).
- Opening connections, the pool, pings, `NewRedisClient`, the thin wrappers of
  sqlx in the connector: I/O.
- Report helpers and the shell command: formatting, and no program logic.
- What the suites assert of single fields of an answer. WalletTest and
  CatalogueTest tell apart whether an answer, an event or a row is the right
  one, and the numbers of an adjustment; the rest are properties of the
  platform.
- Durations. A timer is an event that may come at any moment after it was set,
  pauses have no length; TokenStorage alone has a clock.
- A scan that fails after it has written some fields: a failed query changes
  nothing in the record (Repository).

## 8 Plan

Done: the modules of section 2 in that order, the runs of section 3, the
theorems of section 5: every safety invariant that a run checks.

Left, most important first:

1. Refinements that would let one module stand for another: a read of
   `Repository` as the atomic read of a row that `CatalogueTest` takes it for,
   a call of `NatsFinder` and of `KafkaConsumer` as the oldest matching message
   that `Onboarding` and `WalletTest` take it for.
2. Action properties with proofs: a closed generation of the client is never
   opened again, an answer that was given never changes.
3. The step of each liveness argument that needs no fairness: what decreases,
   and that no other action makes it grow again (the replay backlog, the
   attempts left, the messages ahead of a call).
4. `Onboarding` for two verified players in a run, with the e-mail as a part of
   its own, so that TLC reaches the collision of e-mails too.
5. The test after a registration in `WalletTest`, which needs two calls of
   `RedisRetry` side by side.
