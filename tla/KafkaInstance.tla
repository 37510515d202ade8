---------------------------- MODULE KafkaInstance ----------------------------
(***************************************************************************)
(* The shared Kafka client of a test process: GetInstance and              *)
(* CloseInstance of internal/transport/kafka/kafka.go, called by parallel  *)
(* suites from BeforeAll and AfterAll, and the reader goroutines of each   *)
(* generation of the client.  One reader stands for the readers of the six *)
(* topics.  All generations belong to the same consumer group, so a        *)
(* message that one of them reads is never read by another.                *)
(*                                                                         *)
(* Both functions run entirely under instanceMu and are one step.          *)
(***************************************************************************)
EXTENDS Integers, FiniteSets

CONSTANTS Suites,
          Leaky,         \* suites whose AfterAll does not call CloseInstance
          MayFail,       \* suites whose BeforeAll may fail before GetInstance
          MaxMessages    \* bound: messages the group reads

ASSUME SuiteAssumption == /\ IsFiniteSet(Suites)
                          /\ Leaky \subseteq Suites
                          /\ MayFail \subseteq Suites
ASSUME BoundAssumption == MaxMessages \in Nat

\* A generation is created by a GetInstance, at most one per suite.
Gens == 1 .. Cardinality(Suites)
Nil == 0

VARIABLES
    instance,     \* the current generation, or Nil
    fired,        \* once has run its function
    refCount,
    lastGen,      \* generations created so far
    cancelled,    \* generations whose context close has cancelled
    readerPc,     \* readerPc[g]: the reader goroutine of generation g
    offset,       \* messages the group has read
    late,         \* late[g]: messages g read after it was cancelled
    suitePc,      \* "new", "running", "finished"
    held          \* held[s]: what s got from GetInstance

vars == <<instance, fired, refCount, lastGen, cancelled, readerPc, offset, late, suitePc, held>>

Init ==
    /\ instance = Nil
    /\ fired = FALSE
    /\ refCount = 0
    /\ lastGen = 0
    /\ cancelled = {}
    /\ readerPc = [g \in Gens |-> "none"]
    /\ offset = 0
    /\ late = [g \in Gens |-> 0]
    /\ suitePc = [s \in Suites |-> "new"]
    /\ held = [s \in Suites |-> Nil]

\* Variants X_Something are X with one plausible slip, for the checks of the
\* properties.

\* once.Do: a new consumer whose readers are started.
Once == fired

\* BeforeAll of s calls GetInstance.
GetInstance(s) ==
    /\ suitePc[s] = "new"
    /\ IF Once
       THEN UNCHANGED <<instance, fired, lastGen, readerPc>>
       ELSE /\ lastGen' = lastGen + 1
            /\ instance' = lastGen + 1
            /\ readerPc' = [readerPc EXCEPT ![lastGen + 1] = "top"]
            /\ fired' = TRUE
    /\ refCount' = refCount + 1
    /\ held' = [held EXCEPT ![s] = instance']
    /\ suitePc' = [suitePc EXCEPT ![s] = "running"]
    /\ UNCHANGED <<cancelled, offset, late>>

\* BeforeAll of s fails first; AfterAll runs nevertheless (external).
SetupFails(s) ==
    /\ s \in MayFail
    /\ suitePc[s] = "new"
    /\ suitePc' = [suitePc EXCEPT ![s] = "running"]
    /\ UNCHANGED <<instance, fired, refCount, lastGen, cancelled, readerPc, offset, late, held>>

\* The count after this release, and whether it was the last.
Released_Keep == refCount
Released == IF refCount > 0 THEN refCount - 1 ELSE refCount

LastRelease_Early == refCount <= 2
LastRelease == Released = 0

\* once = sync.Once{}
RearmOnce_No == UNCHANGED fired
RearmOnce == fired' = FALSE

\* AfterAll of s calls CloseInstance.
CloseInstance(s) ==
    /\ suitePc[s] = "running"
    /\ s \notin Leaky
    /\ refCount' = Released
    /\ IF LastRelease /\ instance # Nil
       THEN /\ cancelled' = cancelled \cup {instance}
            /\ instance' = Nil
            /\ RearmOnce
       ELSE UNCHANGED <<cancelled, instance, fired>>
    /\ suitePc' = [suitePc EXCEPT ![s] = "finished"]
    /\ UNCHANGED <<lastGen, readerPc, offset, late, held>>

\* AfterAll of a suite that forgets the client.
Leave(s) ==
    /\ suitePc[s] = "running"
    /\ s \in Leaky
    /\ suitePc' = [suitePc EXCEPT ![s] = "finished"]
    /\ UNCHANGED <<instance, fired, refCount, lastGen, cancelled, readerPc, offset, late, held>>

-----------------------------------------------------------------------------
(* readMessages of generation g: the loop, as far as the group sees it. *)

\* The test of the context that starts each round.
Continues(g) == g \notin cancelled

ReaderTop(g) ==
    /\ readerPc[g] = "top"
    /\ readerPc' = [readerPc EXCEPT ![g] = IF Continues(g) THEN "reading" ELSE "gone"]
    /\ UNCHANGED <<instance, fired, refCount, lastGen, cancelled, offset, late, suitePc, held>>

\* ReadMessage returns a message, perhaps one fetched before the cancellation.
ReaderReads(g) ==
    /\ readerPc[g] = "reading"
    /\ offset < MaxMessages
    /\ offset' = offset + 1
    /\ late' = IF g \in cancelled THEN [late EXCEPT ![g] = @ + 1] ELSE late
    /\ readerPc' = [readerPc EXCEPT ![g] = "top"]
    /\ UNCHANGED <<instance, fired, refCount, lastGen, cancelled, suitePc, held>>

\* The context handed to ReadMessage.
CtxDone_Background(g) == FALSE
CtxDone(g) == g \in cancelled

\* ReadMessage returns the error of the context.
ReaderErr(g) ==
    /\ readerPc[g] = "reading"
    /\ CtxDone(g)
    /\ readerPc' = [readerPc EXCEPT ![g] = "gone"]
    /\ UNCHANGED <<instance, fired, refCount, lastGen, cancelled, offset, late, suitePc, held>>

-----------------------------------------------------------------------------

SuiteEnds(s) == CloseInstance(s) \/ Leave(s)

Next ==
    \/ \E s \in Suites : GetInstance(s) \/ SetupFails(s) \/ SuiteEnds(s)
    \/ \E g \in Gens : ReaderTop(g) \/ ReaderReads(g) \/ ReaderErr(g)

Spec == Init /\ [][Next]_vars

\* Suites that have begun end, and goroutines run; a read that waits for a
\* message may wait for ever.
FairSpec ==
    /\ Spec
    /\ \A s \in Suites : WF_vars(SuiteEnds(s))
    /\ \A g \in Gens : WF_vars(ReaderTop(g)) /\ WF_vars(ReaderErr(g))

-----------------------------------------------------------------------------

Running == {s \in Suites : suitePc[s] = "running"}

\* Suites that took a reference and have not given it back.
Holders == {s \in Suites : held[s] # Nil /\ (suitePc[s] = "running" \/ s \in Leaky)}

\* Every release so far answered a GetInstance.
Matched == \A s \in MayFail : suitePc[s] = "finished" => held[s] # Nil

\* While a suite holds the client, what it holds is the current instance and
\* has not been closed, whoever else comes and goes: only a suite that calls
\* CloseInstance although its GetInstance never ran can take it away
\* (kafka.go:145-159).
HolderHasInstance ==
    Matched => \A s \in Holders : held[s] = instance /\ instance \notin cancelled

\* The count is the number of references held, the client exists exactly as
\* long as there is one, and once is armed exactly when it does not; a release
\* without a reference leaves the count short, never negative, and whatever
\* the suites do at most one generation reads for the group.
CountIsHolders ==
    /\ Matched => /\ refCount = Cardinality(Holders)
                  /\ (instance # Nil) <=> (Holders # {})
    /\ refCount \in 0 .. Cardinality(Holders)
    /\ fired <=> (instance # Nil)
    /\ Cardinality({g \in Gens : readerPc[g] # "none" /\ g \notin cancelled}) <= 1

\* A closed generation takes at most one more message from the group: close
\* does not wait for the goroutine, but the goroutine tests the context
\* before every read (kafka.go:228-233).
LateReadsBounded == \A g \in Gens : late[g] <= 1

\* The goroutine of a closed generation ends.
ClosedReadersEnd == \A g \in Gens : g \in cancelled ~> readerPc[g] = "gone"

\* If every suite gives its reference back, the client is closed in the end:
\* whenever there is one, a state without one follows unless a suite leaks.
ClientIsClosed == (instance # Nil) ~> (instance = Nil \/ \E s \in Leaky : held[s] # Nil)
=============================================================================
