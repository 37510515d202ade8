------------------------------ MODULE TestSteps ------------------------------
(***************************************************************************)
(* How the steps of one test run, as the suites use the test framework.    *)
(* A test is a sequence of steps.  A step made with WithNewStep runs when  *)
(* those before it that were made so have ended; one made with             *)
(* WithNewAsyncStep is started in its turn and runs beside those that      *)
(* follow.  The test ends when all its steps have.                         *)
(***************************************************************************)
LOCAL INSTANCE Naturals
LOCAL INSTANCE Sequences

VARIABLES
    at,        \* the step that WithNewStep has reached
    open,      \* asynchronous steps that still run
    failed,    \* steps with a failed Assert or Require
    stopped    \* a Require of a synchronous step failed

stepVars == <<at, open, failed, stopped>>

NothingDone == at = 1 /\ open = {} /\ failed = {} /\ stopped = FALSE

\* The steps that may be going on at the same time.
UnderWay(steps) ==
    open \cup {k \in {at} : ~stopped /\ k <= Len(steps) /\ ~steps[k].async}

Ended(steps) == (stopped \/ at > Len(steps)) /\ open = {}

SpawnNext(steps) ==
    /\ ~stopped /\ at <= Len(steps) /\ steps[at].async
    /\ open' = open \cup {at} /\ at' = at + 1
    /\ UNCHANGED <<failed, stopped>>

\* A failed Assert marks the test; a failed Require, and a panic, end the step
\* as well, and with a synchronous step the test.
Ends(k, verdict) ==
    /\ failed' = IF verdict = "passed" THEN failed ELSE failed \cup {k}
    /\ IF k \in open
       THEN open' = open \ {k} /\ UNCHANGED <<at, stopped>>
       ELSE /\ UNCHANGED open
            /\ stopped' = (verdict = "fatal")
            /\ at' = IF verdict = "fatal" THEN at ELSE at + 1
=============================================================================
