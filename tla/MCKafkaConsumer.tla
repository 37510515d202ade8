--------------------------- MODULE MCKafkaConsumer ---------------------------
(***************************************************************************)
(* KafkaConsumer for TLC.                                                  *)
(***************************************************************************)
EXTENDS KafkaConsumer

CONSTANTS t1, f1, f2

\* Two calls wait on one topic, one for an early message and one for a late
\* one: the first leaves while messages for it are still on their way.
OneTopic == [f \in {f1, f2} |-> t1]
EarlyAndLate == [f \in {f1, f2} |-> IF f = f1 THEN {1, 2} ELSE {3}]

\* The first finds what it wants at once, the second wants what comes later.
OneEach == [f \in {f1, f2} |-> IF f = f1 THEN {1} ELSE {2}]

\* One call, with every way it can end: its message is in the snapshot, comes
\* later, or has left the buffer.
AloneTopic == [f \in {f1} |-> t1]
Second == [f \in {f1} |-> {2}]
=============================================================================
