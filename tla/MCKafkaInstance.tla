--------------------------- MODULE MCKafkaInstance ---------------------------
(***************************************************************************)
(* KafkaInstance for TLC: four suites, of which one may fail before it has *)
(* the client and one forgets to release it; the two others are enough for *)
(* a client to be closed, created again and shared.                        *)
(***************************************************************************)
EXTENDS KafkaInstance
=============================================================================
