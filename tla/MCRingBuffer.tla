---------------------------- MODULE MCRingBuffer ----------------------------
(***************************************************************************)
(* RingBuffer for TLC: a ring of three slots and four messages, so that    *)
(* the ring wraps with every slot holding a different message.             *)
(***************************************************************************)
EXTENDS RingBuffer
=============================================================================
