---------------------------- MODULE MCNatsFinder ----------------------------
(***************************************************************************)
(* NatsFinder for TLC: one call that finds its message and leaves while    *)
(* the callback still has some to send, and one whose message never comes. *)
(***************************************************************************)
EXTENDS NatsFinder

CONSTANTS f1, f2

FoundAndMissing == [f \in {f1, f2} |-> IF f = f1 THEN {2, 3} ELSE {}]
=============================================================================
