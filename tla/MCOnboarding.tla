---------------------------- MODULE MCOnboarding ----------------------------
(***************************************************************************)
(* Onboarding for TLC: a suite that creates a verified player with a       *)
(* deposit, and one next to it of either kind.                             *)
(***************************************************************************)
EXTENDS Onboarding

CONSTANTS s1, s2, n1, n2

BothVerified == [s \in {s1, s2} |-> "verified"]
OneFull == [s \in {s1, s2} |-> IF s = s1 THEN "verified" ELSE "full"]

=============================================================================
