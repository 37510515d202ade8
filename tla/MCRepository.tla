---------------------------- MODULE MCRepository ----------------------------
(***************************************************************************)
(* Repository for TLC: two fields that are allowed and one that is not,    *)
(* with two values each, so that mixed-up arguments select other rows.     *)
(***************************************************************************)
EXTENDS Repository
=============================================================================
