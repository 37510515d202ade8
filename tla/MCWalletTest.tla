---------------------------- MODULE MCWalletTest ----------------------------
(***************************************************************************)
(* WalletTest for TLC: every kind of wallet test, with three attempts at   *)
(* Redis, one event that no step asked for and one fault; and, as test     *)
(* "none", a single call at Redis while the key is written in any way.     *)
(***************************************************************************)
EXTENDS WalletTest

CONSTANTS k1
=============================================================================
