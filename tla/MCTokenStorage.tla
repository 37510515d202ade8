--------------------------- MODULE MCTokenStorage ---------------------------
(***************************************************************************)
(* TokenStorage for TLC: three calls of GetToken, which can all find the   *)
(* token stale at once, or come one after another while tokens expire and  *)
(* refreshes fail.                                                         *)
(***************************************************************************)
EXTENDS TokenStorage
=============================================================================
