----------------------------- MODULE MCAsyncLock -----------------------------
(***************************************************************************)
(* A small instance of AsyncLock for TLC.  Liveness is checked with it, so *)
(* the calls are not declared symmetric.                                   *)
(***************************************************************************)
EXTENDS AsyncLock
=============================================================================
