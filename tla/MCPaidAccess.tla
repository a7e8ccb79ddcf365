---------------------------- MODULE MCPaidAccess ----------------------------
(***************************************************************************)
(* Small instances of PaidAccess for TLC.                                  *)
(***************************************************************************)
EXTENDS PaidAccess, TLC

\* Shares, sessions and requests are interchangeable.
Symmetry == Permutations(Shares) \cup Permutations(Sessions) \cup Permutations(Workers)
=============================================================================
