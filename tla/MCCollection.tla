----------------------------- MODULE MCCollection -----------------------------
(* A small collection for TLC.                                             *)
EXTENDS Collection, TLC

Symmetry == Permutations(Contributions) \cup Permutations(Files)
                \cup Permutations(Requests) \cup Permutations(Jobs)
=============================================================================
