---------------------------- MODULE MCCredentials ----------------------------
(***************************************************************************)
(* A small instance of Credentials for TLC.                                *)
(***************************************************************************)
EXTENDS Credentials, FiniteSets, TLC

\* Tokens and requests are interchangeable.
Symmetry == Permutations(Tokens) \cup Permutations(Requests)

\* The bounds that are explored together: a third token, a third password and a
\* restart are each explored without the other two.
OneBoundAtATime ==
    /\ crashes = 0 \/ Cardinality(issued) < 3
    /\ version < 3 \/ (crashes = 0 /\ Cardinality(issued) < 3)
=============================================================================
