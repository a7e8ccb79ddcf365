------------------------------ MODULE MCVisits -------------------------------
(* One visitor, and an address that never comes; the constants are in      *)
(* MCVisits.cfg.  A second transfer under the same id, a second password   *)
(* and the passing of time are each explored without the other two.        *)
EXTENDS Visits, TLC
Symmetry == Permutations(Request)
OneAtATime == Cardinality({b \in {<<"made", made>>, <<"passwords", passwords>>, <<"now", now>>} : b[2] > 1}) <= 1
=============================================================================
