------------------------------- MODULE FifoLock -------------------------------
(***************************************************************************)
(* What a per-key lock promises: calls for one key run one at a time, in   *)
(* the order they arrived, and calls for different keys never wait on each *)
(* other.                                                                  *)
(***************************************************************************)
CONSTANTS Calls, Keys, None

VARIABLES key,    \* the key of each call that has arrived
          place,  \* where each call is
          ahead   \* the calls a waiting call still waits for

vars == <<key, place, ahead>>

Init ==
    /\ key = [c \in Calls |-> None]
    /\ place = [c \in Calls |-> "out"]
    /\ ahead = [c \in Calls |-> {}]

Arrive(c, k) ==
    /\ place[c] = "out"
    /\ key' = [key EXCEPT ![c] = k]
    /\ place' = [place EXCEPT ![c] = "waiting"]
    /\ ahead' = [ahead EXCEPT ![c] = {d \in Calls : key[d] = k /\ place[d] \in {"waiting", "inside"}}]

Enter(c) ==
    /\ place[c] = "waiting"
    /\ ahead[c] = {}
    /\ place' = [place EXCEPT ![c] = "inside"]
    /\ UNCHANGED <<key, ahead>>

Leave(c) ==
    /\ place[c] = "inside"
    /\ place' = [place EXCEPT ![c] = "gone"]
    /\ ahead' = [d \in Calls |-> ahead[d] \ {c}]
    /\ UNCHANGED key

Next == \E c \in Calls : (\E k \in Keys : Arrive(c, k)) \/ Enter(c) \/ Leave(c)

Spec == Init /\ [][Next]_vars
=============================================================================
