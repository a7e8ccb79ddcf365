-------------------------- MODULE CredentialsProofs --------------------------
(***************************************************************************)
(* What TLAPS proves of the user credentials lock and of what it guards,   *)
(* for any number of calls, keys, requests, tokens, password changes and   *)
(* restarts: that the promise chain of withLock is a per-key FIFO mutex;   *)
(* that no access outlives the password it was given on; and that requests *)
(* which take the lock through that chain are the requests of Credentials. *)
(***************************************************************************)
EXTENDS LockedCredentials, TLAPS, FiniteSetTheorems, WellFoundedInduction

USE TokenAssumption, VersionAssumption, ServedAssumption, NoCallAssumption

-----------------------------------------------------------------------------
(* The chain of promises is a per-key mutex that serves in order of arrival. *)

\* Every step of the chains keeps their state well typed.
LEMMA LockNextType == LockTypeOK /\ [LockNext]_lockVars => LockTypeOK'
  <1> SUFFICES ASSUME LockTypeOK, [LockNext]_lockVars PROVE LockTypeOK'
    OBVIOUS
  <1> USE DEF LockTypeOK, States
  <1>1. ASSUME NEW c \in Calls, NEW k \in Keys, WithLock(c, k) PROVE LockTypeOK'
    BY <1>1 DEF WithLock
  <1>2. ASSUME NEW c \in Calls, Run(c) \/ Settle(c) PROVE LockTypeOK'
    BY <1>2 DEF Run, Settle
  <1>3. ASSUME NEW c \in Calls, Finish(c) PROVE LockTypeOK'
    BY <1>3 DEF Finish
  <1>4. ASSUME NEW c \in Calls, Drop(c) PROVE LockTypeOK'
    BY <1>4 DEF Drop
  <1>5. CASE UNCHANGED lockVars
    BY <1>5 DEF lockVars
  <1>6. QED
    BY <1>1, <1>2, <1>3, <1>4, <1>5 DEF LockNext

\* No call has been made at first: the chains are typed, and well ordered.
LEMMA LockStarts == LockInit => LockTypeOK /\ LockInv
  BY DEF LockInit, LockTypeOK, States, LockInv, TicketsInOrder, StartedInTurn, PriorIsLast,
     PriorBefore, ChainEndsLast, NoLeak, Unfinished

\* Every reachable state of the chains is well typed.
THEOREM LockTypeCorrect == LockSpec => []LockTypeOK
  BY LockStarts, LockNextType, PTL DEF LockSpec

\* A step that moves one call from one state to a later one, and leaves the
\* chain as it is, keeps the invariant if a call that starts has nobody ahead.
LEMMA CallMoves ==
    ASSUME LockTypeOK, LockInv, NEW c \in Calls, NEW t \in States \ {"new", "pending", "dropped"},
           state[c] # "new", ~(state[c] \notin {"pending", "running"} /\ t = "running"),
           Ahead(c) = {},
           state' = [state EXCEPT ![c] = t],
           UNCHANGED <<chains, key, prior, ticket, arrivals>>
    PROVE  LockInv'
  <1>1. \A d \in Calls : /\ Unfinished(d)' => Unfinished(d)
                         /\ state'[d] = "new" <=> state[d] = "new"
                         /\ state'[d] = "pending" => state[d] = "pending" /\ d # c
    BY DEF Unfinished, LockTypeOK
  <1>2. \A d \in Calls : Ahead(d)' \subseteq Ahead(d)
    BY <1>1 DEF Ahead
  <1>3. TicketsInOrder'
    BY <1>1 DEF LockInv, TicketsInOrder
  <1>4. StartedInTurn'
    BY <1>1, <1>2 DEF LockInv, StartedInTurn, LockTypeOK
  <1>5. PriorIsLast'
    BY <1>1, <1>2 DEF LockInv, PriorIsLast, LockTypeOK
  <1>6. ChainEndsLast'
    BY <1>1 DEF LockInv, ChainEndsLast, LockTypeOK
  <1>7. NoLeak'
    BY <1>1 DEF LockInv, NoLeak, LockTypeOK
  <1>8. PriorBefore'
    BY <1>1 DEF LockInv, PriorBefore, LockTypeOK
  <1>9. QED
    BY <1>3, <1>4, <1>5, <1>6, <1>7, <1>8 DEF LockInv

\* A call attached to a settled promise has nobody ahead of it.
LEMMA NobodyAhead ==
    ASSUME LockTypeOK, LockInv, NEW c \in Calls, state[c] = "pending", Settled(prior[c])
    PROVE  Ahead(c) = {}
  <1>1. SUFFICES ASSUME NEW d \in Ahead(c) PROVE FALSE
    OBVIOUS
  <1>2. /\ prior[c] \in Calls
        /\ state[prior[c]] \in {"settled", "dropped"}
        /\ key[prior[c]] = key[c]
        /\ ticket[d] <= ticket[prior[c]]
    BY <1>1 DEF LockInv, PriorIsLast, Settled, LockTypeOK
  <1>3. d \in Calls /\ Unfinished(d) /\ key[d] = key[c]
    BY <1>1 DEF Ahead
  <1>4. d # prior[c] /\ ticket[d] # ticket[prior[c]]
    BY <1>2, <1>3 DEF Unfinished, LockInv, TicketsInOrder
  <1>5. ticket[d] < ticket[prior[c]]
    BY <1>2, <1>3, <1>4 DEF LockTypeOK
  <1>6. d \in Ahead(prior[c])
    BY <1>2, <1>3, <1>5 DEF Ahead
  <1>7. QED
    BY <1>2, <1>6 DEF LockInv, StartedInTurn

\* Every step of the chains keeps the invariant.
LEMMA LockNextSafe == LockTypeOK /\ LockInv /\ [LockNext]_lockVars => LockInv'
  <1> SUFFICES ASSUME LockTypeOK, LockInv, [LockNext]_lockVars PROVE LockInv'
    OBVIOUS
  <1>1. ASSUME NEW c \in Calls, NEW k \in Keys, WithLock(c, k) PROVE LockInv'
    <2>1. /\ state[c] = "new"
          /\ state'[c] = "pending" /\ key'[c] = k /\ ticket'[c] = arrivals
          /\ prior'[c] = chains[k] /\ chains'[k] = c /\ arrivals' = arrivals + 1
      BY <1>1 DEF WithLock, LockTypeOK
    <2>2. \A d \in Calls : d # c => /\ state'[d] = state[d] /\ key'[d] = key[d]
                                    /\ ticket'[d] = ticket[d] /\ prior'[d] = prior[d]
      BY <1>1 DEF WithLock, LockTypeOK
    <2>3. \A j \in Keys : j # k => chains'[j] = chains[j]
      BY <1>1 DEF WithLock, LockTypeOK
    <2>4. \A d \in Calls : state[d] # "new" => d # c /\ ticket[d] < arrivals
      BY <2>1 DEF LockInv, TicketsInOrder
    <2>5. \A d \in Calls : d # c /\ state[d] # "new" => Ahead(d)' = Ahead(d)
      BY <2>1, <2>2, <2>4 DEF Ahead, Unfinished, LockTypeOK
    <2>6. Ahead(c)' = {d \in Calls : Unfinished(d) /\ key[d] = k}
      BY <2>1, <2>2, <2>4 DEF Ahead, Unfinished, LockTypeOK
    <2>7. TicketsInOrder'
      BY <2>1, <2>2, <2>4 DEF LockInv, TicketsInOrder, LockTypeOK
    <2>8. StartedInTurn'
      BY <2>1, <2>2, <2>5 DEF LockInv, StartedInTurn
    <2>9. PriorIsLast'
      <3>1. ASSUME NEW d \in Ahead(c)'
            PROVE  /\ prior'[c] # NoCall /\ state'[prior'[c]] # "new"
                   /\ key'[prior'[c]] = k
                   /\ ticket'[d] <= ticket'[prior'[c]] /\ ticket'[prior'[c]] < ticket'[c]
        <4>1. d \in Calls /\ Unfinished(d) /\ key[d] = k
          BY <2>6
        <4>2. /\ chains[k] \in Calls /\ state[chains[k]] # "new" /\ key[chains[k]] = k
              /\ ticket[d] <= ticket[chains[k]]
          BY <4>1 DEF LockInv, ChainEndsLast, NoLeak, LockTypeOK
        <4>3. d # c /\ chains[k] # c /\ ticket[chains[k]] < arrivals
          BY <2>1, <2>4, <4>1, <4>2 DEF Unfinished
        <4>4. QED
          BY <2>1, <2>2, <4>1, <4>2, <4>3
      <3>2. ASSUME NEW e \in Calls, e # c, state'[e] = "pending", NEW d \in Ahead(e)'
            PROVE  /\ prior'[e] # NoCall /\ state'[prior'[e]] # "new"
                   /\ key'[prior'[e]] = key'[e]
                   /\ ticket'[d] <= ticket'[prior'[e]] /\ ticket'[prior'[e]] < ticket'[e]
        <4>1. d \in Ahead(e) /\ state[e] = "pending" /\ d \in Calls /\ d # c
          BY <3>2, <2>1, <2>2, <2>5 DEF Ahead, Unfinished
        <4>2. /\ prior[e] \in Calls /\ state[prior[e]] # "new" /\ key[prior[e]] = key[e]
              /\ ticket[d] <= ticket[prior[e]] /\ ticket[prior[e]] < ticket[e]
          BY <4>1 DEF LockInv, PriorIsLast, LockTypeOK
        <4>3. prior[e] # c
          BY <4>2, <2>1
        <4>4. QED
          BY <3>2, <4>1, <4>2, <4>3, <2>2
      <3>3. QED
        BY <3>1, <3>2, <2>1 DEF PriorIsLast
    <2>10. ChainEndsLast'
      <3>1. ASSUME NEW d \in Calls, Unfinished(d)'
            PROVE  /\ chains'[key'[d]] # NoCall
                   /\ state'[chains'[key'[d]]] # "new"
                   /\ ticket'[d] <= ticket'[chains'[key'[d]]]
        <4>1. CASE d = c
          BY <4>1, <2>1 DEF LockTypeOK
        <4>2. CASE d # c /\ key[d] = k
          <5>1. state[d] # "new"
            BY <3>1, <4>2, <2>2 DEF Unfinished
          <5>2. ticket[d] < arrivals
            BY <5>1, <2>4
          <5>3. QED
            BY <4>2, <5>2, <2>1, <2>2 DEF LockTypeOK
        <4>3. CASE d # c /\ key[d] # k
          <5>1. Unfinished(d)
            BY <3>1, <4>3, <2>2 DEF Unfinished
          <5>2. key[d] \in Keys
            BY <5>1 DEF Unfinished, LockInv, TicketsInOrder
          <5>3. /\ chains[key[d]] \in Calls /\ state[chains[key[d]]] # "new"
                /\ ticket[d] <= ticket[chains[key[d]]]
            BY <5>1, <5>2 DEF LockInv, ChainEndsLast, LockTypeOK
          <5>4. chains[key[d]] # c
            BY <5>3, <2>1
          <5>5. QED
            BY <4>3, <5>2, <5>3, <5>4, <2>2, <2>3
        <4>4. QED
          BY <4>1, <4>2, <4>3
      <3>2. QED
        BY <3>1 DEF ChainEndsLast
    <2>11. NoLeak'
      <3>1. ASSUME NEW j \in Keys, j # k, chains[j] # NoCall
            PROVE  chains[j] # c
        BY <3>1, <2>1 DEF LockInv, NoLeak, LockTypeOK, TicketsInOrder
      <3>2. QED
        BY <3>1, <2>1, <2>2, <2>3 DEF LockInv, NoLeak, LockTypeOK
    <2>12. PriorBefore'
      <3>1. chains[k] # NoCall => /\ chains[k] \in Calls /\ state[chains[k]] # "new"
                                  /\ key[chains[k]] = k
        BY DEF LockInv, NoLeak, LockTypeOK
      <3>2. ASSUME NEW e \in Calls, e # c, state'[e] = "pending", prior'[e] # NoCall
            PROVE  /\ prior[e] \in Calls \ {c} /\ state[prior[e]] # "new"
                   /\ key[prior[e]] = key[e] /\ ticket[prior[e]] < ticket[e]
        BY <3>2, <2>1, <2>2 DEF LockInv, PriorBefore, LockTypeOK
      <3>3. ASSUME NEW e \in Calls, state'[e] = "pending", prior'[e] # NoCall
            PROVE  /\ state'[prior'[e]] # "new" /\ key'[prior'[e]] = key'[e]
                   /\ ticket'[prior'[e]] < ticket'[e]
        <4>1. CASE e = c
          BY <3>1, <3>3, <4>1, <2>1, <2>2, <2>4
        <4>2. CASE e # c
          BY <3>2, <3>3, <4>2, <2>2
        <4>3. QED
          BY <4>1, <4>2
      <3>4. QED
        BY <3>3 DEF PriorBefore
    <2>13. QED
      BY <2>7, <2>8, <2>9, <2>10, <2>11, <2>12 DEF LockInv
  <1>2. ASSUME NEW c \in Calls, Run(c) PROVE LockInv'
    <2>1. Ahead(c) = {}
      BY <1>2, NobodyAhead DEF Run
    <2>2. QED
      BY <1>2, <2>1, CallMoves DEF Run, States
  <1>3. ASSUME NEW c \in Calls, Finish(c) \/ Settle(c) PROVE LockInv'
    <2>1. Ahead(c) = {}
      BY <1>3 DEF Finish, Settle, LockInv, StartedInTurn
    <2>2. QED
      BY <1>3, <2>1, CallMoves DEF Finish, Settle, States
  <1>4. ASSUME NEW c \in Calls, Drop(c) PROVE LockInv'
    <2> DEFINE k == key[c]
    <2>1. state[c] = "settled" /\ k \in Keys /\ Ahead(c) = {}
      BY <1>4 DEF Drop, LockInv, TicketsInOrder, StartedInTurn
    <2>2. UNCHANGED <<key, prior, ticket, arrivals>>
      BY <1>4 DEF Drop
    <2>3. \A d \in Calls : /\ state'[d] = IF d = c THEN "dropped" ELSE state[d]
                           /\ Unfinished(d)' <=> Unfinished(d)
      BY <1>4 DEF Drop, LockTypeOK, Unfinished
    <2>4. \A d \in Calls : Ahead(d)' = Ahead(d)
      BY <2>2, <2>3 DEF Ahead
    <2>5. \A j \in Keys : chains'[j] = IF j = k /\ chains[k] = c THEN NoCall ELSE chains[j]
      BY <1>4, <2>1 DEF Drop, LockTypeOK
    <2>6. chains[k] = c => \A d \in Calls : key[d] = k => ~Unfinished(d)
      <3>1. SUFFICES ASSUME chains[k] = c, NEW d \in Calls, key[d] = k, Unfinished(d)
                     PROVE  FALSE
        OBVIOUS
      <3>2. ticket[d] <= ticket[c]
        BY <3>1, <2>1 DEF LockInv, ChainEndsLast
      <3>3. d # c /\ ticket[d] # ticket[c]
        BY <3>1, <2>1 DEF Unfinished, LockInv, TicketsInOrder
      <3>4. ticket[d] < ticket[c]
        BY <3>2, <3>3 DEF LockTypeOK
      <3>5. QED
        BY <3>1, <3>4, <2>1 DEF Ahead
    <2>7. TicketsInOrder'
      BY <2>1, <2>2, <2>3 DEF LockInv, TicketsInOrder
    <2>8. StartedInTurn'
      BY <2>1, <2>3, <2>4 DEF LockInv, StartedInTurn
    <2>9. PriorIsLast'
      BY <2>1, <2>2, <2>3, <2>4 DEF LockInv, PriorIsLast, LockTypeOK
    <2>10. ChainEndsLast'
      BY <2>1, <2>2, <2>3, <2>5, <2>6 DEF LockInv, ChainEndsLast, LockTypeOK
    <2>11. NoLeak'
      BY <2>1, <2>2, <2>3, <2>5 DEF LockInv, NoLeak, LockTypeOK
    <2>12. PriorBefore'
      BY <2>1, <2>2, <2>3 DEF LockInv, PriorBefore, LockTypeOK
    <2>13. QED
      BY <2>7, <2>8, <2>9, <2>10, <2>11, <2>12 DEF LockInv
  <1>5. CASE UNCHANGED lockVars
    BY <1>5 DEF lockVars, LockInv, TicketsInOrder, StartedInTurn, PriorIsLast, PriorBefore,
       ChainEndsLast, NoLeak, Ahead, Unfinished
  <1>6. QED
    BY <1>1, <1>2, <1>3, <1>4, <1>5 DEF LockNext

\* The invariant of the chain holds of every reachable state.
THEOREM LockInvariant == LockSpec => []LockInv
  BY LockStarts, LockNextType, LockNextSafe, PTL DEF LockSpec

\* An entry of the map is of a call of its key that is still to drop it: the
\* map holds nothing for a key nobody uses.
THEOREM NothingLeaks == LockSpec => []NoLeak
  <1>1. LockInv => NoLeak
    BY DEF LockInv
  <1>2. QED
    BY <1>1, LockInvariant, PTL

\* In a state the invariant describes no two calls for one key run.
LEMMA OneRuns == LockTypeOK /\ LockInv => MutualExclusion
  <1> SUFFICES ASSUME LockTypeOK, LockInv, NEW c \in Calls, NEW d \in Calls,
                      state[c] = "running", state[d] = "running", key[c] = key[d], c # d
               PROVE  FALSE
    BY DEF MutualExclusion
  <1>1. ticket[c] # ticket[d] /\ ticket[c] \in Nat /\ ticket[d] \in Nat
    BY DEF LockInv, TicketsInOrder, LockTypeOK
  <1>2. Ahead(c) = {} /\ Ahead(d) = {}
    BY DEF LockInv, StartedInTurn
  <1>3. c \in Ahead(d) \/ d \in Ahead(c)
    BY <1>1 DEF Ahead, Unfinished
  <1>4. QED
    BY <1>2, <1>3

\* Two calls for one key never run at once.
THEOREM LockExcludes == LockSpec => []MutualExclusion
  BY OneRuns, LockTypeCorrect, LockInvariant, PTL

\* Among the waiting calls of c's key that came no later there is a first.
LEMMA FirstWaiting ==
    ASSUME LockTypeOK, NEW c \in Calls, state[c] = "pending"
    PROVE  \E e \in Calls :
              /\ state[e] = "pending" /\ key[e] = key[c] /\ ticket[e] <= ticket[c]
              /\ \A d \in Calls : state[d] = "pending" /\ key[d] = key[c] => ~(ticket[d] < ticket[e])
  <1> DEFINE W == {d \in Calls : state[d] = "pending" /\ key[d] = key[c] /\ ticket[d] <= ticket[c]}
             N == 0..ticket[c]
             Before(d) == {i \in N : i < ticket[d]}
             T == {Before(d) : d \in W}
             R == StrictSubsetOrdering(N)
  <1>1. c \in W /\ ticket[c] \in Nat
    BY DEF LockTypeOK
  <1>2. T \subseteq SUBSET N /\ T # {}
    <2>1. Before(c) \in T
      BY <1>1
    <2>2. QED
      BY <2>1
  <1>3. IsWellFoundedOn(R, SUBSET N)
    <2>1. IsFiniteSet(N)
      BY <1>1, FS_Interval
    <2> HIDE DEF N
    <2>2. FiniteSubsetsOf(N) = SUBSET N
      BY <2>1, FS_FiniteSubsetsOfFinite
    <2>3. IsWellFoundedOn(StrictSubsetOrdering(N), FiniteSubsetsOf(N))
      BY FS_StrictSubsetOrderingWellFounded
    <2>4. QED
      BY <2>2, <2>3
  <1>4. PICK m \in T : \A n \in T : ~(<<n, m>> \in R)
    <2> HIDE DEF R, T, N
    <2>1. QED
      BY <1>2, <1>3, WFMin
  <1>5. PICK e \in W : m = Before(e)
    OBVIOUS
  <1>6. ASSUME NEW d \in Calls, state[d] = "pending", key[d] = key[c], ticket[d] < ticket[e]
        PROVE  FALSE
    <2>1. ticket[d] \in Nat /\ ticket[e] \in Nat /\ ticket[e] <= ticket[c]
      BY DEF LockTypeOK
    <2>2. d \in W /\ ticket[d] \in Before(e) /\ ticket[d] \notin Before(d)
      BY <1>1, <1>6, <2>1
    <2>3. Before(d) \subseteq Before(e) /\ Before(d) # Before(e)
      BY <1>1, <1>6, <2>1, <2>2
    <2>4. Before(d) \in T /\ Before(d) \in SUBSET N /\ Before(e) \in SUBSET N
      BY <2>2
    <2>5. <<Before(d), Before(e)>> \in R
      <3> HIDE DEF Before, N
      <3>1. QED
        BY <2>3, <2>4 DEF StrictSubsetOrdering
    <2>6. QED
      BY <1>4, <1>5, <2>4, <2>5
  <1>7. QED
    BY <1>5, <1>6

\* No chain ever stops: while a call waits, a callback of a call for its key is
\* due or a function is at work.
THEOREM ChainsGoOn == LockSpec => []NobodyStuck
  <1>1. LockTypeOK /\ LockInv => NobodyStuck
    <2> SUFFICES ASSUME LockTypeOK, LockInv, NEW c \in Calls, state[c] = "pending"
                 PROVE  \E d \in Calls : key[d] = key[c] /\ ticket[d] <= ticket[c] /\ Due(d)
      BY DEF NobodyStuck
    <2>1. PICK e \in Calls :
             /\ state[e] = "pending" /\ key[e] = key[c] /\ ticket[e] <= ticket[c]
             /\ \A d \in Calls : state[d] = "pending" /\ key[d] = key[c] => ~(ticket[d] < ticket[e])
      BY FirstWaiting
    <2>2. CASE Settled(prior[e])
      BY <2>1, <2>2 DEF Due
    <2>3. CASE ~Settled(prior[e])
      <3>1. /\ prior[e] \in Calls /\ state[prior[e]] \in {"pending", "running", "done"}
            /\ key[prior[e]] = key[c] /\ ticket[prior[e]] < ticket[e]
        BY <2>1, <2>3 DEF Settled, LockInv, PriorBefore, LockTypeOK, States
      <3>2. state[prior[e]] # "pending" /\ ticket[prior[e]] <= ticket[c]
        BY <2>1, <3>1 DEF LockTypeOK
      <3>3. QED
        BY <3>1, <3>2 DEF Due
    <2>4. QED
      BY <2>2, <2>3
  <1>2. QED
    BY <1>1, LockTypeCorrect, LockInvariant, PTL

-----------------------------------------------------------------------------
\* What an abstract caller sees of a call.
PlaceOf(s) == CASE s = "new"     -> "out"
                [] s = "pending" -> "waiting"
                [] s = "running" -> "inside"
                [] OTHER         -> "gone"

AheadOf(c) == IF state[c] = "pending" THEN Ahead(c) ELSE {}

\* The chain of promises implements the per-key lock that serves its callers
\* in order of arrival.
THEOREM ChainImplementsLock == LockSpec => ImplementsFifoLock
  <1> DEFINE place == [c \in Calls |-> PlaceOf(state[c])]
             ahead == [c \in Calls |-> AheadOf(c)]
  <1>1. LockInit => Abstract!Init
    BY DEF LockInit, Abstract!Init
  <1>2. LockTypeOK /\ LockInv /\ [LockNext]_lockVars => [Abstract!Next]_(Abstract!vars)
    <2> SUFFICES ASSUME LockTypeOK, LockInv, [LockNext]_lockVars
                 PROVE  Abstract!Next \/ UNCHANGED Abstract!vars
      OBVIOUS
    <2>1. ASSUME NEW c \in Calls, NEW k \in Keys, WithLock(c, k) PROVE Abstract!Next
      <3>1. /\ state[c] = "new"
            /\ state' = [state EXCEPT ![c] = "pending"]
            /\ key' = [key EXCEPT ![c] = k]
            /\ \A d \in Calls : ticket'[d] = IF d = c THEN arrivals ELSE ticket[d]
        BY <2>1 DEF WithLock, LockTypeOK
      <3>2. \A d \in Calls : state[d] # "new" => d # c /\ ticket[d] < arrivals
        BY <3>1 DEF LockInv, TicketsInOrder
      <3>3. \A d \in Calls : d # c /\ state[d] # "new" => Ahead(d)' = Ahead(d)
        BY <3>1, <3>2 DEF Ahead, Unfinished, LockTypeOK
      <3>4. Ahead(c)' = {d \in Calls : Unfinished(d) /\ key[d] = k}
        BY <3>1, <3>2 DEF Ahead, Unfinished, LockTypeOK
      <3>5. \A d \in Calls : PlaceOf(state[d]) \in {"waiting", "inside"} <=> Unfinished(d)
        BY DEF PlaceOf, Unfinished
      <3>6. place[c] = "out"
        BY <3>1 DEF PlaceOf
      <3>7. place' = [place EXCEPT ![c] = "waiting"]
        BY <3>1 DEF PlaceOf, LockTypeOK
      <3>8. ahead' = [ahead EXCEPT ![c] =
                        {d \in Calls : key[d] = k /\ place[d] \in {"waiting", "inside"}}]
        <4>1. {d \in Calls : key[d] = k /\ place[d] \in {"waiting", "inside"}} = Ahead(c)'
          BY <3>4, <3>5
        <4>2. AheadOf(c)' = Ahead(c)'
          BY <3>1 DEF AheadOf, LockTypeOK
        <4>3. \A d \in Calls : d # c => AheadOf(d)' = AheadOf(d)
          BY <3>1, <3>3 DEF AheadOf, LockTypeOK
        <4>4. QED
          BY <4>1, <4>2, <4>3
      <3>9. Abstract!Arrive(c, k)
        BY <3>1, <3>6, <3>7, <3>8 DEF Abstract!Arrive, PlaceOf, AheadOf
      <3>10. QED
        BY <3>9 DEF Abstract!Next
    <2>2. ASSUME NEW c \in Calls, Run(c) PROVE Abstract!Next
      <3>1. /\ state[c] = "pending"
            /\ state' = [state EXCEPT ![c] = "running"]
            /\ UNCHANGED <<key, ticket>>
        BY <2>2 DEF Run
      <3>2. Ahead(c) = {}
        BY <2>2, NobodyAhead DEF Run
      <3>3. \A d \in Calls : Ahead(d)' = Ahead(d)
        BY <3>1 DEF Ahead, Unfinished, LockTypeOK
      <3>4. place[c] = "waiting" /\ place' = [place EXCEPT ![c] = "inside"]
        BY <3>1 DEF PlaceOf, LockTypeOK
      <3>5. ahead[c] = {} /\ ahead' = ahead
        BY <3>1, <3>2, <3>3 DEF AheadOf, LockTypeOK
      <3>6. Abstract!Enter(c)
        BY <3>1, <3>4, <3>5 DEF Abstract!Enter, PlaceOf, AheadOf
      <3>7. QED
        BY <3>6 DEF Abstract!Next
    <2>3. ASSUME NEW c \in Calls, Finish(c) PROVE Abstract!Next
      <3>1. /\ state[c] = "running"
            /\ state' = [state EXCEPT ![c] = "done"]
            /\ UNCHANGED <<key, ticket>>
        BY <2>3 DEF Finish
      <3>2. \A d \in Calls : Ahead(d)' = Ahead(d) \ {c}
        BY <3>1 DEF Ahead, Unfinished, LockTypeOK
      <3>3. place[c] = "inside" /\ place' = [place EXCEPT ![c] = "gone"]
        BY <3>1 DEF PlaceOf, LockTypeOK
      <3>4. ahead' = [d \in Calls |-> ahead[d] \ {c}]
        BY <3>1, <3>2 DEF AheadOf, LockTypeOK
      <3>5. Abstract!Leave(c)
        BY <3>1, <3>3, <3>4 DEF Abstract!Leave, PlaceOf, AheadOf
      <3>6. QED
        BY <3>5 DEF Abstract!Next
    <2>4. ASSUME \/ \E c \in Calls : Settle(c) \/ Drop(c)
                 \/ UNCHANGED lockVars
          PROVE  UNCHANGED Abstract!vars
      <3>1. \A d \in Calls : /\ PlaceOf(state[d])' = PlaceOf(state[d])
                             /\ Unfinished(d)' <=> Unfinished(d)
                             /\ state'[d] = "pending" <=> state[d] = "pending"
        BY <2>4 DEF Settle, Drop, lockVars, PlaceOf, Unfinished, LockTypeOK
      <3>2. UNCHANGED <<key, ticket>>
        BY <2>4 DEF Settle, Drop, lockVars
      <3>3. \A d \in Calls : AheadOf(d)' = AheadOf(d)
        BY <3>1, <3>2 DEF AheadOf, Ahead
      <3>4. place' = place /\ ahead' = ahead
        BY <3>1, <3>3
      <3>5. QED
        BY <3>2, <3>4 DEF Abstract!vars, PlaceOf, AheadOf
    <2>5. QED
      BY <2>1, <2>2, <2>3, <2>4 DEF LockNext
  <1>3. QED
    BY <1>1, <1>2, LockTypeCorrect, LockInvariant, PTL DEF LockSpec, ImplementsFifoLock, Abstract!Spec

-----------------------------------------------------------------------------
(* The requests stay well typed. *)

\* A request that rests is a request.
LEMMA IdleType == Idle \in Records
  BY DEF Idle, Records, Kinds, Phases, LockedPhases, Versions, None

\* Moving a request on leaves a well-typed record.
LEMMA RecordUpdates ==
    ASSUME NEW m \in Records, NEW ph \in Phases, NEW v \in Versions, NEW b \in BOOLEAN
    PROVE  /\ [m EXCEPT !.phase = ph, !.proof = v] \in Records
           /\ [m EXCEPT !.phase = ph, !.gated = b] \in Records
  BY DEF Records

\* A request that changes its phase is a request.
LEMMA PhaseUpdate ==
    ASSUME NEW m \in Records, NEW ph \in Phases
    PROVE  [m EXCEPT !.phase = ph] \in Records
  BY DEF Records

\* A request starts as a well-typed record.
LEMMA StartType ==
    ASSUME TypeOK, NEW r \in Requests, NEW k \in Kinds, NEW ph \in Phases,
           NEW t \in Tokens \cup {NoToken}, NEW p \in Versions, NEW b \in BOOLEAN,
           Start(r, k, ph, t, p, b)
    PROVE  TypeOK'
  <1>1. [kind |-> k, phase |-> ph, token |-> t, proof |-> p, remember |-> b, gated |-> FALSE]
          \in Records
    BY DEF Records
  <1>2. request' \in [Requests -> Records]
    BY <1>1 DEF Start, TypeOK
  <1>3. QED
    BY <1>2 DEF Start, TypeOK, account, tokens

\* The phases and values a record takes.
LEMMA Values ==
    /\ {"idle", "queued", "issue", "session", "redeem", "commit", "wipeSessions", "wipeDevices",
        "wipeLogins", "hash", "replace", "store", "confirm", "forget", "clear", "drop"}
         \subseteq Phases
    /\ None \in Versions
  BY DEF Phases, LockedPhases, Versions, None

\* Replacing one record by a well-typed one.
LEMMA MoveType ==
    ASSUME TypeOK, NEW r \in Requests, NEW m \in Records
    PROVE  [request EXCEPT ![r] = m] \in [Requests -> Records]
  BY DEF TypeOK

\* A request that ends keeps the requests typed.
LEMMA EndType ==
    ASSUME TypeOK, NEW r \in Requests, End(r)
    PROVE  request' \in [Requests -> Records]
  BY IdleType, MoveType DEF End

\* A request that moves on keeps the requests typed.
LEMMA GotoType ==
    ASSUME TypeOK, NEW r \in Requests, NEW ph \in Phases, Goto(r, ph)
    PROVE  request' \in [Requests -> Records]
  <1>1. request[r] \in Records
    BY DEF TypeOK
  <1>2. request' = [request EXCEPT ![r] = [request[r] EXCEPT !.phase = ph]]
    BY DEF Goto, TypeOK
  <1>3. QED
    BY <1>1, <1>2, PhaseUpdate, MoveType

\* Issuing a token keeps the tokens well typed.
LEMMA IssueType ==
    ASSUME TypeOK, NEW r \in Requests, NEW t \in Tokens, Issue(r, t)
    PROVE  issued' \subseteq Tokens /\ proof' \in [Tokens -> Versions]
  <1>1. request[r].proof \in Versions
    BY DEF TypeOK, Records
  <1>2. QED
    BY <1>1 DEF Issue, TypeOK

\* Every step of a request keeps the state well typed.
LEMMA HandleType ==
    ASSUME TypeOK, NEW r \in Requests, Step(r)
    PROVE  TypeOK'
  <1> USE Values
  <1>1. request[r] \in Records
    BY DEF TypeOK
  <1>2. request[r].token \in Tokens \cup {NoToken}
    BY <1>1 DEF Records
  <1>s. ASSUME NEW b \in BOOLEAN, NEW p \in Versions, SignIn(r, p, b) PROVE TypeOK'
    BY <1>s, StartType DEF SignIn, Kinds
  <1>f. ASSUME NEW b \in BOOLEAN, NEW g \in BOOLEAN, Federated(r, b, g) PROVE TypeOK'
    <2>1. request' = [request EXCEPT ![r] =
            [kind |-> "federated", phase |-> "issue", token |-> NoToken, proof |-> None,
             remember |-> b, gated |-> g]]
      BY <1>f DEF Federated
    <2>2. [kind |-> "federated", phase |-> "issue", token |-> NoToken, proof |-> None,
           remember |-> b, gated |-> g] \in Records
      BY DEF Records, Kinds
    <2>3. request' \in [Requests -> Records]
      BY <2>1, <2>2, MoveType
    <2>4. QED
      BY <1>f, <2>3 DEF Federated, TypeOK, account, tokens
  <1>t. ASSUME NEW b \in BOOLEAN, NEW t \in Tokens, SignInTotp(r, t, b) PROVE TypeOK'
    BY <1>t, StartType DEF SignInTotp, Kinds
  <1>il. ASSUME NEW t \in Tokens, IssueLogin(r, t) PROVE TypeOK'
    BY <1>il, IssueType, EndType DEF IssueLogin, TypeOK, account
  <1>id. ASSUME NEW t \in Tokens, IssueDevice(r, t) PROVE TypeOK'
    BY <1>id, IssueType, GotoType DEF IssueDevice, TypeOK, account
  <1>is. ASSUME NEW t \in Tokens, IssueSession(r, t) PROVE TypeOK'
    <2>1. redeemed' \in [Tokens -> Nat]
      <3>1. ASSUME NEW u \in Tokens PROVE redeemed[u] + 1 \in Nat
        BY DEF TypeOK
      <3>2. [redeemed EXCEPT ![request[r].token] = @ + 1] \in [Tokens -> Nat]
        BY <3>1 DEF TypeOK
      <3>3. QED
        BY <1>is, <3>2 DEF IssueSession, TypeOK
    <2>2. QED
      BY <1>is, <2>1, IssueType, EndType DEF IssueSession, TypeOK, account
  <1>tr. ASSUME NEW t \in Tokens, SignInTrusted(r, t) PROVE TypeOK'
    BY <1>tr, StartType DEF SignInTrusted, Kinds
  <1>rr. ASSUME NEW t \in Tokens, ReplaceResetToken(r, t) PROVE TypeOK'
    BY <1>rr, IssueType, EndType DEF ReplaceResetToken, TypeOK, account
  <1>rp. ASSUME NEW t \in Tokens, ResetPassword(r, t) PROVE TypeOK'
    BY <1>rp, StartType DEF ResetPassword, Kinds
  <1>vp. CASE VerifyPassword(r)
    <2>1. CASE End(r)
      BY <1>vp, <2>1, EndType DEF VerifyPassword, TypeOK, account, tokens
    <2>2. CASE request' = [request EXCEPT ![r].phase = "issue", ![r].gated = verified]
      <3>1. verified \in BOOLEAN
        BY DEF TypeOK
      <3>2. request' = [request EXCEPT ![r] =
              [request[r] EXCEPT !.phase = "issue", !.gated = verified]]
        BY <2>2 DEF TypeOK
      <3>3. [request[r] EXCEPT !.phase = "issue", !.gated = verified] \in Records
        BY <1>1, <3>1, RecordUpdates
      <3>4. request' \in [Requests -> Records]
        BY <3>2, <3>3, MoveType
      <3>5. QED
        BY <1>vp, <3>4 DEF VerifyPassword, TypeOK, account, tokens
    <2>3. QED
      BY <1>vp, <2>1, <2>2 DEF VerifyPassword
  \* The steps that take the proof of the token they were given, or the version.
  <1>p. ASSUME NEW ph \in {"redeem", "issue", "session"}, NEW v \in Versions,
               request' = [request EXCEPT ![r].phase = ph, ![r].proof = v]
        PROVE  request' \in [Requests -> Records]
    <2>1. request' = [request EXCEPT ![r] = [request[r] EXCEPT !.phase = ph, !.proof = v]]
      BY <1>p DEF TypeOK
    <2>2. [request[r] EXCEPT !.phase = ph, !.proof = v] \in Records
      BY <1>1, RecordUpdates
    <2>3. QED
      BY <2>1, <2>2, MoveType
  <1>cc. CASE CheckCode(r)
    <2>1. CASE End(r)
      BY <1>cc, <2>1, EndType DEF CheckCode, TypeOK, account, tokens
    <2>2. CASE /\ request[r].token \in logins
               /\ request' = [request EXCEPT ![r].phase = "redeem",
                                             ![r].proof = proof[request[r].token]]
      <3>1. proof[request[r].token] \in Versions
        BY <2>2 DEF TypeOK
      <3>2. request' \in [Requests -> Records]
        BY <2>2, <3>1, <1>p
      <3>3. QED
        BY <1>cc, <3>2 DEF CheckCode, TypeOK, account, tokens
    <2>3. QED
      BY <1>cc, <2>1, <2>2 DEF CheckCode
  <1>rd. CASE Redeem(r)
    <2>1. request' \in [Requests -> Records]
      BY <1>rd, EndType, GotoType DEF Redeem
    <2>2. spent' \subseteq Tokens
      BY <1>rd DEF Redeem, TypeOK
    <2>3. QED
      BY <1>rd, <2>1, <2>2 DEF Redeem, TypeOK, account
  <1>cd. CASE CheckDevice(r)
    <2>1. CASE End(r)
      BY <1>cd, <2>1, EndType DEF CheckDevice, TypeOK, account, tokens
    <2>2. CASE /\ request[r].token \in devices
               /\ request' = [request EXCEPT ![r].phase = "issue",
                                             ![r].proof = proof[request[r].token]]
      <3>1. proof[request[r].token] \in Versions
        BY <2>2 DEF TypeOK
      <3>2. request' \in [Requests -> Records]
        BY <2>2, <3>1, <1>p
      <3>3. QED
        BY <1>cd, <3>2 DEF CheckDevice, TypeOK, account, tokens
    <2>3. QED
      BY <1>cd, <2>1, <2>2 DEF CheckDevice
  <1>up. ASSUME NEW p \in Versions, UpdatePassword(r, p) PROVE TypeOK'
    BY <1>up, StartType DEF UpdatePassword, Kinds
  <1>co. CASE CheckOldPassword(r)
    BY <1>co, EndType, GotoType DEF CheckOldPassword, TypeOK, account, tokens
  <1>au. CASE AdminUpdate(r)
    BY <1>au, StartType DEF AdminUpdate, Kinds
  <1>rq. CASE RequestResetPassword(r)
    <2>1. PICK t \in Tokens \cup {NoToken} : Start(r, "requestReset", "replace", t, None, FALSE)
      BY <1>rq DEF RequestResetPassword, TypeOK
    <2>2. QED
      BY <2>1, StartType DEF Kinds
  <1>ur. CASE UseResetToken(r)
    <2>1. request' \in [Requests -> Records]
      BY <1>ur, EndType, GotoType DEF UseResetToken
    <2>2. QED
      BY <1>ur, <2>1 DEF UseResetToken, TypeOK, account
  <1>cm. CASE Commit(r)
    <2>1. request' \in [Requests -> Records]
      BY <1>cm, GotoType DEF Commit
    <2>2. version' \in Versions /\ password' \in Versions
      BY <1>cm DEF Commit, TypeOK, Versions, None
    <2>3. QED
      BY <1>cm, <2>1, <2>2 DEF Commit, TypeOK, tokens
  <1>ws. CASE WipeSessions(r)
    BY <1>ws, GotoType DEF WipeSessions, TypeOK, account
  <1>wd. CASE WipeDevices(r)
    BY <1>wd, GotoType DEF WipeDevices, TypeOK, account
  <1>wl. CASE WipeLogins(r)
    <2>1. version \in Versions
      BY DEF TypeOK
    <2>2. request' \in [Requests -> Records]
      BY <1>wl, <2>1, <1>p, EndType DEF WipeLogins
    <2>3. QED
      BY <1>wl, <2>2 DEF WipeLogins, TypeOK, account
  <1>et. CASE EnableTotp(r)
    BY <1>et, StartType DEF EnableTotp, Kinds
  <1>ss. CASE StoreSecret(r)
    BY <1>ss, EndType DEF StoreSecret, TypeOK, tokens
  <1>vt. ASSUME NEW t \in devices \cup {NoToken}, VerifyTotp(r, t) PROVE TypeOK'
    <2>1. t \in Tokens \cup {NoToken}
      BY DEF TypeOK
    <2>2. QED
      BY <2>1, <1>vt, StartType DEF VerifyTotp, Kinds
  <1>ct. CASE ConfirmTotp(r)
    BY <1>ct, GotoType DEF ConfirmTotp, TypeOK, tokens
  <1>fd. CASE ForgetDevice(r)
    BY <1>fd, EndType DEF ForgetDevice, TypeOK, account
  <1>dt. CASE DisableTotp(r)
    BY <1>dt, StartType DEF DisableTotp, Kinds
  <1>rt. CASE ResetTotpForUser(r)
    BY <1>rt, StartType DEF ResetTotpForUser, Kinds
  <1>cl. CASE ClearTotp(r)
    BY <1>cl, EndType, GotoType DEF ClearTotp, TypeOK, tokens
  <1>dl. CASE DropLogins(r)
    BY <1>dl, EndType DEF DropLogins, TypeOK, account
  <1>q. QED
    BY <1>s, <1>f, <1>t, <1>il, <1>id, <1>is, <1>tr, <1>rr, <1>rp, <1>vp, <1>cc, <1>rd, <1>cd,
       <1>up, <1>co, <1>au, <1>rq, <1>ur, <1>cm, <1>ws, <1>wd, <1>wl, <1>et, <1>ss, <1>vt, <1>ct,
       <1>fd, <1>dt, <1>rt, <1>cl, <1>dl DEF Step

\* Every step keeps the state well typed.
LEMMA NextType == TypeOK /\ [Next]_vars => TypeOK'
  <1> SUFFICES ASSUME TypeOK, [Next]_vars PROVE TypeOK'
    OBVIOUS
  <1>1. ASSUME NEW t \in Tokens, Delete(t) PROVE TypeOK'
    BY <1>1 DEF Delete, DeleteSession, DeleteExpired, TypeOK, account
  <1>2. CASE RevokeTrustedDevices
    BY <1>2 DEF RevokeTrustedDevices, TypeOK, account
  <1>3. CASE Crash
    <2>1. request' \in [Requests -> Records]
      BY <1>3, IdleType DEF Crash
    <2>2. torn' \in BOOLEAN /\ crashes' \in 0..MaxCrashes
      BY <1>3 DEF Crash, TypeOK
    <2>3. QED
      BY <1>3, <2>1, <2>2 DEF Crash, TypeOK, account, tokens
  <1>4. CASE UNCHANGED vars
    BY <1>4 DEF vars, TypeOK
  <1>5. QED
    BY <1>1, <1>2, <1>3, <1>4, HandleType DEF Next, Handle

\* The account as it signed up is well typed.
LEMMA InitType == Init => TypeOK
  <1> SUFFICES ASSUME Init PROVE TypeOK
    OBVIOUS
  <1>1. request \in [Requests -> Records]
    BY IdleType DEF Init
  <1>2. proof \in [Tokens -> Versions] /\ redeemed \in [Tokens -> Nat]
    BY DEF Init, Versions, None
  <1>3. password \in Versions /\ version \in Versions /\ crashes \in 0..MaxCrashes
    BY DEF Init, Versions
  <1>4. QED
    BY <1>1, <1>2, <1>3 DEF Init, TypeOK

\* Every reachable state is well typed.
THEOREM CredentialsTypeCorrect == Spec => []TypeOK
  BY InitType, NextType, PTL DEF Spec

-----------------------------------------------------------------------------
(* That nothing issued on a superseded password survives a completed change, *)
(* and that login tokens and reset tokens are good once.                      *)

\* What the rest of a step may not disturb.
Kept == <<password, version, spent, issued, proof, redeemed, torn>>

\* Past its token: the token is deleted, and the reset goes on.
Past(m) == m.kind = "reset" /\ m.phase \notin {"idle", "hash"}

\* A request that holds the lock holds it alone.
Locked(m) == m.phase \in LockedPhases /\ m.kind # "federated"

\* While the lock is free no change is under way.
LEMMA FreeMeansQuiet ==
    ASSUME RequestsOK, Free, NEW r \in Requests
    PROVE  request[r].phase \notin WipePhases
  BY DEF RequestsOK, RequestOK, Free, Holds, WipePhases, LockedPhases

\* A step that moves one request on and at most deletes rows keeps the invariant,
\* if the request still is what a request may be, gets the lock only when it is
\* free, and gets past a reset token only by deleting it.
LEMMA Moves ==
    ASSUME TypeOK, AccessInv, NEW r \in Requests, NEW m \in Records,
           request' = [request EXCEPT ![r] = m],
           UNCHANGED Kept,
           sessions' \subseteq sessions, devices' \subseteq devices,
           logins' \subseteq logins, resets' \subseteq resets,
           request[r].phase \notin WipePhases, m.phase \notin WipePhases,
           RequestOK(m),
           Locked(m) => Holds(r) \/ Free,
           Past(m) => \/ Past(request[r]) /\ m.token = request[r].token
                      \/ m.token \in resets \ resets'
    PROVE  AccessInv'
  <1> USE DEF Kept
  <1>1. /\ request'[r] = m
        /\ \A q \in Requests \ {r} : request'[q] = request[q]
    BY DEF TypeOK
  <1>2. ASSUME NEW P, P \subseteq WipePhases PROVE Wiping(P)' <=> Wiping(P)
    <2>1. ASSUME NEW q \in Requests, request'[q].phase \in P PROVE request[q].phase \in P
      BY <1>1, <1>2, <2>1
    <2>2. ASSUME NEW q \in Requests, request[q].phase \in P PROVE request'[q].phase \in P
      BY <1>1, <1>2, <2>2
    <2>3. QED
      BY <2>1, <2>2 DEF Wiping
  <1>3. OneHolder'
    BY <1>1 DEF AccessInv, OneHolder, Holds, Locked, Free
  <1>4. RequestsOK'
    <2>1. ASSUME NEW q \in Requests, RequestOK(request[q]), request'[q] = request[q]
          PROVE  RequestOK(request[q])'
      BY <2>1 DEF RequestOK, Standing
    <2>2. RequestOK(request[r])'
      BY <1>1 DEF RequestOK, Standing
    <2>3. QED
      BY <1>1, <2>1, <2>2 DEF AccessInv, RequestsOK
  <1>5. RowsIssued'
    BY DEF AccessInv, RowsIssued
  <1>6. NoSupersededAccess'
    BY <1>2 DEF AccessInv, NoSupersededAccess, Standing, WipePhases
  <1>7. WipedStaysWiped'
    BY <1>1 DEF AccessInv, WipedStaysWiped, Standing, WipePhases
  <1>8. RedeemedOnce' /\ Standing(password)'
    BY DEF AccessInv, RedeemedOnce, Standing
  <1>9. ResetOnce'
    <2>1. ASSUME NEW q \in Requests, Past(request[q])' PROVE (request[q].token \notin resets)'
      BY <1>1, <2>1 DEF AccessInv, ResetOnce, Past
    <2>2. ASSUME NEW q \in Requests, NEW s \in Requests, q # s,
                 Past(request[q])', Past(request[s])'
          PROVE  (request[q].token # request[s].token)'
      BY <1>1, <2>2 DEF AccessInv, ResetOnce, Past
    <2>3. QED
      BY <2>1, <2>2 DEF ResetOnce, Past
  <1>10. QED
    BY <1>3, <1>4, <1>5, <1>6, <1>7, <1>8, <1>9 DEF AccessInv

\* Rows that go away on their own disturb nothing.
LEMMA Deletions ==
    ASSUME TypeOK, AccessInv, UNCHANGED <<request, Kept>>,
           sessions' \subseteq sessions, devices' \subseteq devices,
           logins' \subseteq logins, resets' \subseteq resets
    PROVE  AccessInv'
  <1> USE DEF Kept
  <1>1. OneHolder'
    BY DEF AccessInv, OneHolder, Holds
  <1>2. RequestsOK'
    <2>1. ASSUME NEW q \in Requests PROVE RequestOK(request[q])'
      BY DEF AccessInv, RequestsOK, RequestOK, Standing
    <2>2. QED
      BY <2>1 DEF RequestsOK
  <1>3. RowsIssued' /\ RedeemedOnce' /\ Standing(password)'
    BY DEF AccessInv, RowsIssued, RedeemedOnce, Standing
  <1>4. NoSupersededAccess'
    BY DEF AccessInv, NoSupersededAccess, Standing, Wiping
  <1>5. WipedStaysWiped'
    BY DEF AccessInv, WipedStaysWiped, Standing
  <1>6. ResetOnce'
    BY DEF AccessInv, ResetOnce
  <1>7. QED
    BY <1>1, <1>2, <1>3, <1>4, <1>5, <1>6 DEF AccessInv

\* A step that issues a fresh token on the request's proof keeps the invariant: the
\* request's proof stands, and no change is being made but by itself.
LEMMA Issues ==
    ASSUME TypeOK, AccessInv, NEW r \in Requests, NEW t \in Tokens, NEW m \in Records,
           Issue(r, t), request' = [request EXCEPT ![r] = m],
           UNCHANGED <<password, version, spent, torn>>,
           sessions' \subseteq sessions \cup {t}, devices' \subseteq devices \cup {t},
           logins' \subseteq logins \cup {t}, resets' \subseteq resets \cup {t},
           \/ request[r].phase \in {"issue", "session"}
           \/ /\ request[r].phase = "replace"
              /\ UNCHANGED <<sessions, devices, logins>>,
           \/ m = Idle
           \/ request[r].phase = "issue" /\ m = [request[r] EXCEPT !.phase = "session"],
           \/ redeemed' = redeemed
           \/ /\ m = Idle
              /\ request[r].kind = "totp" /\ request[r].phase \in {"issue", "session"}
              /\ redeemed' = [redeemed EXCEPT ![request[r].token] = @ + 1]
    PROVE  AccessInv'
  <1>1. /\ request'[r] = m
        /\ \A q \in Requests \ {r} : request'[q] = request[q]
    BY DEF TypeOK
  <1>2. /\ m.phase \in {"idle", "session"}
        /\ m.phase = "session" => /\ m.kind = request[r].kind /\ m.token = request[r].token
                                  /\ m.proof = request[r].proof /\ request[r].phase = "issue"
        /\ m.phase = "idle" => m = Idle
    BY DEF Idle, TypeOK, Records
  <1>3. /\ t \notin issued /\ issued' = issued \cup {t}
        /\ proof'[t] = request[r].proof
        /\ \A u \in Tokens \ {t} : proof'[u] = proof[u]
    BY DEF Issue, TypeOK
  <1>4. /\ request[r].phase \in {"issue", "session"} => torn \/ Standing(request[r].proof)
        /\ request[r].kind = "federated" => request[r].proof = None
    BY DEF AccessInv, RequestsOK, RequestOK
  <1>5. ASSUME NEW P, P \subseteq WipePhases PROVE Wiping(P)' <=> Wiping(P)
    <2>1. request[r].phase \notin WipePhases /\ m.phase \notin WipePhases
      BY <1>2 DEF WipePhases
    <2>2. ASSUME NEW q \in Requests PROVE request'[q].phase \in P <=> request[q].phase \in P
      BY <1>1, <1>5, <2>1
    <2>3. QED
      BY <2>2 DEF Wiping
  <1>6. OneHolder'
    BY <1>1, <1>2 DEF AccessInv, OneHolder, Holds, LockedPhases, Idle
  <1>7. RequestsOK'
    <2>1. ASSUME NEW q \in Requests \ {r} PROVE RequestOK(request[q])'
      <3>1. request'[q] = request[q] /\ RequestOK(request[q])
        BY <1>1 DEF AccessInv, RequestsOK
      <3>2. CASE redeemed' = redeemed
        BY <1>3, <3>1, <3>2 DEF RequestOK, Standing
      \* The other request did not redeem the same token: it would hold the lock too.
      <3>3. CASE /\ request[r].kind = "totp" /\ request[r].phase \in {"issue", "session"}
                 /\ redeemed' = [redeemed EXCEPT ![request[r].token] = @ + 1]
        <4>1. ~(request[q].kind = "totp" /\ request[q].phase \in {"issue", "session"})
          BY <3>3 DEF AccessInv, OneHolder, Holds, LockedPhases
        <4>2. QED
          BY <1>3, <3>1, <4>1 DEF RequestOK, Standing
      <3>4. QED
        BY <3>2, <3>3
    <2>2. RequestOK(request[r])'
      <3>1. CASE m = Idle
        BY <1>1, <3>1 DEF RequestOK, Idle, WipePhases
      <3>2. CASE m.phase = "session"
        <4>1. redeemed' = redeemed
          BY <3>2 DEF Idle
        <4>2. RequestOK(request[r])
          BY DEF AccessInv, RequestsOK
        <4>3. QED
          BY <1>1, <1>2, <1>3, <3>2, <4>1, <4>2 DEF RequestOK, Standing, WipePhases
      <3>3. QED
        BY <1>2, <3>1, <3>2
    <2>3. QED
      BY <2>1, <2>2 DEF RequestsOK
  <1>8. RowsIssued' /\ RedeemedOnce'
    <2>1. (sessions \cup devices \cup logins \cup resets \cup spent \subseteq issued)'
      BY <1>3 DEF AccessInv, RowsIssued
    <2>2. ASSUME NEW u \in Tokens PROVE redeemed'[u] <= 1 /\ (redeemed'[u] # 0 => u \in spent)
      <3>1. redeemed[u] <= 1 /\ (redeemed[u] # 0 => u \in spent)
        BY DEF AccessInv, RowsIssued, RedeemedOnce
      <3>2. request[r].kind = "totp" /\ request[r].phase \in {"issue", "session"} =>
              request[r].token \in spent /\ redeemed[request[r].token] = 0
        BY DEF AccessInv, RequestsOK, RequestOK
      <3>3. QED
        BY <3>1, <3>2 DEF TypeOK
    <2>3. QED
      BY <2>1, <2>2 DEF RowsIssued, RedeemedOnce
  <1>9. NoSupersededAccess'
    <2>1. ASSUME ~torn, t \in sessions' \cup devices' \cup logins' PROVE Standing(proof[t])'
      <3>1. t \notin sessions \cup devices \cup logins
        BY <1>3 DEF AccessInv, RowsIssued
      <3>2. QED
        BY <1>3, <1>4, <2>1, <3>1 DEF Standing
    <2>2. ASSUME NEW u \in Tokens \ {t} PROVE Standing(proof[u])' <=> Standing(proof[u])
      BY <1>3 DEF Standing
    <2>3. QED
      BY <1>5, <2>1, <2>2 DEF AccessInv, NoSupersededAccess, WipePhases, TypeOK
  <1>10. WipedStaysWiped'
    <2> SUFFICES ASSUME NEW q \in Requests, request'[q].phase \in {"wipeDevices", "wipeLogins"}
                 PROVE  /\ \A u \in sessions' : Standing(proof[u])'
                        /\ request'[q].phase = "wipeLogins" =>
                             \A u \in devices' : Standing(proof[u])'
      BY DEF WipedStaysWiped
    <2>1. q # r /\ request'[q] = request[q]
      BY <1>1, <1>2
    <2>2. Holds(q)
      BY <2>1 DEF Holds, LockedPhases, AccessInv, RequestsOK, RequestOK, WipePhases
    <2>3. request[r].phase \in {"issue", "session"} => request[r].proof = None
      BY <1>4, <2>1, <2>2 DEF AccessInv, OneHolder, Holds, LockedPhases
    <2>4. t \notin sessions \cup devices
      BY <1>3 DEF AccessInv, RowsIssued
    <2>5. t \in sessions' \cup devices' => Standing(proof[t])'
      BY <1>3, <2>3, <2>4 DEF Standing
    <2>6. ASSUME NEW u \in Tokens \ {t} PROVE Standing(proof[u])' <=> Standing(proof[u])
      BY <1>3 DEF Standing
    <2>7. QED
      BY <2>1, <2>5, <2>6 DEF AccessInv, WipedStaysWiped, TypeOK
  <1>11. ResetOnce'
    <2>1. ~Past(m)
      BY <1>2 DEF Past, AccessInv, RequestsOK, RequestOK, Idle
    <2>2. ASSUME NEW q \in Requests, Past(request[q])' PROVE (request[q].token \notin resets)'
      <3>1. q # r /\ request'[q] = request[q] /\ Past(request[q])
        BY <1>1, <2>1, <2>2 DEF Past
      <3>2. request[q].token \in issued /\ request[q].token \notin resets
        BY <3>1 DEF AccessInv, RequestsOK, RequestOK, ResetOnce, Past
      <3>3. QED
        BY <1>3, <3>1, <3>2
    <2>3. QED
      BY <1>1, <2>1, <2>2 DEF AccessInv, ResetOnce, Past
  <1>12. Standing(password)'
    BY DEF AccessInv, Standing
  <1>13. QED
    BY <1>6, <1>7, <1>8, <1>9, <1>10, <1>11, <1>12 DEF AccessInv

\* Marking a login token used: nobody else is about to.
LEMMA Redeems ==
    ASSUME TypeOK, AccessInv, NEW r \in Requests, Redeem(r)
    PROVE  AccessInv'
  <1> USE DEF Redeem, account
  <1>1. PICK m \in Records : /\ request' = [request EXCEPT ![r] = m]
                            /\ \/ m = Idle /\ UNCHANGED spent
                               \/ /\ m = [request[r] EXCEPT !.phase = "issue"]
                                  /\ request[r].token \in logins
                                  /\ spent' = spent \cup {request[r].token}
    <2>1. [request[r] EXCEPT !.phase = "issue"] \in Records
      BY PhaseUpdate, Values DEF TypeOK
    <2>2. CASE End(r) /\ UNCHANGED spent
      BY <2>2, IdleType DEF End
    <2>3. CASE /\ Goto(r, "issue") /\ request[r].token \in logins
               /\ spent' = spent \cup {request[r].token}
      <3>1. request' = [request EXCEPT ![r] = [request[r] EXCEPT !.phase = "issue"]]
        BY <2>3 DEF Goto, TypeOK
      <3>2. QED
        BY <2>1, <2>3, <3>1
    <2>4. \/ End(r) /\ UNCHANGED spent
          \/ /\ Goto(r, "issue") /\ request[r].token \in logins
             /\ spent' = spent \cup {request[r].token}
      OBVIOUS
    <2>5. QED
      BY <2>2, <2>3, <2>4, Zenon
  <1>2. /\ request'[r] = m
        /\ \A q \in Requests \ {r} : request'[q] = request[q]
    BY <1>1 DEF TypeOK
  <1>3. RequestOK(request[r]) /\ request[r].kind = "totp" /\ request[r].token \notin spent
    BY DEF AccessInv, RequestsOK, RequestOK
  <1>4. \/ m = Idle
        \/ /\ m.phase = "issue" /\ m.kind = "totp"
           /\ m.token = request[r].token /\ m.proof = request[r].proof
    BY <1>1, <1>3 DEF TypeOK, Records
  <1>5. m.phase \notin WipePhases /\ request[r].phase \notin WipePhases
    BY <1>4 DEF Idle, WipePhases
  <1>6. ASSUME NEW q \in Requests \ {r} PROVE ~(request[q].phase = "redeem")
    <2>1. Holds(r)
      BY <1>3 DEF Holds, LockedPhases
    <2>2. request[q].phase = "redeem" => Holds(q)
      BY DEF Holds, LockedPhases, AccessInv, RequestsOK, RequestOK
    <2>3. QED
      BY <2>1, <2>2 DEF AccessInv, OneHolder
  <1>7. OneHolder'
    BY <1>2, <1>3, <1>4 DEF AccessInv, OneHolder, Holds, LockedPhases, Idle
  <1>8. RequestsOK'
    <2>1. ASSUME NEW q \in Requests \ {r} PROVE RequestOK(request[q])'
      <3>1. RequestOK(request[q]) /\ request'[q] = request[q] /\ spent \subseteq spent'
        BY <1>1, <1>2 DEF AccessInv, RequestsOK
      <3>2. QED
        BY <1>6, <3>1 DEF RequestOK, Standing
    <2>2. RequestOK(request[r])'
      <3>1. CASE m = Idle
        BY <1>2, <3>1 DEF RequestOK, Idle, WipePhases
      <3>2. CASE m.phase = "issue"
        <4>1. m.token \in Tokens /\ m.token \in spent' /\ redeemed[m.token] = 0
          BY <1>1, <1>3, <1>4, <3>2 DEF Idle, TypeOK, AccessInv, RowsIssued
        <4>2. QED
          BY <1>2, <1>3, <1>4, <3>2, <4>1 DEF RequestOK, Standing, WipePhases, Idle
      <3>3. QED
        BY <1>4, <3>1, <3>2 DEF Idle
    <2>3. QED
      BY <2>1, <2>2 DEF RequestsOK
  <1>9. RowsIssued' /\ RedeemedOnce' /\ Standing(password)'
    BY <1>1 DEF AccessInv, RowsIssued, RedeemedOnce, Standing
  <1>10. NoSupersededAccess'
    <2>1. ASSUME NEW P, P \subseteq WipePhases PROVE Wiping(P)' <=> Wiping(P)
      <3>1. ASSUME NEW q \in Requests PROVE request'[q].phase \in P <=> request[q].phase \in P
        BY <1>2, <1>5, <2>1
      <3>2. QED
        BY <3>1 DEF Wiping
    <2>2. QED
      BY <2>1 DEF AccessInv, NoSupersededAccess, Standing, WipePhases
  <1>11. WipedStaysWiped'
    BY <1>2, <1>5 DEF AccessInv, WipedStaysWiped, Standing, WipePhases
  <1>12. ResetOnce'
    BY <1>2, <1>4 DEF AccessInv, ResetOnce, Idle
  <1>13. QED
    BY <1>7, <1>8, <1>9, <1>10, <1>11, <1>12 DEF AccessInv

\* A request moved to another phase.
LEMMA GotoMoves ==
    ASSUME TypeOK, NEW r \in Requests, NEW ph \in Phases, Goto(r, ph)
    PROVE  /\ request'[r] = [request[r] EXCEPT !.phase = ph]
           /\ request'[r].phase = ph /\ request'[r].kind = request[r].kind
           /\ request'[r].token = request[r].token /\ request'[r].proof = request[r].proof
           /\ \A q \in Requests \ {r} : request'[q] = request[q]
  BY DEF Goto, TypeOK, Records

\* Under the lock nobody but a federated sign-in is past its check.
LEMMA OthersOutside ==
    ASSUME AccessInv, NEW r \in Requests, Holds(r) \/ Free, NEW q \in Requests \ {r}
    PROVE  /\ request[q].phase \notin WipePhases \cup {"redeem", "commit"}
           /\ request[q].phase \in {"issue", "session"} =>
                 request[q].kind = "federated" /\ request[q].proof = None
  <1>1. RequestOK(request[q]) /\ ~Holds(q)
    BY DEF AccessInv, RequestsOK, OneHolder, Free
  <1>2. QED
    BY <1>1 DEF RequestOK, Holds, LockedPhases, WipePhases

\* Writing the new hash: everything issued on the old password is now to be deleted.
LEMMA Commits ==
    ASSUME TypeOK, AccessInv, NEW r \in Requests, Commit(r),
           request[r].phase = "queued" => Free
    PROVE  AccessInv'
  <1> USE DEF Commit, tokens
  <1>1. /\ request'[r].phase = "wipeSessions" /\ request'[r].kind = request[r].kind
        /\ request'[r].token = request[r].token /\ request'[r].proof = request[r].proof
        /\ \A q \in Requests \ {r} : request'[q] = request[q]
    BY GotoMoves, Values
  <1>2. request[r].kind \in {"update", "admin", "reset"} /\ RequestOK(request[r])
    BY DEF AccessInv, RequestsOK, RequestOK
  <1>3. Holds(r) \/ Free
    BY <1>2 DEF Holds, LockedPhases
  <1>4. Standing(password)'
    BY DEF Standing
  <1>5. OneHolder'
    BY <1>1, <1>3 DEF AccessInv, OneHolder, Holds, Free
  <1>6. RequestsOK'
    <2>1. ASSUME NEW q \in Requests \ {r} PROVE RequestOK(request[q])'
      <3>1. /\ RequestOK(request[q]) /\ request'[q] = request[q]
            /\ request[q].phase \notin {"redeem", "commit"}
            /\ request[q].phase \in {"issue", "session"} =>
                 request[q].kind = "federated" /\ request[q].proof = None
        BY <1>1, <1>3, OthersOutside DEF AccessInv, RequestsOK
      <3>2. QED
        BY <3>1 DEF RequestOK, Standing
    <2>2. RequestOK(request[r])'
      BY <1>1, <1>2 DEF RequestOK, WipePhases
    <2>3. QED
      BY <2>1, <2>2 DEF RequestsOK
  <1>7. RowsIssued' /\ RedeemedOnce'
    BY DEF AccessInv, RowsIssued, RedeemedOnce
  <1>8. NoSupersededAccess'
    BY <1>1 DEF NoSupersededAccess, Wiping, WipePhases
  <1>9. WipedStaysWiped'
    BY <1>1, <1>3, OthersOutside DEF WipedStaysWiped, WipePhases
  <1>10. ResetOnce'
    <2>1. Past(request[r])' => Past(request[r])
      BY <1>1 DEF Past
    <2>2. QED
      BY <1>1, <2>1 DEF AccessInv, ResetOnce, Past
  <1>11. QED
    BY <1>4, <1>5, <1>6, <1>7, <1>8, <1>9, <1>10 DEF AccessInv

\* The request that deletes what the old password gave is the only one that may
\* grant anything on it.
LEMMA Wipes ==
    ASSUME TypeOK, AccessInv, NEW r \in Requests,
           WipeSessions(r) \/ WipeDevices(r)
    PROVE  AccessInv'
  <1> USE DEF WipeSessions, WipeDevices, account
  <1>1. PICK ph \in {"wipeDevices", "wipeLogins"} :
          /\ Goto(r, ph)
          /\ ph = "wipeDevices" => /\ request[r].phase = "wipeSessions" /\ sessions' = {}
                                   /\ UNCHANGED devices
          /\ ph = "wipeLogins" => /\ request[r].phase = "wipeDevices" /\ devices' = {}
                                  /\ UNCHANGED sessions
    OBVIOUS
  <1>2. /\ request'[r].phase = ph /\ request'[r].kind = request[r].kind
        /\ request'[r].token = request[r].token /\ request'[r].proof = request[r].proof
        /\ \A q \in Requests \ {r} : request'[q] = request[q]
    BY <1>1, GotoMoves, Values
  <1>3. RequestOK(request[r]) /\ request[r].kind \in {"update", "admin", "reset"}
    BY <1>1 DEF AccessInv, RequestsOK, RequestOK, WipePhases
  <1>4. Holds(r)
    BY <1>1, <1>3 DEF Holds, LockedPhases
  <1>5. \A q \in Requests \ {r} : request[q].phase \notin WipePhases
    BY <1>4, OthersOutside
  <1>6. OneHolder'
    BY <1>2, <1>4 DEF AccessInv, OneHolder, Holds
  <1>7. RequestsOK'
    <2>1. ASSUME NEW q \in Requests \ {r} PROVE RequestOK(request[q])'
      <3>1. RequestOK(request[q]) /\ request'[q] = request[q]
        BY <1>2 DEF AccessInv, RequestsOK
      <3>2. QED
        BY <3>1 DEF RequestOK, Standing
    <2>2. RequestOK(request[r])'
      BY <1>2, <1>3 DEF RequestOK, WipePhases
    <2>3. QED
      BY <2>1, <2>2 DEF RequestsOK
  <1>8. RowsIssued' /\ RedeemedOnce' /\ Standing(password)'
    BY DEF AccessInv, RowsIssued, RedeemedOnce, Standing
  <1>9. NoSupersededAccess'
    <2>1. Wiping(WipePhases)' /\ (ph = "wipeDevices" => Wiping({"wipeSessions", "wipeDevices"})')
      BY <1>2 DEF Wiping, WipePhases
    <2>2. ~Wiping({"wipeSessions"}) \/ request[r].phase = "wipeSessions"
      BY <1>5 DEF Wiping, WipePhases
    <2>3. QED
      BY <1>1, <2>1, <2>2 DEF AccessInv, NoSupersededAccess, Standing
  <1>10. WipedStaysWiped'
    <2>1. CASE ph = "wipeDevices"
      BY <1>1, <1>2, <1>5, <2>1 DEF WipedStaysWiped, WipePhases
    <2>2. CASE ph = "wipeLogins"
      BY <1>1, <1>2, <1>5, <2>2 DEF AccessInv, WipedStaysWiped, WipePhases, Standing
    <2>3. QED
      BY <2>1, <2>2
  <1>11. ResetOnce'
    <2>1. Past(request[r])' => Past(request[r])
      BY <1>1, <1>2 DEF Past
    <2>2. QED
      BY <1>2, <2>1 DEF AccessInv, ResetOnce, Past
  <1>12. QED
    BY <1>6, <1>7, <1>8, <1>9, <1>10, <1>11 DEF AccessInv

\* The last delete: whatever is left stands, however torn the account was before.
LEMMA LastWipe ==
    ASSUME TypeOK, AccessInv, NEW r \in Requests, WipeLogins(r)
    PROVE  AccessInv'
  <1> USE DEF WipeLogins, account
  <1>1. /\ \A q \in Requests \ {r} : request'[q] = request[q]
        /\ \/ request'[r] = Idle
           \/ /\ request'[r].phase = "session" /\ request'[r].kind = "update"
              /\ request'[r].token = request[r].token /\ request'[r].proof = version
    BY DEF End, TypeOK, Records
  <1>2. Holds(r)
    BY DEF Holds, LockedPhases, AccessInv, RequestsOK, RequestOK, WipePhases
  <1>3. ASSUME NEW q \in Requests \ {r}
        PROVE  /\ request[q].phase \notin WipePhases \cup {"redeem", "commit"}
               /\ request[q].phase \in {"issue", "session"} =>
                    request[q].kind = "federated" /\ request[q].proof = None
    BY <1>2, OthersOutside
  <1>4. OneHolder'
    BY <1>1, <1>2 DEF AccessInv, OneHolder, Holds, Idle, LockedPhases
  <1>5. RequestsOK'
    <2>1. ASSUME NEW q \in Requests \ {r} PROVE RequestOK(request[q])'
      <3>1. RequestOK(request[q]) /\ request'[q] = request[q]
        BY <1>1 DEF AccessInv, RequestsOK
      <3>2. QED
        BY <1>3, <3>1 DEF RequestOK, Standing
    <2>2. RequestOK(request[r])'
      BY <1>1 DEF RequestOK, WipePhases, Idle, Standing
    <2>3. QED
      BY <2>1, <2>2 DEF RequestsOK
  <1>6. RowsIssued' /\ RedeemedOnce' /\ Standing(password)'
    BY DEF AccessInv, RowsIssued, RedeemedOnce, Standing
  <1>7. NoSupersededAccess'
    BY DEF AccessInv, WipedStaysWiped, NoSupersededAccess, Standing
  <1>8. WipedStaysWiped'
    <2>1. \A q \in Requests : request'[q].phase \notin {"wipeDevices", "wipeLogins"}
      BY <1>1, <1>3 DEF Idle, WipePhases
    <2>2. QED
      BY <2>1 DEF WipedStaysWiped
  <1>9. ResetOnce'
    <2>1. ~Past(request[r])'
      BY <1>1 DEF Past, Idle
    <2>2. QED
      BY <1>1, <2>1 DEF AccessInv, ResetOnce, Past
  <1>10. QED
    BY <1>4, <1>5, <1>6, <1>7, <1>8, <1>9 DEF AccessInv

\* A restart: the requests are gone, and a change among them is torn.
LEMMA Restarts ==
    ASSUME TypeOK, AccessInv, Crash
    PROVE  AccessInv'
  <1> USE DEF Crash, account, tokens
  <1>1. \A q \in Requests : request'[q] = Idle
    OBVIOUS
  <1>2. OneHolder'
    BY <1>1 DEF OneHolder, Holds, Idle, LockedPhases
  <1>3. RequestsOK'
    BY <1>1 DEF RequestsOK, RequestOK, Idle, WipePhases
  <1>4. RowsIssued' /\ RedeemedOnce' /\ Standing(password)'
    BY DEF AccessInv, RowsIssued, RedeemedOnce, Standing
  <1>5. NoSupersededAccess'
    <2>1. ~torn' => ~Wiping(WipePhases) /\ ~Wiping({"wipeSessions"})
                     /\ ~Wiping({"wipeSessions", "wipeDevices"}) /\ ~torn
      BY DEF Wiping, WipePhases
    <2>2. QED
      BY <2>1 DEF AccessInv, NoSupersededAccess, Standing
  <1>6. WipedStaysWiped'
    BY <1>1 DEF WipedStaysWiped, Idle
  <1>7. ResetOnce'
    BY <1>1 DEF ResetOnce, Idle
  <1>8. QED
    BY <1>2, <1>3, <1>4, <1>5, <1>6, <1>7 DEF AccessInv

\* A request that starts has neither the lock nor a token behind it.
LEMMA Starts ==
    ASSUME TypeOK, AccessInv, NEW r \in Requests, NEW k \in Kinds \ {"federated"},
           NEW ph \in Phases \ LockedPhases, NEW t \in Tokens \cup {NoToken},
           NEW p \in Versions, NEW b \in BOOLEAN, Start(r, k, ph, t, p, b),
           ph = "hash" <=> k = "reset",
           k \in {"totp", "trusted", "reset"} => t \in issued
    PROVE  AccessInv'
  <1> DEFINE m == [kind |-> k, phase |-> ph, token |-> t, proof |-> p, remember |-> b,
                   gated |-> FALSE]
  <1>1. m \in Records
    BY DEF Records
  <1>2. request[r].phase \notin WipePhases /\ ph \notin WipePhases
    BY DEF Start, WipePhases, LockedPhases
  <1>3. RequestOK(m)
    BY DEF RequestOK, WipePhases, LockedPhases
  <1>4. ~Locked(m) /\ ~Past(m)
    BY DEF Locked, Past
  <1>5. QED
    BY <1>1, <1>2, <1>3, <1>4, Moves DEF Start, account, tokens, Kept

\* A request that ends gives the lock back.
LEMMA Ends ==
    ASSUME TypeOK, AccessInv, NEW r \in Requests, End(r), UNCHANGED Kept,
           sessions' \subseteq sessions, devices' \subseteq devices,
           logins' \subseteq logins, resets' \subseteq resets,
           request[r].phase \notin WipePhases
    PROVE  AccessInv'
  <1>1. RequestOK(Idle) /\ ~Locked(Idle) /\ ~Past(Idle) /\ Idle.phase \notin WipePhases
    BY DEF RequestOK, Idle, WipePhases, Locked, LockedPhases, Past
  <1>2. QED
    BY <1>1, IdleType, Moves DEF End

\* A request that goes on to a phase outside the lock, or inside it when it is free.
LEMMA Proceeds ==
    ASSUME TypeOK, AccessInv, NEW r \in Requests, NEW ph \in Phases \ WipePhases,
           Goto(r, ph), UNCHANGED Kept,
           sessions' \subseteq sessions, devices' \subseteq devices,
           logins' \subseteq logins, resets' \subseteq resets,
           request[r].phase \notin WipePhases,
           RequestOK([request[r] EXCEPT !.phase = ph]),
           ph \in LockedPhases => Free,
           request[r].kind = "reset" /\ ph \notin {"idle", "hash"} =>
              \/ request[r].phase \notin {"idle", "hash"}
              \/ request[r].token \in resets \ resets'
    PROVE  AccessInv'
  <1> DEFINE m == [request[r] EXCEPT !.phase = ph]
  <1>1. m \in Records /\ m.phase = ph /\ m.kind = request[r].kind /\ m.token = request[r].token
    BY PhaseUpdate DEF TypeOK, Records
  <1>2. request' = [request EXCEPT ![r] = m]
    BY DEF Goto, TypeOK
  <1> HIDE DEF m
  <1>3. RequestOK(m)
    BY DEF m
  <1>4. Locked(m) => Free
    BY <1>1 DEF Locked
  <1>5. Past(m) => \/ Past(request[r]) /\ m.token = request[r].token
                   \/ m.token \in resets \ resets'
    BY <1>1 DEF Past
  <1>6. QED
    BY <1>1, <1>2, <1>3, <1>4, <1>5, Moves

\* A check in the lock that lets a request through on a proof.
LEMMA Admits ==
    ASSUME TypeOK, AccessInv, NEW r \in Requests, NEW m \in Records,
           request' = [request EXCEPT ![r] = m], UNCHANGED <<account, tokens, torn>>,
           Free, m.phase \in {"issue", "redeem"}, m.kind # "reset", RequestOK(m)
    PROVE  AccessInv'
  <1>1. request[r].phase \notin WipePhases /\ m.phase \notin WipePhases
    BY FreeMeansQuiet DEF WipePhases, AccessInv
  <1>2. QED
    BY <1>1, Moves DEF account, tokens, Kept, Past

\* Every step of a request keeps the invariant.
LEMMA HandleSafe ==
    ASSUME TypeOK, AccessInv, NEW r \in Requests, Handle(r)
    PROVE  AccessInv'
  <1> USE Values
  <1>0. request[r].phase = "queued" => Free
    BY DEF Handle
  <1>1. request[r] \in Records /\ RequestOK(request[r])
    BY DEF TypeOK, AccessInv, RequestsOK
  <1>2. RequestOK(request[r]) /\ Free => request[r].phase \notin WipePhases
    BY FreeMeansQuiet DEF AccessInv
  <1>3. Standing(password) /\ sessions \cup devices \cup logins \cup resets \subseteq issued
    BY DEF AccessInv, RowsIssued
  \* A token found in the lock was issued on a proof that still stands.
  <1>4. ASSUME Free, NEW t \in sessions \cup devices \cup logins
        PROVE  torn \/ Standing(proof[t])
    BY <1>4, FreeMeansQuiet DEF AccessInv, NoSupersededAccess, Wiping, WipePhases
  <1>s. ASSUME NEW b \in BOOLEAN, NEW p \in Versions, SignIn(r, p, b) PROVE AccessInv'
    BY <1>s, Starts DEF SignIn, Kinds, LockedPhases
  <1>f. ASSUME NEW b \in BOOLEAN, NEW g \in BOOLEAN, Federated(r, b, g) PROVE AccessInv'
    <2> DEFINE m == [kind |-> "federated", phase |-> "issue", token |-> NoToken, proof |-> None,
                     remember |-> b, gated |-> g]
    <2>1. m \in Records /\ RequestOK(m) /\ ~Locked(m) /\ ~Past(m)
      BY DEF Records, Kinds, RequestOK, WipePhases, Standing, Locked, Past
    <2>2. request[r].phase \notin WipePhases /\ m.phase \notin WipePhases
      BY <1>f DEF Federated, WipePhases
    <2>3. QED
      BY <1>f, <2>1, <2>2, Moves DEF Federated, account, tokens, Kept
  <1>t. ASSUME NEW b \in BOOLEAN, NEW t \in Tokens, SignInTotp(r, t, b) PROVE AccessInv'
    BY <1>t, <1>3, Starts DEF SignInTotp, Kinds, LockedPhases
  <1>il. ASSUME NEW t \in Tokens, IssueLogin(r, t) PROVE AccessInv'
    BY <1>il, IdleType, Issues DEF IssueLogin, account, End
  <1>id. ASSUME NEW t \in Tokens, IssueDevice(r, t) PROVE AccessInv'
    <2>1. [request[r] EXCEPT !.phase = "session"] \in Records
      BY <1>1, PhaseUpdate
    <2>2. request' = [request EXCEPT ![r] = [request[r] EXCEPT !.phase = "session"]]
      BY <1>id DEF IssueDevice, Goto, TypeOK
    <2>3. QED
      BY <1>id, <2>1, <2>2, Issues DEF IssueDevice, account
  <1>is. ASSUME NEW t \in Tokens, IssueSession(r, t) PROVE AccessInv'
    BY <1>is, IdleType, Issues DEF IssueSession, account, End
  <1>tr. ASSUME NEW t \in Tokens, SignInTrusted(r, t) PROVE AccessInv'
    BY <1>tr, <1>3, Starts DEF SignInTrusted, Kinds, LockedPhases
  <1>rr. ASSUME NEW t \in Tokens, ReplaceResetToken(r, t) PROVE AccessInv'
    <2>1. CASE Issue(r, t) /\ resets' = {t}
      BY <1>rr, <2>1, IdleType, Issues DEF ReplaceResetToken, account, End
    <2>2. CASE UNCHANGED <<resets, issued, proof>>
      BY <1>rr, <2>2, Ends DEF ReplaceResetToken, account, Kept, WipePhases
    <2>3. QED
      BY <1>rr, <2>1, <2>2 DEF ReplaceResetToken
  <1>rp. ASSUME NEW t \in Tokens, ResetPassword(r, t) PROVE AccessInv'
    BY <1>rp, <1>3, Starts DEF ResetPassword, Kinds, LockedPhases
  <1>vp. CASE VerifyPassword(r)
    <2>1. CASE End(r)
      BY <1>vp, <2>1, Ends DEF VerifyPassword, account, tokens, Kept, WipePhases
    <2>2. CASE /\ password = request[r].proof
               /\ request' = [request EXCEPT ![r].phase = "issue", ![r].gated = verified]
      <3> DEFINE m == [request[r] EXCEPT !.phase = "issue", !.gated = verified]
      <3>1. request' = [request EXCEPT ![r] = m]
        BY <2>2 DEF TypeOK
      <3>2. m \in Records
        BY <1>1, RecordUpdates DEF TypeOK
      <3>3. m.phase = "issue" /\ m.kind = "signIn" /\ m.proof = password
        BY <1>1, <1>vp, <2>2 DEF VerifyPassword, Records
      <3> HIDE DEF m
      <3>4. RequestOK(m)
        BY <1>3, <3>3 DEF RequestOK, WipePhases
      <3>5. QED
        BY <1>0, <1>vp, <3>1, <3>2, <3>3, <3>4, Admits DEF VerifyPassword
    <2>3. QED
      BY <1>vp, <2>1, <2>2 DEF VerifyPassword
  <1>cc. CASE CheckCode(r)
    <2>1. CASE End(r)
      BY <1>cc, <2>1, Ends DEF CheckCode, account, tokens, Kept, WipePhases
    <2>2. CASE /\ request[r].token \in logins \ spent
               /\ request' = [request EXCEPT ![r].phase = "redeem",
                                             ![r].proof = proof[request[r].token]]
      <3> DEFINE m == [request[r] EXCEPT !.phase = "redeem", !.proof = proof[request[r].token]]
      <3>1. request' = [request EXCEPT ![r] = m]
        BY <2>2 DEF TypeOK
      <3>2. m \in Records
        BY <1>1, <2>2, RecordUpdates DEF TypeOK
      <3>3. /\ m.phase = "redeem" /\ m.kind = "totp" /\ m.token = request[r].token
            /\ m.proof = proof[request[r].token]
        BY <1>1, <1>cc DEF CheckCode, Records
      <3> HIDE DEF m
      <3>4. RequestOK(m)
        BY <1>0, <1>cc, <1>3, <1>4, <2>2, <3>3 DEF CheckCode, RequestOK, WipePhases
      <3>5. QED
        BY <1>0, <1>cc, <3>1, <3>2, <3>3, <3>4, Admits DEF CheckCode
    <2>3. QED
      BY <1>cc, <2>1, <2>2 DEF CheckCode
  <1>rd. CASE Redeem(r)
    BY <1>rd, Redeems
  <1>cd. CASE CheckDevice(r)
    <2>1. CASE End(r)
      BY <1>cd, <2>1, Ends DEF CheckDevice, account, tokens, Kept, WipePhases
    <2>2. CASE /\ request[r].token \in devices
               /\ request' = [request EXCEPT ![r].phase = "issue",
                                             ![r].proof = proof[request[r].token]]
      <3> DEFINE m == [request[r] EXCEPT !.phase = "issue", !.proof = proof[request[r].token]]
      <3>1. request' = [request EXCEPT ![r] = m]
        BY <2>2 DEF TypeOK
      <3>2. m \in Records
        BY <1>1, <2>2, RecordUpdates DEF TypeOK
      <3>3. /\ m.phase = "issue" /\ m.kind = "trusted" /\ m.token = request[r].token
            /\ m.proof = proof[request[r].token]
        BY <1>1, <1>cd DEF CheckDevice, Records
      <3> HIDE DEF m
      <3>4. RequestOK(m)
        BY <1>0, <1>cd, <1>3, <1>4, <2>2, <3>3 DEF CheckDevice, RequestOK, WipePhases
      <3>5. QED
        BY <1>0, <1>cd, <3>1, <3>2, <3>3, <3>4, Admits DEF CheckDevice
    <2>3. QED
      BY <1>cd, <2>1, <2>2 DEF CheckDevice
  <1>up. ASSUME NEW p \in Versions, UpdatePassword(r, p) PROVE AccessInv'
    BY <1>up, Starts DEF UpdatePassword, Kinds, LockedPhases
  <1>co. CASE CheckOldPassword(r)
    <2>1. CASE End(r)
      BY <1>co, <2>1, Ends DEF CheckOldPassword, account, tokens, Kept, WipePhases
    <2>2. CASE password \in {None, request[r].proof} /\ Goto(r, "commit")
      <3>1. RequestOK([request[r] EXCEPT !.phase = "commit"])
        BY <1>1, <1>co, <2>2 DEF CheckOldPassword, RequestOK, WipePhases, Records
      <3>2. QED
        BY <1>0, <1>co, <2>2, <3>1, Proceeds
           DEF CheckOldPassword, account, tokens, Kept, WipePhases
    <2>3. QED
      BY <1>co, <2>1, <2>2 DEF CheckOldPassword
  <1>au. CASE AdminUpdate(r)
    BY <1>au, Starts DEF AdminUpdate, Kinds, LockedPhases
  <1>rq. CASE RequestResetPassword(r)
    <2>1. PICK t \in Tokens \cup {NoToken} : Start(r, "requestReset", "replace", t, None, FALSE)
      BY <1>rq DEF RequestResetPassword, TypeOK
    <2>2. QED
      BY <2>1, Starts DEF Kinds, LockedPhases
  <1>ur. CASE UseResetToken(r)
    <2>1. CASE UNCHANGED resets /\ End(r)
      BY <1>ur, <2>1, Ends DEF UseResetToken, account, Kept, WipePhases
    <2>2. CASE /\ request[r].token \in resets
               /\ resets' = resets \ {request[r].token}
               /\ Goto(r, "queued")
      <3>1. RequestOK([request[r] EXCEPT !.phase = "queued"])
        BY <1>1, <1>ur DEF UseResetToken, RequestOK, WipePhases, Records
      <3>2. "queued" \in Phases \ WipePhases /\ "queued" \notin LockedPhases
        BY DEF WipePhases, LockedPhases
      <3>3. QED
        BY <1>ur, <2>2, <3>1, <3>2, Proceeds DEF UseResetToken, account, Kept, WipePhases
    <2>3. QED
      BY <1>ur, <2>1, <2>2 DEF UseResetToken
  <1>cm. CASE Commit(r)
    BY <1>0, <1>cm, Commits
  <1>w. CASE WipeSessions(r) \/ WipeDevices(r)
    BY <1>w, Wipes
  <1>wl. CASE WipeLogins(r)
    BY <1>wl, LastWipe
  <1>et. CASE EnableTotp(r)
    BY <1>et, Starts DEF EnableTotp, Kinds, LockedPhases
  <1>ss. CASE StoreSecret(r)
    BY <1>ss, Ends DEF StoreSecret, tokens, Kept, WipePhases
  <1>vt. ASSUME NEW t \in devices \cup {NoToken}, VerifyTotp(r, t) PROVE AccessInv'
    <2>1. t \in Tokens \cup {NoToken}
      BY DEF TypeOK
    <2>2. QED
      BY <2>1, <1>vt, Starts DEF VerifyTotp, Kinds, LockedPhases
  <1>ct. CASE ConfirmTotp(r)
    <2>1. RequestOK([request[r] EXCEPT !.phase = "forget"])
      BY <1>1, <1>ct DEF ConfirmTotp, RequestOK, WipePhases, Records
    <2>2. "forget" \in Phases \ WipePhases /\ "forget" \notin LockedPhases
      BY DEF WipePhases, LockedPhases
    <2>3. QED
      BY <1>ct, <2>1, <2>2, Proceeds DEF ConfirmTotp, tokens, Kept, WipePhases
  <1>fd. CASE ForgetDevice(r)
    BY <1>fd, Ends DEF ForgetDevice, account, Kept, WipePhases
  <1>dt. CASE DisableTotp(r)
    BY <1>dt, Starts DEF DisableTotp, Kinds, LockedPhases
  <1>rt. CASE ResetTotpForUser(r)
    BY <1>rt, Starts DEF ResetTotpForUser, Kinds, LockedPhases
  <1>cl. CASE ClearTotp(r)
    <2>1. CASE End(r)
      BY <1>cl, <2>1, Ends DEF ClearTotp, tokens, Kept, WipePhases
    <2>2. CASE request[r].kind = "resetTotp" /\ Goto(r, "drop")
      <3>1. RequestOK([request[r] EXCEPT !.phase = "drop"])
        BY <1>1, <2>2 DEF RequestOK, WipePhases, Records
      <3>2. "drop" \in Phases \ WipePhases /\ "drop" \notin LockedPhases
        BY DEF WipePhases, LockedPhases
      <3>3. QED
        BY <1>cl, <2>2, <3>1, <3>2, Proceeds DEF ClearTotp, tokens, Kept, WipePhases
    <2>3. QED
      BY <1>cl, <2>1, <2>2 DEF ClearTotp
  <1>dl. CASE DropLogins(r)
    BY <1>dl, Ends DEF DropLogins, account, Kept, WipePhases
  <1>q. QED
    BY <1>s, <1>f, <1>t, <1>il, <1>id, <1>is, <1>tr, <1>rr, <1>rp, <1>vp, <1>cc, <1>rd, <1>cd,
       <1>up, <1>co, <1>au, <1>rq, <1>ur, <1>cm, <1>w, <1>wl, <1>et, <1>ss, <1>vt, <1>ct, <1>fd,
       <1>dt, <1>rt, <1>cl, <1>dl DEF Handle, Step

\* Every step keeps the invariant.
LEMMA NextSafe == TypeOK /\ AccessInv /\ [Next]_vars => AccessInv'
  <1> SUFFICES ASSUME TypeOK, AccessInv, [Next]_vars PROVE AccessInv'
    OBVIOUS
  <1>1. ASSUME NEW t \in Tokens, Delete(t) PROVE AccessInv'
    BY <1>1, Deletions DEF Delete, DeleteSession, DeleteExpired, account, Kept
  <1>2. CASE RevokeTrustedDevices
    BY <1>2, Deletions DEF RevokeTrustedDevices, account, Kept
  <1>3. CASE Crash
    BY <1>3, Restarts
  <1>4. CASE UNCHANGED vars
    BY <1>4, Deletions DEF vars, Kept
  <1>5. QED
    BY <1>1, <1>2, <1>3, <1>4, HandleSafe DEF Next

\* The inductive invariant holds in every reachable state.
THEOREM AccessInvariant == Spec => []AccessInv
  <1>1. Init => AccessInv
    <2> SUFFICES ASSUME Init PROVE AccessInv
      OBVIOUS
    <2>1. \A r \in Requests : request[r] = Idle
      BY DEF Init
    <2>2. RequestsOK /\ OneHolder /\ ResetOnce /\ WipedStaysWiped
      BY <2>1 DEF RequestsOK, RequestOK, OneHolder, Holds, ResetOnce, WipedStaysWiped, Idle,
                  WipePhases, LockedPhases
    <2>3. RowsIssued /\ NoSupersededAccess /\ RedeemedOnce /\ Standing(password)
      BY DEF Init, RowsIssued, NoSupersededAccess, RedeemedOnce, Standing
    <2>4. QED
      BY <2>2, <2>3 DEF AccessInv
  <1>2. QED
    BY <1>1, NextSafe, CredentialsTypeCorrect, PTL DEF Spec

\* A password change that completed left nothing issued on an earlier password.
THEOREM SupersededAccessEnds == Spec => []NoSupersededAccess
  <1>1. AccessInv => NoSupersededAccess
    BY DEF AccessInv
  <1>2. QED
    BY <1>1, AccessInvariant, PTL

\* The password a request verified is current when the request acts on it.
THEOREM VerifiedStaysCurrent == Spec => []VerifiedIsCurrent
  <1>1. AccessInv => VerifiedIsCurrent
    BY DEF AccessInv, RequestsOK, RequestOK, VerifiedIsCurrent
  <1>2. QED
    BY <1>1, AccessInvariant, PTL

\* A login token opens at most one session, and a reset token lets at most one
\* reset through.
THEOREM TokensWorkOnlyOnce == Spec => []TokensWorkOnce
  <1>1. AccessInv => TokensWorkOnce
    BY DEF AccessInv, TokensWorkOnce
  <1>2. QED
    BY <1>1, AccessInvariant, PTL

-----------------------------------------------------------------------------
(* Requests that take the lock through the chain of promises are requests of  *)
(* Credentials: when the function of one is called, no other is in its own.   *)

\* A step leaves the other requests alone, and gets into the lock only from the
\* queue.
Enters(r) ==
    /\ \A q \in Requests \ {r} : request'[q] = request[q]
    /\ Holds(r)' => Holds(r) \/ Queued(r)

\* A request that starts is not in the lock.
LEMMA StartStaysOut ==
    ASSUME TypeOK, NEW r \in Requests, NEW k, NEW ph \in Phases \ LockedPhases, NEW t, NEW p, NEW b,
           Start(r, k, ph, t, p, b)
    PROVE  Enters(r)
  BY DEF Start, Enters, Holds, TypeOK

\* A request that ends is not in the lock.
LEMMA EndStaysOut ==
    ASSUME TypeOK, NEW r \in Requests, End(r)
    PROVE  Enters(r)
  BY DEF End, Idle, Enters, Holds, LockedPhases, TypeOK

\* A request that goes on stays where it is, comes from the queue or leaves.
LEMMA GotoEnters ==
    ASSUME TypeOK, NEW r \in Requests, NEW ph, Goto(r, ph),
           ph \in LockedPhases => request[r].phase \in LockedPhases \cup {"queued"}
    PROVE  Enters(r)
  <1>1. /\ request' = [request EXCEPT ![r] = [request[r] EXCEPT !.phase = ph]]
        /\ request[r] \in Records
    BY DEF Goto, TypeOK
  <1>2. request'[r].phase = ph /\ request'[r].kind = request[r].kind
    BY <1>1 DEF TypeOK, Records
  <1>3. \A q \in Requests \ {r} : request'[q] = request[q]
    BY <1>1 DEF TypeOK
  <1>4. QED
    BY <1>2, <1>3 DEF Enters, Holds, Queued

\* The same, of a request that takes a value along as it goes on.
LEMMA MoveEnters ==
    ASSUME TypeOK, NEW r \in Requests, NEW m, request' = [request EXCEPT ![r] = m],
           m.kind = request[r].kind, request[r].phase \in LockedPhases \cup {"queued"}
    PROVE  Enters(r)
  <1>1. request'[r] = m /\ \A q \in Requests \ {r} : request'[q] = request[q]
    BY DEF TypeOK
  <1>2. QED
    BY <1>1 DEF Enters, Holds, Queued

\* Every step of a request enters the lock from its queue, or not at all.
LEMMA StepEnters ==
    ASSUME TypeOK, NEW r \in Requests, Step(r)
    PROVE  Enters(r)
  <1> USE Values, StartStaysOut, EndStaysOut, GotoEnters DEF LockedPhases
  <1>1. request[r] \in Records
    BY DEF TypeOK
  <1>2. \A ph \in {"queued", "replace", "hash", "store", "confirm", "clear"} :
           ph \in Phases \ LockedPhases
    BY DEF LockedPhases
  <1>s. ASSUME NEW b \in BOOLEAN, NEW p \in Versions, SignIn(r, p, b) PROVE Enters(r)
    BY <1>s, <1>2 DEF SignIn
  <1>f. ASSUME NEW b \in BOOLEAN, NEW g \in BOOLEAN, Federated(r, b, g) PROVE Enters(r)
    BY <1>f DEF Federated, Enters, Holds, TypeOK
  <1>t. ASSUME NEW b \in BOOLEAN, NEW t \in Tokens, SignInTotp(r, t, b) PROVE Enters(r)
    BY <1>t, <1>2 DEF SignInTotp
  <1>il. ASSUME NEW t \in Tokens, IssueLogin(r, t) PROVE Enters(r)
    BY <1>il DEF IssueLogin
  <1>id. ASSUME NEW t \in Tokens, IssueDevice(r, t) PROVE Enters(r)
    BY <1>id DEF IssueDevice
  <1>is. ASSUME NEW t \in Tokens, IssueSession(r, t) PROVE Enters(r)
    BY <1>is DEF IssueSession
  <1>tr. ASSUME NEW t \in Tokens, SignInTrusted(r, t) PROVE Enters(r)
    BY <1>tr, <1>2 DEF SignInTrusted
  <1>rr. ASSUME NEW t \in Tokens, ReplaceResetToken(r, t) PROVE Enters(r)
    BY <1>rr DEF ReplaceResetToken
  <1>rp. ASSUME NEW t \in Tokens, ResetPassword(r, t) PROVE Enters(r)
    BY <1>rp, <1>2 DEF ResetPassword
  <1>vp. CASE VerifyPassword(r)
    <2>1. CASE request' = [request EXCEPT ![r].phase = "issue", ![r].gated = verified]
      <3>1. request' = [request EXCEPT ![r] =
              [request[r] EXCEPT !.phase = "issue", !.gated = verified]]
        BY <2>1 DEF TypeOK
      <3>2. [request[r] EXCEPT !.phase = "issue", !.gated = verified].kind = request[r].kind
        BY <1>1 DEF Records
      <3>3. QED
        BY <1>vp, <3>1, <3>2, MoveEnters DEF VerifyPassword
    <2>2. QED
      BY <1>vp, <2>1 DEF VerifyPassword
  \* The steps that take the proof of the token they were given, or the version.
  <1>p. ASSUME NEW ph, NEW v, request[r].phase \in LockedPhases \cup {"queued"},
               request' = [request EXCEPT ![r].phase = ph, ![r].proof = v]
        PROVE  Enters(r)
    <2>1. request' = [request EXCEPT ![r] = [request[r] EXCEPT !.phase = ph, !.proof = v]]
      BY <1>p DEF TypeOK
    <2>2. [request[r] EXCEPT !.phase = ph, !.proof = v].kind = request[r].kind
      BY <1>1 DEF Records
    <2>3. QED
      BY <1>p, <2>1, <2>2, MoveEnters
  <1>cc. CASE CheckCode(r)
    BY <1>cc, <1>p DEF CheckCode
  <1>rd. CASE Redeem(r)
    BY <1>rd DEF Redeem
  <1>cd. CASE CheckDevice(r)
    BY <1>cd, <1>p DEF CheckDevice
  <1>up. ASSUME NEW p \in Versions, UpdatePassword(r, p) PROVE Enters(r)
    BY <1>up, <1>2 DEF UpdatePassword
  <1>co. CASE CheckOldPassword(r)
    BY <1>co DEF CheckOldPassword
  <1>au. CASE AdminUpdate(r)
    BY <1>au, <1>2 DEF AdminUpdate
  <1>rq. CASE RequestResetPassword(r)
    BY <1>rq, <1>2 DEF RequestResetPassword
  <1>ur. CASE UseResetToken(r)
    BY <1>ur DEF UseResetToken
  <1>cm. CASE Commit(r)
    BY <1>cm DEF Commit
  <1>ws. CASE WipeSessions(r)
    BY <1>ws DEF WipeSessions
  <1>wd. CASE WipeDevices(r)
    BY <1>wd DEF WipeDevices
  <1>wl. CASE WipeLogins(r)
    BY <1>wl, <1>p DEF WipeLogins
  <1>et. CASE EnableTotp(r)
    BY <1>et, <1>2 DEF EnableTotp
  <1>ss. CASE StoreSecret(r)
    BY <1>ss DEF StoreSecret
  <1>vt. ASSUME NEW t, VerifyTotp(r, t) PROVE Enters(r)
    BY <1>vt, <1>2 DEF VerifyTotp
  <1>ct. CASE ConfirmTotp(r)
    BY <1>ct DEF ConfirmTotp
  <1>fd. CASE ForgetDevice(r)
    BY <1>fd DEF ForgetDevice
  <1>dt. CASE DisableTotp(r)
    BY <1>dt, <1>2 DEF DisableTotp
  <1>rt. CASE ResetTotpForUser(r)
    BY <1>rt, <1>2 DEF ResetTotpForUser
  <1>cl. CASE ClearTotp(r)
    BY <1>cl DEF ClearTotp
  <1>dl. CASE DropLogins(r)
    BY <1>dl DEF DropLogins
  <1>q. QED
    BY <1>s, <1>f, <1>t, <1>il, <1>id, <1>is, <1>tr, <1>rr, <1>rp, <1>vp, <1>cc, <1>rd, <1>cd,
       <1>up, <1>co, <1>au, <1>rq, <1>ur, <1>cm, <1>ws, <1>wd, <1>wl, <1>et, <1>ss, <1>vt, <1>ct,
       <1>fd, <1>dt, <1>rt, <1>cl, <1>dl DEF Step

\* A step that leaves the rows and the calls alone keeps the state of the lock
\* tied to the requests.
LEMMA CallsUndisturbed ==
    ASSUME CallsOK, UNCHANGED call, UNCHANGED key,
           \A r \in Requests : /\ InLock(r)' => InLock(r)
                               /\ InLock(r) => state'[call[r]] = state[call[r]]
                               /\ Queued(r)' => Queued(r)
                               /\ ~Queued(r)' /\ InLock(r)' /\ Queued(r)
                                    => state[call[r]] = "running"
    PROVE  CallsOK'
  <1>1. ASSUME NEW r \in Requests, InLock(r)'
        PROVE  /\ call'[r] \in Calls /\ key'[call'[r]] = User
               /\ state'[call'[r]] \in IF Queued(r)' THEN {"pending", "running"} ELSE {"running"}
    BY <1>1 DEF CallsOK
  <1>2. ASSUME NEW r \in Requests, InLock(r)', NEW q \in Requests \ {r}, InLock(q)'
        PROVE  call'[q] # call'[r]
    BY <1>2 DEF CallsOK
  <1>3. QED
    BY <1>1, <1>2 DEF CallsOK

\* A request that is in its function has the lock: its call runs, and no other
\* call for this user does.
LEMMA Granted ==
    ASSUME LockTypeOK, LockInv, CallsOK, NEW r \in Requests, Queued(r),
           state[call[r]] = "running"
    PROVE  Free
  <1>1. SUFFICES ASSUME NEW q \in Requests, Holds(q)
                 PROVE  FALSE
    BY DEF Free
  <1>2. q # r
    BY <1>1 DEF Holds, Queued, LockedPhases
  <1>3. /\ call[r] \in Calls /\ key[call[r]] = User
        /\ call[q] \in Calls /\ key[call[q]] = User /\ state[call[q]] = "running"
        /\ call[q] # call[r]
    BY <1>1, <1>2 DEF CallsOK, InLock, Holds, Queued, LockedPhases
  <1>4. QED
    BY <1>3, OneRuns DEF MutualExclusion

\* What the lock and the requests that use it keep.
LockedInv == TypeOK /\ LockTypeOK /\ LockInv /\ CallsOK

\* A step of a request is a step of Credentials and of the lock, and keeps the
\* two tied.
LEMMA ServeGranted ==
    ASSUME User \in Keys, LockedInv, NEW r \in Requests, Serve(r)
    PROVE  Handle(r) /\ [LockNext]_lockVars /\ CallsOK'
  <1> USE DEF LockedInv
  <1>1. Step(r) /\ (Queued(r) => state[call[r]] = "running")
    BY DEF Serve
  <1>2. Handle(r)
    BY <1>1, Granted DEF Handle, Queued
  <1>3. Enters(r)
    BY <1>1, StepEnters
  <1>4. \A q \in Requests \ {r} : /\ Queued(q)' <=> Queued(q)
                                  /\ InLock(q)' <=> InLock(q)
    BY <1>3 DEF Enters, Queued, InLock, Holds
  <1>5. InLock(r)' => InLock(r) \/ Queued(r)'
    BY <1>3 DEF Enters, InLock
  <1>6. CASE Queued(r)' /\ ~Queued(r)
    <2>1. PICK c \in Calls : WithLock(c, User) /\ call' = [call EXCEPT ![r] = c]
      BY <1>6 DEF Serve
    <2>2. /\ state[c] = "new" /\ state'[c] = "pending" /\ key'[c] = User
          /\ \A d \in Calls \ {c} : state'[d] = state[d] /\ key'[d] = key[d]
      BY <2>1 DEF WithLock, LockTypeOK
    <2>3. /\ call' \in [Requests -> Calls \cup {NoCall}] /\ call'[r] = c
          /\ \A q \in Requests \ {r} : call'[q] = call[q]
      BY <2>1 DEF CallsOK
    <2>4. ASSUME NEW q \in Requests \ {r}, InLock(q)
          PROVE  call[q] \in Calls \ {c}
      BY <2>2, <2>4 DEF CallsOK
    <2>5. ASSUME NEW q \in Requests, InLock(q)'
          PROVE  /\ call'[q] \in Calls /\ key'[call'[q]] = User
                 /\ state'[call'[q]] \in IF Queued(q)' THEN {"pending", "running"}
                                                       ELSE {"running"}
      <3>1. CASE q = r
        BY <3>1, <1>6, <2>2, <2>3
      <3>2. CASE q # r
        BY <3>2, <2>5, <1>4, <2>2, <2>3, <2>4 DEF CallsOK
      <3>3. QED
        BY <3>1, <3>2
    <2>6. ASSUME NEW q \in Requests, InLock(q)', NEW p \in Requests \ {q}, InLock(p)'
          PROVE  call'[p] # call'[q]
      BY <2>6, <1>4, <2>3, <2>4 DEF CallsOK
    <2>7. CallsOK'
      BY <2>3, <2>5, <2>6 DEF CallsOK
    <2>8. QED
      BY <1>2, <2>1, <2>7 DEF LockNext
  <1>7. CASE ~(Queued(r)' /\ ~Queued(r))
    <2>1. UNCHANGED <<lockVars, call>>
      BY <1>7 DEF Serve
    <2>2. \A q \in Requests : InLock(q)' => InLock(q)
      BY <1>4, <1>5, <1>7 DEF InLock
    <2>3. \A q \in Requests : Queued(q)' => Queued(q)
      BY <1>4, <1>7
    <2>4. CallsOK'
      BY <1>1, <1>4, <2>1, <2>2, <2>3, CallsUndisturbed DEF lockVars
    <2>5. QED
      BY <1>2, <2>1, <2>4
  <1>8. QED
    BY <1>6, <1>7

\* A step of the chains changes no request, and ends no call a request is in.
LEMMA ChainKeepsCalls ==
    ASSUME LockedInv, NEW c \in Calls, Chain(c)
    PROVE  UNCHANGED vars /\ [LockNext]_lockVars /\ CallsOK'
  <1> USE DEF LockedInv
  <1>1. UNCHANGED <<vars, call>>
    BY DEF Chain
  <1>2. \A r \in Requests : (InLock(r)' <=> InLock(r)) /\ (Queued(r)' <=> Queued(r))
    BY <1>1 DEF vars, InLock, Holds, Queued
  <1>3. ASSUME NEW r \in Requests, InLock(r), Queued(r) \/ state[call[r]] = "running"
        PROVE  /\ call[r] \in Calls /\ key'[call[r]] = User
               /\ state'[call[r]] \in IF Queued(r) THEN {"pending", "running"} ELSE {"running"}
    <2>1. /\ call[r] \in Calls /\ key[call[r]] = User
          /\ state[call[r]] \in IF Queued(r) THEN {"pending", "running"} ELSE {"running"}
      BY <1>3 DEF CallsOK
    <2>2. CASE \E k \in Keys : WithLock(c, k)
      BY <2>1, <2>2 DEF WithLock, LockTypeOK
    <2>3. CASE Run(c)
      BY <2>1, <2>3 DEF Run, LockTypeOK
    <2>4. CASE Settle(c) \/ Drop(c)
      BY <2>1, <2>4 DEF Settle, Drop, LockTypeOK
    <2>5. CASE Finish(c) /\ call[r] # c
      BY <2>1, <2>5 DEF Finish, LockTypeOK
    <2>6. QED
      BY <1>3, <2>2, <2>3, <2>4, <2>5 DEF Chain
  <1>4. CallsOK'
    BY <1>1, <1>2, <1>3 DEF CallsOK
  <1>5. LockNext
    BY DEF Chain, LockNext
  <1>6. QED
    BY <1>1, <1>4, <1>5

\* A step of the two together is a step of Credentials, keeps the lock's
\* invariant, and keeps requests and calls tied.
LEMMA LockedStep ==
    ASSUME User \in Keys, LockedInv, [LockedNext]_lockedVars
    PROVE  [Next]_vars /\ LockedInv'
  <1> DEFINE Tied == [Next]_vars /\ ([LockNext]_lockVars \/ LockInit') /\ CallsOK'
  <1>1. Tied
    <2>1. ASSUME NEW r \in Requests, Serve(r) PROVE Tied
      BY <2>1, ServeGranted DEF Next
    <2>2. ASSUME NEW c \in Calls, Chain(c) PROVE Tied
      BY <2>2, ChainKeepsCalls
    <2>3. CASE DeleteRows
      <3>1. Next /\ UNCHANGED <<request, lockVars, call>>
        BY <2>3 DEF DeleteRows, Next, RevokeTrustedDevices, Delete, DeleteSession, DeleteExpired
      <3>2. \A r \in Requests : (InLock(r)' <=> InLock(r)) /\ (Queued(r)' <=> Queued(r))
        BY <3>1 DEF InLock, Holds, Queued
      <3>3. CallsOK'
        BY <3>1, <3>2 DEF LockedInv, CallsOK, lockVars
      <3>4. QED
        BY <3>1, <3>3
    <2>4. CASE Restart
      <3>1. Next /\ LockInit'
        BY <2>4 DEF Restart, Next, LockInit
      <3>2. \A r \in Requests : ~InLock(r)'
        BY <2>4 DEF Restart, Crash, InLock, Holds, Queued, Idle, LockedPhases
      <3>3. CallsOK'
        BY <2>4, <3>2 DEF Restart, CallsOK
      <3>4. QED
        BY <3>1, <3>3
    <2>5. CASE UNCHANGED lockedVars
      <3>1. UNCHANGED <<vars, lockVars, call>>
        BY <2>5 DEF lockedVars
      <3>2. \A r \in Requests : (InLock(r)' <=> InLock(r)) /\ (Queued(r)' <=> Queued(r))
        BY <3>1 DEF vars, InLock, Holds, Queued
      <3>3. CallsOK'
        BY <3>1, <3>2 DEF LockedInv, CallsOK, lockVars
      <3>4. QED
        BY <3>1, <3>3
    <2>6. QED
      BY <2>1, <2>2, <2>3, <2>4, <2>5 DEF LockedNext
  <1>2. TypeOK'
    BY <1>1, NextType DEF LockedInv
  <1>3. LockTypeOK' /\ LockInv'
    <2>1. LockInit' => LockTypeOK' /\ LockInv'
      BY LockStarts, PTL
    <2>2. QED
      BY <1>1, <2>1, LockNextType, LockNextSafe DEF LockedInv
  <1>4. QED
    BY <1>1, <1>2, <1>3 DEF LockedInv

\* At first no request is in flight and no call has been made.
LEMMA LockedStart == LockedInit => LockedInv
  <1> SUFFICES ASSUME LockedInit PROVE LockedInv
    OBVIOUS
  <1>1. TypeOK /\ LockTypeOK /\ LockInv
    BY InitType, LockStarts DEF LockedInit
  <1>2. \A r \in Requests : ~InLock(r)
    BY DEF LockedInit, Init, Idle, InLock, Holds, Queued, LockedPhases
  <1>3. CallsOK
    BY <1>2 DEF LockedInit, CallsOK
  <1>4. QED
    BY <1>1, <1>3 DEF LockedInv

\* Requests that take the lock through withLock, among the calls of any other
\* users and across restarts, do what Credentials lets them do: when the function
\* of a request is called, every other request of the user is out of its own
\* (withUserCredentialsLock is the Free of Credentials).
THEOREM LockGrantsFree ==
    ASSUME User \in Keys
    PROVE  LockedSpec => Spec
  <1>1. LockedInv /\ [LockedNext]_lockedVars => [Next]_vars /\ LockedInv'
    BY LockedStep
  <1>2. LockedInit => Init
    BY DEF LockedInit
  <1>3. QED
    BY <1>1, <1>2, LockedStart, PTL DEF LockedSpec, Spec

\* With the lock they really take, no access outlives the password it was given
\* on, nobody acts on a password that has changed, and no token works twice.
THEOREM LockedAccessIsSafe ==
    ASSUME User \in Keys
    PROVE  LockedSpec => [](NoSupersededAccess /\ VerifiedIsCurrent /\ TokensWorkOnce)
  BY LockGrantsFree, SupersededAccessEnds, VerifiedStaysCurrent, TokensWorkOnlyOnce, PTL
=============================================================================
